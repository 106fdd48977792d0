--------------------------- MODULE WorkloadFiles ---------------------------
(***************************************************************************)
(* Workload descriptions (database/workload.py): what is read from a       *)
(* mapping, which mappings are refused, and what is written again.         *)
(*                                                                         *)
(* A field that may be absent is a sequence of length 0 or 1.  A file has  *)
(*   problem    extents by name           dilation, stride                 *)
(*   bound      [form |-> "levels", at |-> by level, pairs of dimension    *)
(*              and extent], or the older [form |-> "loops", list |-> loops*)
(*              of dimension, level and extent]                            *)
(*   attrs      element bits by tensor                                     *)
(*   compute    [target, reads, index], as in Mapping                      *)
(*   layout     the Layout-Pragma mapping                                  *)
(* Names, roles and YAML itself are left out.                              *)
(***************************************************************************)
EXTENDS Mapping

Given(x) == x # << >>
OrElse(x, default) == IF Given(x) THEN x[1] ELSE default

-----------------------------------------------------------------------------
(* Loop bounds.                                                            *)

\* The older form lists loops in any order; both are grouped by level.
ByLevel(bound) ==
  IF bound.form = "levels" THEN bound.at
  ELSE [l \in {loop[2] : loop \in ToSet(bound.list)} |->
          LET inside == SelectSeq(bound.list, LAMBDA loop : loop[2] = l)
          IN  [i \in DOMAIN inside |-> << inside[i][1], inside[i][3] >>]]

Contiguous(levels) == levels = {} \/ levels = 0 .. Max(levels)

\* _normalize_bound_level: known dimensions, each at most once in a level.
LevelAccepted(entries) ==
  /\ \A i \in DOMAIN entries : entries[i][1] \in DimSet
  /\ \A i, j \in DOMAIN entries : entries[i][1] = entries[j][1] => i = j

BoundsAccepted(at) ==
  Contiguous(DOMAIN at) /\ \A l \in DOMAIN at : LevelAccepted(at[l])

Extents(entries) ==
  [d \in {e[1] : e \in ToSet(entries)} |-> (CHOOSE e \in ToSet(entries) : e[1] = d)[2]]

LoopBounds(at) == [l \in DOMAIN at |-> Extents(at[l])]

\* The loops of a level are written in the order of _DIMENSION_BASES.
BoundsWritten(bounds) ==
  [form |-> "levels",
   at |-> [l \in DOMAIN bounds |->
             LET kept == SelectSeq(Dims, LAMBDA d : d \in DOMAIN bounds[l])
             IN  [i \in DOMAIN kept |-> << kept[i], bounds[l][kept[i]] >>]]]

-----------------------------------------------------------------------------
(* Layout.                                                                 *)

Streams == {"In", "F", "Out"}

\* sharing.system is a level, or a flag that stands for level 2 or 0.
SystemLevel(system) ==
  LET value == OrElse(system, << "level", 0 >>)
  IN  IF value[1] = "level" THEN value[2] ELSE IF value[2] THEN 2 ELSE 0

SharingRead(sharing) ==
  [block |-> OrElse(sharing.block, FALSE), pu |-> OrElse(sharing.pu, FALSE),
   system |-> SystemLevel(sharing.system)]

SharingAccepted(sharing) == sharing.system >= 0 /\ (sharing.system > 1 => sharing.pu)

\* Only an explicit null stands for no streaming; a layout without the key
\* reads as the empty mapping, << >> here, and is refused.
StreamingAccepted(streaming) ==
  Given(streaming) =>
    DOMAIN streaming[1] = Streams /\ \E t \in Streams : ~streaming[1][t]

\* A group names at least one tensor, none of them twice.
GroupAccepted(group) ==
  /\ group.tensors # << >> /\ IsInjective(group.tensors)
  /\ Given(group.weight) => group.weight[1] > 0

LayoutAccepted(layout) ==
  /\ OrElse(layout.bit, "bit-serial") \in {"bit-parallel", "bit-serial"}
  /\ Given(layout.cache)
  /\ \A i \in DOMAIN layout.groups : GroupAccepted(layout.groups[i])
  /\ layout.retired = {}
  /\ StreamingAccepted(layout.streaming)
  /\ Given(layout.sharing) => SharingAccepted(SharingRead(layout.sharing[1]))

LayoutRead(layout) ==
  [bit |-> [i \in DOMAIN layout.bit |-> layout.bit[i] = "bit-parallel"],
   cache |-> layout.cache,
   groups |-> layout.groups,
   streams |-> IF Given(layout.streaming) THEN {t \in Streams : layout.streaming[1][t]} ELSE {},
   sharing |-> [i \in DOMAIN layout.sharing |-> SharingRead(layout.sharing[i])],
   interleaving |-> layout.interleaving]

SharingWritten(sharing) ==
  [block |-> << sharing.block >>, pu |-> << sharing.pu >>,
   system |-> << << "level", sharing.system >> >>]

LayoutWritten(layout) ==
  [bit |-> [i \in DOMAIN layout.bit |-> IF layout.bit[i] THEN "bit-parallel" ELSE "bit-serial"],
   cache |-> layout.cache,
   groups |-> layout.groups,
   retired |-> {},
   streaming |-> << [t \in Streams |-> t \in layout.streams] >>,
   sharing |-> [i \in DOMAIN layout.sharing |-> SharingWritten(layout.sharing[i])],
   interleaving |-> layout.interleaving]

-----------------------------------------------------------------------------
(* Cache groups of a layout, for the tensors that Compute names.           *)

TensorsOf(compute) == {compute.target} \cup ToSet(compute.reads)

\* F and In share one group unless the description names groups.
DefaultGroups(compute) ==
  LET cached == SelectSeq(<< "F", "In" >>, LAMBDA t : t \in TensorsOf(compute))
  IN  IF cached = << >> THEN << >>
      ELSE << [name |-> "default", tensors |-> cached, weight |-> << >>] >>

CacheGroupsOf(layout, compute) ==
  IF layout.groups = << >> THEN DefaultGroups(compute) ELSE layout.groups

\* resolve_cache_config: no groups without a cache; with one, groups of
\* tensors that are read, each in one group only.
CacheAccepted(layout, compute) ==
  LET groups == CacheGroupsOf(layout, compute)
      tensors == FlattenSeq([i \in DOMAIN groups |-> groups[i].tensors])
  IN  IF layout.cache[1]
      THEN /\ groups # << >>
           /\ IsInjective([i \in DOMAIN groups |-> groups[i].name])
           /\ IsInjective(tensors)
           /\ ToSet(tensors) \subseteq TensorsOf(compute) \ {compute.target}
      ELSE layout.groups = << >>

-----------------------------------------------------------------------------
(* Workloads.                                                              *)

\* _validate_dimension_products: a dimension that is split at all is split at
\* every level up to its last, and the splits multiply to its extent.
Splits(w, d) == {l \in DOMAIN w.bounds : d \in DOMAIN w.bounds[l]}

ProductsAccepted(w) ==
  \A d \in DOMAIN w.problem :
    Splits(w, d) # {} =>
      /\ Contiguous(Splits(w, d))
      /\ Product([l \in Splits(w, d) |-> w.bounds[l][d]], Splits(w, d)) = w.problem[d]

\* validate, as refresh and to_dict call it.
Valid(w) ==
  /\ ProductsAccepted(w)
  /\ (Given(w.layout) /\ Given(w.layout[1].cache)) => CacheAccepted(w.layout[1], w.compute)

FileAccepted(file) ==
  /\ DOMAIN file.problem \subseteq DimSet
  /\ Given(file.dilation) => Len(file.dilation[1]) = 2
  /\ Given(file.stride) => Len(file.stride[1]) = 2
  /\ BoundsAccepted(ByLevel(file.bound))
  /\ file.compute.reads # << >>
  /\ Given(file.layout) => LayoutAccepted(file.layout[1])

WorkloadRead(file) ==
  [problem |-> file.problem, dilation |-> file.dilation, stride |-> file.stride,
   bounds |-> LoopBounds(ByLevel(file.bound)),
   attrs |-> file.attrs, compute |-> file.compute,
   layout |-> [i \in DOMAIN file.layout |-> LayoutRead(file.layout[i])]]

\* from_dict: << >> where a WorkloadParseError is raised.
FromDict(file) ==
  IF FileAccepted(file) /\ Valid(WorkloadRead(file)) THEN << WorkloadRead(file) >> ELSE << >>

\* to_dict, of a valid workload whose layout says whether there is a cache.
ToDict(w) ==
  [problem |-> w.problem, dilation |-> w.dilation, stride |-> w.stride,
   bound |-> BoundsWritten(w.bounds),
   attrs |-> w.attrs, compute |-> w.compute,
   layout |-> [i \in DOMAIN w.layout |-> LayoutWritten(w.layout[i])]]

\* require_layout: a model needs every directive of the layout.
Required(w) ==
  Given(w.layout) /\ LET layout == w.layout[1]
                     IN  /\ Given(layout.sharing) /\ Given(layout.bit)
                         /\ Given(layout.cache) /\ Given(layout.interleaving)
=============================================================================
