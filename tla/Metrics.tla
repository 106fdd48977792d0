------------------------------ MODULE Metrics ------------------------------
(***************************************************************************)
(* The cost terms of a target, for latency or energy                       *)
(* (analytical_model/analytical_model.py).  The program divides in floating *)
(* point; here a term is exact and the fractions it contains, miss rates   *)
(* and inter-bank ratios, are brought to one denominator, Whole.           *)
(*                                                                         *)
(* A mapping has features, of "activation", "base_die", "channel_level".   *)
(* An architecture has colBits and cost, by kind ("latency" or "energy")   *)
(* and operation; offers names the optional entries that its file has, of  *)
(* "base_die", "channel_level" and "add_tree_width".  missed is the number *)
(* of misses by tensor.                                                    *)
(***************************************************************************)
EXTENDS CacheGroups

Kinds == {"latency", "energy"}

\* _validate_feature_flags: adders outside the PUs need their cost and width.
FlagsValid(m, a) ==
  LET adders == m.features \ {"activation"}
  IN  /\ adders # {"base_die", "channel_level"}
      /\ adders # {} => "activation" \in m.features
      /\ adders \subseteq a.offers
      /\ adders # {} => "add_tree_width" \in a.offers

\* Energy accumulates over the PUs in use, latency is that of one of them.
Scale(m, kind) == IF kind = "energy" THEN UsedPus(m) ELSE 1

TemporalSteps(m) == ProductLevel(m, 1)
Accesses(m, a) == Iterations(m, AccessNest(a))

\* Variant: a rate per temporal step.
MissesPerStep(m, a, t, missed) ==
  IF CacheEffective(m) /\ t \in CachedTensors(m)
  THEN (missed[t] * Accesses(m, a)) \div TemporalSteps(m) ELSE Accesses(m, a)

\* _tensor_role_miss_rate, in units of one access: without a cache for the
\* tensor every access is a miss.
Misses(m, a, t, missed) ==
  IF CacheEffective(m) /\ t \in CachedTensors(m) THEN missed[t] ELSE Accesses(m, a)

\* The inter-bank ratio of a tensor, as a part of the tiles of a PU.
Remote(m, t) == IF m.system > 0 THEN RemoteTiles(m, t) ELSE 0
Local(m, t) == TilesPuSharing(m, t) - Remote(m, t)

Whole(m, a) == Accesses(m, a) * TilesPuSharing(m, "F") * TilesPuSharing(m, "Out")

-----------------------------------------------------------------------------
\* What a streaming tensor sends to a PU: columns for each step, or, where the
\* bus does not count, its tiles to every PU of the lowest level.
StreamUnits(m, a, t, bus) ==
  IF bus THEN CeilDiv(TileSize(m, t) * m.bits[t], a.colBits) * TemporalSteps(m)
         ELSE TensorLevel(m, t, 1) * ProductLevel(m, 2)

StreamMetric(m, a, kind, missed, bus) ==
  SumFunctionOnSet([t \in Tensors |-> StreamUnits(m, a, t, bus) * Misses(m, a, t, missed)],
                   {"F", "In"} \cap m.streams)
    * a.cost[kind].hostPu * Scale(m, kind) * (Whole(m, a) \div Accesses(m, a))

\* Rows that a step opens, over all steps: two at a time if F and In take
\* turns in one bank.
RowChanges(m, a, clamp) ==
  IF StoresBoth(m) /\ (~m.interleaved \/ a.banks = 1) THEN 2 * TemporalSteps(m)
  ELSE Max({0} \cup {RowChangesBank(m, a, t, clamp) : t \in {"F", "In"} \ m.streams})

ActivationMetric(m, a, kind) ==
  IF m.features # {"activation"} THEN 0
  ELSE TilesPu(m, "Out") * CeilDiv(TileSize(m, "Out"), a.lanes)
         * (a.cost[kind].load + a.cost[kind].compute + a.cost[kind].store) * Scale(m, kind)

ComputeMetric(m, a, kind, missed, clamp) ==
  LET cost == a.cost[kind]
      steps == TemporalSteps(m)
      ofF == Whole(m, a) \div (Accesses(m, a) * TilesPuSharing(m, "F"))
      loads ==
        SumFunctionOnSet(
          [t \in Tensors |->
             Misses(m, a, t, missed)
               * (Local(m, "F") * (steps * cost.load + RowChanges(m, a, clamp) * cost.row)
                  + Remote(m, "F") * steps * cost.bankToBank)],
          {"F", "In"} \ m.streams)
      reduction == Remote(m, "Out") * steps * cost.bankToBank
  IN  Scale(m, kind) * (Whole(m, a) * steps * (cost.compute + cost.store)
                        + loads * ofF
                        + reduction * (Whole(m, a) \div TilesPuSharing(m, "Out")))
      + Whole(m, a) * ActivationMetric(m, a, kind)

\* The adders outside the PUs: one tree on the base die, or one per channel,
\* side by side.
BaseDieMetric(m, a, kind) == BaseDiePasses(m, a) * a.cost[kind].tree
ChannelLevelMetric(m, a, kind) ==
  ChannelPasses(m, a) * a.cost[kind].tree * (IF kind = "energy" THEN Channels(m, a) ELSE 1)

SaveMetric(m, a, kind, clamp) ==
  IF "Out" \in m.streams THEN 0
  ELSE Whole(m, a) *
    (Scale(m, kind) *
       (RowChangesBank(m, a, "Out", clamp) * a.cost[kind].hostRow
        + TilesPu(m, "Out") * CeilDiv(TileSize(m, "Out") * ElementBits(m, "Out"), a.colBits)
            * a.cost[kind].hostPu)
     + (IF "base_die" \in m.features THEN BaseDieMetric(m, a, kind) ELSE 0)
     + (IF "channel_level" \in m.features THEN ChannelLevelMetric(m, a, kind) ELSE 0))

-----------------------------------------------------------------------------
Saves(t) == t \in {"default", "hbm_pim"}

\* _target_metric_total.
TargetMetric(m, a, kind, t, missed, clamp) ==
  StreamMetric(m, a, kind, missed, t # "attacc")
  + ComputeMetric(m, a, kind, missed, clamp)
  + (IF Saves(t) THEN SaveMetric(m, a, kind, clamp) ELSE 0)
=============================================================================
