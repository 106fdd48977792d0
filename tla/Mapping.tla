------------------------------ MODULE Mapping ------------------------------
(***************************************************************************)
(* A mapped workload and what the analytical model derives from its loop   *)
(* bounds (database/workload.py, analytical_model/analytical_model.py).    *)
(*                                                                         *)
(* A mapping is a record with                                              *)
(*   loops         problem extents, by dimension                           *)
(*   bound         extents by level and dimension; a loop that a level     *)
(*                 does not list has extent 1                              *)
(*   listed        the dimensions that level 0 and level 1 list, by level    *)
(*   index         by tensor, its index expressions; each is the set of    *)
(*                 dimensions it adds up, as in In[n,p+r,q+s,c]            *)
(*   bits          element width by tensor                                 *)
(*   streams       the tensors that are streamed, not stored               *)
(*   block, pu     the sharing flags, and the level `system` is shared at  *)
(*   bitParallel, interleaved                                              *)
(* and an architecture one with rowBits, rows (per bank), banks (per PU),  *)
(* lanes, organization (capacity by level).                                *)
(***************************************************************************)
EXTENDS Integers, Sequences, FiniteSets, Functions, SequencesExt, FiniteSetsExt

\* _DIMENSION_BASES: the loops of a level are always kept in this order.
Dims == << "N", "K", "P", "Q", "C", "R", "S" >>
DimSet == ToSet(Dims)

Tensors == {"In", "F", "Out"}

CeilDiv(n, k) == (n + k - 1) \div k
Gcd(x, y) == Max({d \in 1 .. x : x % d = 0 /\ y % d = 0})
Product(f, S) == FoldFunctionOnSet(LAMBDA x, y : x * y, 1, f, S)

Levels(m) == DOMAIN m.bound
Top(m) == Max(Levels(m))

-----------------------------------------------------------------------------
(* Loop nests.                                                             *)

\* The dimensions a tensor's index expressions name.
Related(m, t) == UNION Range(m.index[t])

\* A loop nest lists its loops, << level, dimension >>, outermost first.
LevelNest(l) == [i \in DOMAIN Dims |-> << l, Dims[i] >>]

Extent(m, loop) == m.bound[loop[1]][loop[2]]

\* How many iterations of the loops after position k, and of the whole nest.
Period(m, nest, k) ==
  Product([i \in DOMAIN nest |-> Extent(m, nest[i])], k + 1 .. Len(nest))
Iterations(m, nest) == Period(m, nest, 0)

\* The values of the loops of level l in iteration i (from 0) of a nest.
ValuesAt(m, nest, i, l) ==
  [d \in DimSet |->
     IF \E k \in DOMAIN nest : nest[k] = << l, d >>
     THEN LET k == CHOOSE j \in DOMAIN nest : nest[j] = << l, d >>
          IN  (i \div Period(m, nest, k)) % Extent(m, nest[k])
     ELSE 0]

\* A tensor's indices where the loop variables have the given values.
Indices(m, t, value) ==
  [i \in DOMAIN m.index[t] |-> SumFunctionOnSet(value, m.index[t][i])]

-----------------------------------------------------------------------------
(* Products of extents.                                                    *)

ProductLevel(m, l) == Product(m.bound[l], DimSet)
ProductLevels(m, a, b) == Product([l \in a .. b |-> ProductLevel(m, l)], a .. b)
TensorLevel(m, t, l) == Product(m.bound[l], Related(m, t))
TensorLevels(m, t, a, b) == Product([l \in a .. b |-> TensorLevel(m, t, l)], a .. b)

UsedPus(m) == ProductLevels(m, 2, Top(m))

\* _var_coefficients: what one step of a loop of level l spans.
Coefficient(m, l, d) == Product([j \in 0 .. l - 1 |-> m.bound[j][d]], 0 .. l - 1)

\* How far two loops that are added in an index reach.
Spread(m, l, d, e) ==
  LET x == Coefficient(m, l, d)
      y == Coefficient(m, l, e)
  IN  (x * (m.bound[l][d] - 1) + y * (m.bound[l][e] - 1)) \div Gcd(x, y) + 1

InputLevel(m, l) ==
  m.bound[l]["N"] * m.bound[l]["K"] * m.bound[l]["C"]
    * Spread(m, l, "P", "R") * Spread(m, l, "Q", "S")

\* Variant: the halo is left out.
InputEstimateWithoutHalo(m, a, b) ==
  Min({Product([l \in a .. b |-> TensorLevel(m, "Out", l) * m.bound[l]["C"]], a .. b),
       ProductLevels(m, a, b)})

InputEstimate(m, a, b) ==
  Min({Product([l \in a .. b |-> InputLevel(m, l)], a .. b), ProductLevels(m, a, b)})

-----------------------------------------------------------------------------
(* Tiles: what a PU holds of a tensor.                                     *)

TileSize(m, t) ==
  IF ~m.block THEN ProductLevel(m, 0)
  ELSE IF t = "In" THEN InputEstimate(m, 0, 0)
  ELSE TensorLevel(m, t, 0)

TilesPuSharing(m, t) ==
  IF t = "In" THEN InputEstimate(m, 1, 1) ELSE TensorLevel(m, t, 1)

TilesSystemSharing(m, t) ==
  CeilDiv(IF t = "In" THEN InputEstimate(m, 1, m.system) ELSE TensorLevels(m, t, 1, m.system),
          ProductLevels(m, 2, m.system))

\* System sharing without PU sharing is not supported.
SharingSupported(m) == m.system > 0 => m.pu

TilesPu(m, t) ==
  IF m.system > 0 THEN TilesSystemSharing(m, t)
  ELSE IF m.pu THEN TilesPuSharing(m, t)
  ELSE ProductLevel(m, 1)

Stored(m, t) == t \notin m.streams
StoresBoth(m) == Stored(m, "F") /\ Stored(m, "In")

-----------------------------------------------------------------------------
(* DRAM rows.                                                              *)

\* _ele_bits_lookup: the model computes with whole bytes.
ElementBits(m, t) == 8 * (m.bits[t] \div 8)

PayloadBits(m, t) == IF m.bitParallel THEN ElementBits(m, t) ELSE 1

MaxTilesPerRow(m, a, t) == a.rowBits \div (TileSize(m, t) * PayloadBits(m, t))

\* The tiles of a tensor that are walked again and again: its loops inside the
\* first loop it is not indexed by.
Hypertile(m, t) ==
  LET cutoffs == {i \in DOMAIN Dims : Dims[i] \notin Related(m, t) /\ m.bound[1][Dims[i]] > 1}
      first == IF cutoffs = {} THEN 0 ELSE Min(cutoffs)
  IN  Product(m.bound[1], {Dims[i] : i \in first + 1 .. Len(Dims)} \cap Related(m, t))

TilesPerRow(m, a, t, clamp) ==
  LET fit == MaxTilesPerRow(m, a, t)
      whole == (fit \div Hypertile(m, t)) * Hypertile(m, t)
  IN  IF clamp /\ whole > 0 THEN whole ELSE fit

\* _rows_used_from_unique_tiles.
RowsFor(tiles, perRow) == CeilDiv(tiles, perRow)

\* estimate_tensor_row_changes; the exact simulation is switched off.
RowChangesPu(m, a, t, clamp) == RowsFor(TilesPu(m, t), TilesPerRow(m, a, t, clamp))

HypertileSplit(m, a, t, clamp) ==
  /\ Hypertile(m, t) > 1
  /\ RowChangesPu(m, a, t, clamp) > 1
  /\ TilesPerRow(m, a, t, clamp) % Hypertile(m, t) # 0

\* Variant: also where F and In are both stored.
InterleavedAlways(m, t) == m.interleaved

\* Whether a tensor's rows are spread over the banks of a PU.
Interleaved(m, t) == m.interleaved /\ (t = "Out" \/ ~StoresBoth(m))

RowChangesBank(m, a, t, clamp) ==
  IF Interleaved(m, t) THEN CeilDiv(RowChangesPu(m, a, t, clamp), a.banks)
                       ELSE RowChangesPu(m, a, t, clamp)

\* A bit-serial element takes a row per bit.
RowsPerChange(m, t) == IF m.bitParallel THEN 1 ELSE ElementBits(m, t)

UsedRowsBank(m, a, t, clamp) == RowChangesBank(m, a, t, clamp) * RowsPerChange(m, t)

-----------------------------------------------------------------------------
(* verify_constraints.                                                     *)

Transformed(m) ==
  \A d \in DimSet : Product([l \in Levels(m) |-> m.bound[l][d]], Levels(m)) = m.loops[d]

\* F and In share a stripe when both are stored and interleaved.
RowsOfBank(m, a, clamp) ==
  LET rows(t) == IF Stored(m, t) THEN UsedRowsBank(m, a, t, clamp) ELSE 0
  IN  (IF m.interleaved /\ StoresBoth(m) THEN Max({rows("F"), rows("In")})
                                         ELSE rows("F") + rows("In"))
      + rows("Out")

LanesFit(m, a) == ProductLevel(m, 0) <= a.lanes
TilesFit(m, a) == \A t \in Tensors : Stored(m, t) => MaxTilesPerRow(m, a, t) > 0
LevelsFit(m, a) ==
  \A l \in Levels(m) :
    l >= 2 => l \in DOMAIN a.organization /\ ProductLevel(m, l) <= a.organization[l]

Schedulable(m, a, clamp) ==
  /\ LanesFit(m, a) /\ TilesFit(m, a)
  /\ RowsOfBank(m, a, clamp) <= a.rows
  /\ LevelsFit(m, a)

Legal(m, a, clamp) == Transformed(m) /\ Schedulable(m, a, clamp)

-----------------------------------------------------------------------------
(* Reductions outside the PUs.                                             *)

\* Partial results that the PUs in use send to the adders, and what is left.
PartialElements(m) == TensorLevel(m, "Out", 1) * TileSize(m, "Out") * UsedPus(m)
ReductionAdds(m) == PartialElements(m) - TensorLevels(m, "Out", 0, Top(m))

\* The loops at or above the channel level run on channels of their own.
Channels(m, a) ==
  IF a.channelLevel > Top(m) THEN 1 ELSE ProductLevels(m, a.channelLevel, Top(m))

\* Vector additions of treeWidth: of the base die, and of each channel.
BaseDiePasses(m, a) == CeilDiv(ReductionAdds(m), a.treeWidth)
ChannelPasses(m, a) == CeilDiv(ReductionAdds(m), Channels(m, a) * a.treeWidth)

\* Tiles that come from another bank, of those a PU works on.
RemoteTiles(m, t) == TilesPuSharing(m, t) - TilesSystemSharing(m, t)
=============================================================================
