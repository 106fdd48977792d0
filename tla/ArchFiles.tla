----------------------------- MODULE ArchFiles -----------------------------
(***************************************************************************)
(* Architecture descriptions (database/arch.py): which mappings are        *)
(* accepted and the architecture that is read from one.  A file has        *)
(*   keys        its top-level keys                                        *)
(*   sizes       << magnitude, unit >> by name                             *)
(*   counts      whole numbers by name, the frequency among them           *)
(*   hierarchy   [kind, count, keys] by level                              *)
(*   bandwidth   of the host link, by name                                 *)
(*   costs       [latency, energy] by operation                            *)
(*   cache       absent, or [mode, width, keys]                            *)
(***************************************************************************)
EXTENDS Integers, Sequences, FiniteSets, Functions, FiniteSetsExt, TLC

Kinds == {"pu", "bank", "bg", "chip", "pch", "rank", "channel", "stack"}

TopLevelKeys ==
  {"name", "cache", "specs", "hierarchy", "bandwidth", "unit_costs", "total_area_mm2",
   "pim_overhead"}

SizeKeys == {"row_bytes", "bank_bytes", "cache_bytes"}
CountKeys == {"banks_per_pu", "pu_frequency", "simd_lanes"}
OptionalCounts == {"n_lines", "add_tree_width", "col_bits"}

RequiredOperations ==
  {"bank_to_pu_load", "pu_to_bank_store", "host_pu_transfer", "bank_to_bank_transfer",
   "host_bank_row_conflict", "pu_compute", "row_change"}
OptionalOperations == {"base_die", "channel_level"}

\* Sizes are read in units of 1024; the pattern knows tb, the table does not.
ByteUnits ==
  ("b" :> 1) @@ ("kb" :> 1024) @@ ("mb" :> 1024 * 1024) @@ ("gb" :> 1024 * 1024 * 1024)
Bytes(size) == size[1] * ByteUnits[size[2]]

SpecsAccepted(file) ==
  /\ DOMAIN file.sizes = SizeKeys
  /\ \A key \in SizeKeys : file.sizes[key][1] >= 0 /\ file.sizes[key][2] \in DOMAIN ByteUnits
  /\ CountKeys \subseteq DOMAIN file.counts
  /\ DOMAIN file.counts \subseteq CountKeys \cup OptionalCounts
  /\ \A key \in DOMAIN file.counts :
       file.counts[key] > 0 \/ (key = "n_lines" /\ file.counts[key] = 0)

HierarchyAccepted(file) ==
  /\ DOMAIN file.hierarchy # {}
  /\ \A l \in DOMAIN file.hierarchy :
       /\ file.hierarchy[l].kind \in Kinds
       /\ file.hierarchy[l].count > 0
       /\ file.hierarchy[l].keys \subseteq {"kind", "count"}

BandwidthAccepted(file) ==
  DOMAIN file.bandwidth = {"host_device"} /\ file.bandwidth["host_device"] >= 0

CostsAccepted(file) ==
  /\ RequiredOperations \subseteq DOMAIN file.costs
  /\ DOMAIN file.costs \subseteq RequiredOperations \cup OptionalOperations
  /\ \A op \in DOMAIN file.costs : file.costs[op].latency >= 0 /\ file.costs[op].energy >= 0

\* A register file is as wide as its vectors; a scratchpad may say nothing.
CacheSpecAccepted(file) ==
  file.cache # << >> =>
    LET cache == file.cache[1]
    IN  /\ cache.mode \in {"wram", "regfile"}
        /\ cache.mode = "regfile" => cache.width # << >>
        /\ cache.width # << >> => cache.width[1] > 0 /\ cache.width[1] % 8 = 0
        /\ cache.keys \subseteq {"mode", "vector_width_bits"}

\* _validate_arch, of the parsed parts.
GeometryAccepted(file) ==
  /\ Bytes(file.sizes["row_bytes"]) > 0
  /\ Bytes(file.sizes["bank_bytes"]) % Bytes(file.sizes["row_bytes"]) = 0
  /\ file.cache # << >> => Bytes(file.sizes["cache_bytes"]) > 0

ArchAccepted(file) ==
  /\ file.keys \subseteq TopLevelKeys
  /\ SpecsAccepted(file) /\ HierarchyAccepted(file) /\ BandwidthAccepted(file)
  /\ CostsAccepted(file) /\ CacheSpecAccepted(file)
  /\ GeometryAccepted(file)

\* num_rows: a bank is a whole number of rows.
NumRows(file) == Bytes(file.sizes["bank_bytes"]) \div Bytes(file.sizes["row_bytes"])

\* The architecture that Mapping knows, with its levels' kinds and its cache.
ArchRead(file) ==
  [rowBits |-> 8 * Bytes(file.sizes["row_bytes"]),
   rows |-> NumRows(file),
   banks |-> file.counts["banks_per_pu"],
   lanes |-> file.counts["simd_lanes"],
   organization |-> [l \in DOMAIN file.hierarchy |-> file.hierarchy[l].count],
   kinds |-> [l \in DOMAIN file.hierarchy |-> file.hierarchy[l].kind],
   cache |-> file.cache]

\* from_dict: << >> where an ArchParseError is raised.
ArchFromDict(file) == IF ArchAccepted(file) THEN << ArchRead(file) >> ELSE << >>

DefinedLevels(arch) == DOMAIN arch.organization

\* levels: one more than the highest, whether or not all are defined.
NumLevels(arch) == Max(DefinedLevels(arch)) + 1
=============================================================================
