------------------------------ MODULE RowTrace ------------------------------
(***************************************************************************)
(* The row-change analysis (analytical_model/row_changes.py): the level-1  *)
(* tiles of a tensor are placed into DRAM rows in the order they are first *)
(* touched, the walk counts how often the open row changes, and a trace of *)
(* the first rows is kept: their tiles, the runs of accesses to one row    *)
(* and the runs to one tile, up to a limit each.                           *)
(*                                                                         *)
(* A step is one access.  The tensors are walked one after the other.      *)
(***************************************************************************)
EXTENDS Mapping

CONSTANTS
  TraceRows,     \* trace_first_rows
  SegmentLimit   \* TRACE_SEGMENT_LIMIT

ASSUME TraceAssumption == TraceRows \in Nat /\ SegmentLimit \in Nat \ {0}

VARIABLES
  tensor,        \* the one that is walked, or "none"
  queue,         \* the tensors after it
  placed,        \* tile_to_index: the tiles, by placement
  access,        \* accesses so far
  changes,       \* row_changes
  openRow,       \* previous_row, -1 for None
  entries,       \* row_entry_counts, by tracked row
  tracked,       \* the tracked tiles, by placement: first touch and count
  rowRuns,       \* row_segments: row, first and last access, count
  rowRunsCut,    \* row_stream_truncated
  tileRuns,      \* tile_segments: tile, first and last access, count
  tileRunsCut,   \* tile_stream_truncated
  report         \* per_tensor: accesses, unique tiles, rows used, row changes

traceVars == << entries, tracked, rowRuns, rowRunsCut, tileRuns, tileRunsCut >>
rowVars == << tensor, queue, placed, access, changes, openRow, traceVars, report >>

FreshTensor ==
  /\ placed' = << >> /\ access' = 0 /\ changes' = 0 /\ openRow' = -1
  /\ entries' = [r \in 0 .. TraceRows - 1 |-> 0]
  /\ tracked' = << >>
  /\ rowRuns' = << >> /\ rowRunsCut' = FALSE
  /\ tileRuns' = << >> /\ tileRunsCut' = FALSE

RowInit ==
  /\ tensor = "none" /\ queue = << >> /\ report = << >>
  /\ placed = << >> /\ access = 0 /\ changes = 0 /\ openRow = -1
  /\ entries = [r \in 0 .. TraceRows - 1 |-> 0]
  /\ tracked = << >>
  /\ rowRuns = << >> /\ rowRunsCut = FALSE
  /\ tileRuns = << >> /\ tileRunsCut = FALSE

Run == [at : Nat, first : Nat, last : Nat, count : Nat]

RowTypeOK ==
  /\ tensor \in Tensors \cup {"none"} /\ ToSet(queue) \subseteq Tensors
  /\ access \in Nat /\ changes \in Nat /\ openRow \in Nat \cup {-1}
  /\ entries \in [0 .. TraceRows - 1 -> Nat]
  /\ \A i \in DOMAIN tracked : tracked[i] \in [first : Nat, count : Nat]
  /\ \A i \in DOMAIN rowRuns : rowRuns[i] \in Run
  /\ \A i \in DOMAIN tileRuns : tileRuns[i] \in Run
  /\ Len(rowRuns) <= SegmentLimit /\ Len(tileRuns) <= SegmentLimit
  /\ rowRunsCut \in BOOLEAN /\ tileRunsCut \in BOOLEAN
  /\ DOMAIN report \subseteq Tensors

-----------------------------------------------------------------------------
\* _select_tensors, without the streaming tensors: no command of the program asks
\* for include_streaming.
Selected(m) ==
  LET ifStored(t) == IF Stored(m, t) THEN << t >> ELSE << >>
  IN  ifStored("In") \o ifStored("F") \o ifStored("Out")

StartAnalysis(m) ==
  /\ tensor = "none"
  /\ tensor' = Head(Selected(m)) /\ queue' = Tail(Selected(m))
  /\ FreshTensor
  /\ UNCHANGED report

\* Variant: a run goes on over accesses in between.
ExtendsAcrossGaps(runs, at, n) == runs # << >> /\ Last(runs).at = at

\* _append_row_segment and _append_tile_segment: the last run goes on, or a
\* new one starts, or the stream ends for good.
Extends(runs, at, n) ==
  runs # << >> /\ Last(runs).at = at /\ Last(runs).last + 1 = n

RunsAfter(runs, cut, at, n) ==
  IF cut THEN runs
  ELSE IF Extends(runs, at, n)
    THEN [runs EXCEPT ![Len(runs)].last = n, ![Len(runs)].count = @ + 1]
  ELSE IF Len(runs) >= SegmentLimit THEN runs
  ELSE Append(runs, [at |-> at, first |-> n, last |-> n, count |-> 1])

CutAfter(runs, cut, at, n) ==
  cut \/ (~Extends(runs, at, n) /\ Len(runs) >= SegmentLimit)

\* _record_trace_access; access is the ordinal, starting from 1.
RecordTrace(row, placement, n) ==
  IF row >= TraceRows THEN UNCHANGED traceVars
  ELSE /\ entries' = IF row = openRow THEN entries ELSE [entries EXCEPT ![row] = @ + 1]
       /\ tracked' = IF placement < Len(tracked)
                     THEN [tracked EXCEPT ![placement + 1].count = @ + 1]
                     ELSE Append(tracked, [first |-> n, count |-> 1])
       /\ rowRuns' = RunsAfter(rowRuns, rowRunsCut, row, n)
       /\ rowRunsCut' = CutAfter(rowRuns, rowRunsCut, row, n)
       /\ tileRuns' = RunsAfter(tileRuns, tileRunsCut, placement, n)
       /\ tileRunsCut' = CutAfter(tileRuns, tileRunsCut, placement, n)

RecordAccess(m, a, clamp) ==
  LET tile == Indices(m, tensor, ValuesAt(m, LevelNest(1), access, 1))
      placement == IF Contains(placed, tile)
                   THEN SelectInSeq(placed, LAMBDA x : x = tile) - 1
                   ELSE Len(placed)
      row == placement \div TilesPerRow(m, a, tensor, clamp)
  IN  /\ tensor # "none" /\ access < Iterations(m, LevelNest(1))
      /\ access' = access + 1
      /\ placed' = IF Contains(placed, tile) THEN placed ELSE Append(placed, tile)
      /\ RecordTrace(row, placement, access + 1)
      /\ changes' = IF row = openRow THEN changes ELSE changes + 1
      /\ openRow' = row
      /\ UNCHANGED << tensor, queue, report >>

\* _summarize_tensor_state, then the next tensor.
FinishTensor(m, a, clamp) ==
  /\ tensor # "none" /\ access = Iterations(m, LevelNest(1))
  /\ report' = [t \in DOMAIN report \cup {tensor} |->
                  IF t = tensor
                  THEN [accesses |-> access,
                        tiles |-> Len(placed),
                        rows |-> RowsFor(Len(placed), TilesPerRow(m, a, tensor, clamp)),
                        changes |-> changes]
                  ELSE report[t]]
  /\ tensor' = IF queue = << >> THEN "none" ELSE Head(queue)
  /\ queue' = IF queue = << >> THEN << >> ELSE Tail(queue)
  /\ FreshTensor
=============================================================================
