---------------------------- MODULE ReportInputs ----------------------------
(***************************************************************************)
(* What the evaluation commands find in the directories they are given,    *)
(* and when they refuse them, before anything is evaluated or written.     *)
(*                                                                         *)
(* A root is the output directory of a staged search: a record of          *)
(*   name      its path                                                    *)
(*   place     the arch, geometry and workload its path names: records of  *)
(*             three sequences, << >> where the path names none            *)
(*   manifest  << >>, or its one manifest: readable, nonStreaming and the  *)
(*             fields below, << >> where a field is missing                *)
(*   summary   << >> or << [file, traces] >>                               *)
(*   spaces    the files of each directory under spaces/                   *)
(* A file has a path, a name of trace form or not, and a state: the        *)
(* workload that it loads as, or Unreadable.  An input is a root, or one   *)
(* of the directories under its spaces/ (step).                            *)
(***************************************************************************)
EXTENDS Integers, FiniteSets, Sequences, SequencesExt

Bases == << "a", "b", "c", "d" >>           \* SPACE_ORDER
Modes == << "current", "ns" >>              \* MODE_ORDER
Fields == {"workload", "arch", "file"}      \* _MANIFEST_COMPARE_FIELDS

Unreadable == [id |-> 0, cached |-> FALSE, sharing |-> 0, name |-> 0]

Torn(root) == root.manifest # << >> /\ ~root.manifest[1].readable

\* _collect_step_workload_paths: traces, or any YAML if there are none.
StepFiles(files) ==
  LET traces == {f \in files : f.trace}
  IN  SetToSortSeq(IF traces = {} THEN files ELSE traces, LAMBDA f, g : f.path < g.path)

Mode(root) ==
  IF root.manifest # << >> /\ root.manifest[1].nonStreaming THEN "ns" ELSE "current"

Step(root, base) ==
  [id |-> << Mode(root), base >>, dir |-> << root.name, base >>,
   files |-> StepFiles(root.spaces[base]), manifest |-> root.manifest]

\* _expand_workload_dir_input: the directories a to d that have files.
Expanded(input) ==
  {Step(input.root, b) :
     b \in {b \in ToSet(Bases) \cap DOMAIN input.root.spaces :
              input.step \in {"root", b} /\ input.root.spaces[b] # {}}}

ExpandFails(input) == Torn(input.root) \/ Expanded(input) = {}

DuplicateStep(steps) == \E s, t \in steps : s.id = t.id /\ s.dir # t.dir

Rank(step) == 4 * SelectInSeq(Modes, LAMBDA m : m = step.id[1])
                + SelectInSeq(Bases, LAMBDA b : b = step.id[2])

Sorted(steps) == SetToSortSeq(steps, LAMBDA s, t : Rank(s) < Rank(t))

AllSteps(inputs) == UNION {Expanded(inputs[i]) : i \in DOMAIN inputs}

\* _discover_step_inputs.
StepInputs(inputs) == Sorted(AllSteps(inputs))

Recorded(sources, field) ==
  {s.manifest[1][field] : s \in {s \in sources : s.manifest # << >>}} \ {<< >>}

Conflict(sources, fields) == \E f \in fields : Cardinality(Recorded(sources, f)) > 1

OtherArch(sources, arch) == ~(Recorded(sources, "arch") \subseteq {arch})

\* _validate_manifest_consistency of the Pareto evaluation.
ManifestsConflict(steps, request) ==
  \/ Conflict(steps, Fields)
  \/ OtherArch(steps, request.arch)
  \/ ~request.mismatch /\ ~(Recorded(steps, "file") \subseteq {request.file})

ParetoRefused(request) ==
  \/ \E i \in DOMAIN request.inputs : ExpandFails(request.inputs[i])
  \/ DuplicateStep(AllSteps(request.inputs))
  \/ ManifestsConflict(AllSteps(request.inputs), request)

-----------------------------------------------------------------------------
(* The geometry sweep: an input belongs to the geometry whose file its     *)
(* manifest names.  A file is a pair of its directory and its stem.        *)

FileOf(input) == CHOOSE f \in Recorded(Expanded(input), "file") : TRUE
GeometryOf(input) == FileOf(input)[2]

\* _collect_geometry_manifest_metadata.
GeometryUnknown(input, arch) ==
  \/ Conflict(Expanded(input), Fields)
  \/ OtherArch(Expanded(input), arch)
  \/ Recorded(Expanded(input), "file") = {}

InputsOf(request, geometry) ==
  SelectSeq(request.inputs, LAMBDA i : GeometryOf(i) = geometry)

Geometries(request) == {GeometryOf(request.inputs[i]) : i \in DOMAIN request.inputs}

\* _discover_geometry_inputs.
GeometryRefused(request) ==
  LET inputs == ToSet(request.inputs)
  IN  \/ \E i \in inputs : ExpandFails(i) \/ GeometryUnknown(i, request.arch)
      \/ Conflict(AllSteps(request.inputs), Fields \ {"file"})
      \/ \E i, j \in inputs : GeometryOf(i) = GeometryOf(j) /\ FileOf(i) # FileOf(j)
      \/ \E g \in Geometries(request) : DuplicateStep(AllSteps(InputsOf(request, g)))

-----------------------------------------------------------------------------
(* The latency sweeps take one directory of every root: d for the buffer   *)
(* sweeps, c for the activation sweep.                                     *)

\* _resolve_mapping_dir.
SourceFails(input, base) ==
  Torn(input.root) \/ ~(base \in {s.id[2] : s \in Expanded(input)})

Source(input, base) == CHOOSE s \in Expanded(input) : s.id[2] = base

\* _discover_mapping_sources: every directory once, in the order of paths.
Sources(inputs, base) ==
  SetToSortSeq({Source(inputs[i], base) : i \in DOMAIN inputs},
               LAMBDA s, t : s.dir[1] < t.dir[1])

Named(inputs, token) == {inputs[i].root.place[token] : i \in DOMAIN inputs} \ {<< >>}

\* _validate_input_pair_consistency of the buffer sweep.
PlacesConflict(inputs, arch) ==
  \/ ~(Named(inputs, "arch") \subseteq {arch})
  \/ Cardinality(Named(inputs, "workload")) > 1

\* Of the activation sweep: the directories of step c.
ActivationSourceFails(input) == SourceFails(input, "c")

ActivationSources(inputs) == Sources(inputs, "c")

\* _validate_input_pair_consistency of the activation sweep, which has a level
\* for the geometry.
ActivationPlacesConflict(inputs, arch, baseline) ==
  PlacesConflict(inputs, arch) \/ ~(Named(inputs, "geometry") \subseteq {baseline})

SourcesRefused(inputs, base, arch) ==
  \/ \E i \in DOMAIN inputs : SourceFails(inputs[i], base)
  \/ LET sources == ToSet(Sources(inputs, base))
     IN  Conflict(sources, Fields) \/ OtherArch(sources, arch)

\* Loaded workloads of several names.
Loaded(sources) ==
  {f.state : f \in UNION {ToSet(sources[i].files) : i \in DOMAIN sources}} \ {Unreadable}

NamesConflict(sources) == Cardinality({s.name : s \in Loaded(sources)}) > 1

BufferRefused(request) ==
  \/ PlacesConflict(request.inputs, request.arch)
  \/ SourcesRefused(request.inputs, "d", request.arch)
  \/ NamesConflict(Sources(request.inputs, "d"))

-----------------------------------------------------------------------------
(* The activation sweep.                                                   *)

SummariesOf(inputs) ==
  {inputs[i].root.summary[1] : i \in {i \in DOMAIN inputs : inputs[i].root.summary # << >>}}

\* _resolve_source_num_traces: one number, that is positive.
TracesUnclear(request) ==
  LET found == {s.traces : s \in SummariesOf(request.inputs)} \ {-1}
  IN  IF request.traces # << >> THEN request.traces[1] <= 0
      ELSE Cardinality(found) > 1 \/ \E n \in found : n <= 0

\* _resolve_baseline_geometry: one file, of the baseline.
BaselineUnclear(request, baseline) ==
  LET files == Recorded(ToSet(ActivationSources(request.inputs)), "file")
                 \cup ({s.file : s \in SummariesOf(request.inputs)} \ {<< >>})
  IN  Cardinality(files) # 1 \/ \E f \in files : << f[2] >> # baseline

\* _reuse_config1_mapping_sources: the first candidate that has mappings in d,
\* or failing that in c.
ReusableSteps(root) ==
  << >> \o SelectSeq(<< "d", "c" >>,
                     LAMBDA b : b \in DOMAIN root.spaces /\ root.spaces[b] # {})

Reusable(candidates) == SelectSeq(candidates, LAMBDA r : ReusableSteps(r) # << >>)

ReusedSource(candidates) ==
  LET root == Head(Reusable(candidates)) IN Step(root, Head(ReusableSteps(root)))

\* _run_config1_search stores what it finds under spaces/d.
SearchedSource(candidates) == Step(candidates[1], "d")

FirstSource(request) ==
  IF request.reuse THEN ReusedSource(request.first) ELSE SearchedSource(request.first)

FirstRefused(request) ==
  \/ Reusable(request.first) = << >>
  \/ Torn(Head(Reusable(request.first)))

ThirdSources(request) ==
  IF request.third = << >> THEN << >> ELSE ActivationSources(request.third)

\* What an inclusive command requires is among the options.
OptionsConflict(request) ==
  \/ request.third # << >> /\ ~request.hasThird
  \/ request.inclusive /\ (~request.hasThird \/ request.third = << >> \/ ~request.reuse)

ActivationRefused(request, baseline) ==
  \/ ActivationPlacesConflict(request.inputs, request.arch, baseline)
  \/ SourcesRefused(request.inputs, "c", request.arch)
  \/ TracesUnclear(request) \/ BaselineUnclear(request, baseline)
  \/ OptionsConflict(request)
=============================================================================
