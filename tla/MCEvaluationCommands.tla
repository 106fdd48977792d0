------------------------ MODULE MCEvaluationCommands ------------------------
(* Scripts of one to three commands, on a few roots whose directories share *)
(* workloads, with files that do not load, are illegal or raise.            *)
EXTENDS EvaluationCommands

State(id, sharing) == [id |-> id, cached |-> TRUE, sharing |-> sharing, name |-> 1]
Load(path, state) == [path |-> path, trace |-> TRUE, state |-> state]
S1 == State(1, 0)
S2 == State(2, 1)
S3 == State(3, 2)
S4 == State(4, 0)
Illegal == State(5, 0)
Raising == State(6, 0)

\* Stems 1 to 3 are buffers of growing size, or geometries.
File1(stem) == << 1, stem >>
Latency == << << 6, 4, 2 >>, << 4, 3, 3 >>, << 2, 6, 6 >>, << 3, 3, 4 >> >>
Footprint == << 1, 2, 2, 3 >>
Cost(id, stem, twice) ==
  [latency |-> Latency[id][stem] * twice, footprint |-> Footprint[id],
   energy |-> ((3 * id + stem) % 4) + 1]

MCOutcome(state, arch) ==
  IF state.id = 6 THEN [status |-> "error", cost |-> NoCost]
  ELSE IF state.id = 5 \/ (state.id = 4 /\ arch[1][2] = 1)
       THEN [status |-> "invalid", cost |-> NoCost]
  ELSE [status |-> "ok", cost |-> Cost(state.id, arch[1][2], IF state.cached THEN arch[2] ELSE 2 * arch[2])]

Manifest(stem) ==
  << [readable |-> TRUE, nonStreaming |-> FALSE, workload |-> << 1 >>, arch |-> << "pim" >>,
      file |-> File1(stem)] >>

Root(name, stem, spaces) ==
  [name |-> name, place |-> [arch |-> << "pim" >>, geometry |-> << stem >>, workload |-> << 1 >>],
   manifest |-> Manifest(stem), summary |-> << [file |-> File1(stem), traces |-> 2] >>,
   spaces |-> spaces]

All(root) == [root |-> root, step |-> "root"]
Only(root, step) == [root |-> root, step |-> step]

\* A search directory, later extended.
Early == Root(1, 1, [a |-> {Load(11, S1), Load(12, S3)},
                     d |-> {Load(41, S1), Load(42, Raising), Load(43, Unreadable)}])
Later == [Early EXCEPT !.spaces =
            [a |-> @["a"] \cup {Load(13, S2)}, b |-> {Load(21, S3), Load(22, Illegal)},
             c |-> {}, d |-> @["d"] \cup {Load(44, S2)}]]
Lost == [Early EXCEPT !.spaces["d"] = {Load(41, Unreadable), Load(42, Raising), Load(44, S2)}]
NonStreaming == [Root(2, 1, [a |-> {Load(51, S1), [Load(52, S4) EXCEPT !.trace = FALSE]}])
                   EXCEPT !.manifest[1].nonStreaming = TRUE]
Twin == [Root(3, 1, [a |-> {Load(61, S2)}]) EXCEPT !.manifest = << >>]
Hopeless == Root(4, 1, [a |-> {Load(71, Illegal)}])
TornRoot == [Early EXCEPT !.manifest[1].readable = FALSE]
OtherWorkload == [NonStreaming EXCEPT !.manifest[1].workload = << 2 >>]

Pareto(inputs, stem, target) ==
  [kind |-> "pareto", inputs |-> inputs, arch |-> << "pim" >>, file |-> File1(stem),
   mismatch |-> FALSE, target |-> target, baseline |-> << >>]
WithBase(r, state) == [r EXCEPT !.baseline = << Load(90, state) >>]
Merge(inputs, stem, target) == [Pareto(inputs, stem, target) EXCEPT !.kind = "merge"]
First == Pareto(<< All(Early) >>, 1, 1)

Geometry(inputs) ==
  [kind |-> "geometry", inputs |-> inputs, arch |-> << "pim" >>, target |-> 1]
Small == Root(5, 1, [a |-> {Load(11, S1), Load(12, S2)}, d |-> {Load(41, S1)}])
Large == Root(6, 2, [a |-> {Load(51, S1), Load(52, S4)}, b |-> {Load(61, S3)}])

Variants3 == {[id |-> 10 + b, file |-> File1(b), bytes |-> b] : b \in 1 .. 3}
Buffer(inputs) ==
  [kind |-> "buffer", inputs |-> inputs, arch |-> << "pim" >>, target |-> 1, variants |-> Variants3]
Dir(name, files) == Root(name, 1, [c |-> files, d |-> files])
Buffers == Dir(7, {Load(1, S1), Load(2, S2), Load(3, [S3 EXCEPT !.cached = FALSE]), Load(4, S1)})
More == Dir(8, {Load(5, S2), Load(6, Raising)})

\* A baseline, with the name of its file.
AsBaseline(path, state, token) == [token |-> token] @@ Load(path, state)

Random(r, inputs, variants, midpoint, budget) ==
  [kind |-> "random_set", through |-> r, inputs |-> inputs, arch |-> << "pim" >>, target |-> 1,
   variants |-> variants, midpoint |-> midpoint, budget |-> budget, topk |-> 1,
   place |-> << << "pim" >>, << 1 >> >>,
   baselines |-> {AsBaseline(91, S4, 3), AsBaseline(92, [S2 EXCEPT !.name = 2], 4)}]
Two == {v \in Variants3 : v.bytes > 1}
Traces == Dir(7, {Load(1, S1), Load(2, S2), Load(3, S3), Load(4, S4)})

\* A root that is called 2, without a manifest, and whose workload is called 1.
Unnamed == [Dir(14, {Load(1, S1), Load(2, S2), Load(3, S3)}) EXCEPT !.manifest = << >>, !.place.workload = << 2 >>]
ByFile(r) == [r EXCEPT !.baselines = {AsBaseline(91, [S4 EXCEPT !.name = 3], 2)}]
AnyName(r) == [r EXCEPT !.baselines = @ \cup {AsBaseline(93, S1, 5)}]

Configs == [c \in 1 .. 3 |-> [id |-> c, file |-> File1(c)]]
Activation(first, reuse, third, hasThird, cap, inclusive) ==
  [kind |-> "activation", inputs |-> << All(Dir(9, {Load(31, S2), Load(32, S3), Load(33, S4),
                                                     [Load(34, S1) EXCEPT !.trace = FALSE]})) >>,
   first |-> first, reuse |-> reuse, third |-> third, hasThird |-> hasThird, cap |-> cap,
   inclusive |-> inclusive, arch |-> << "pim" >>, target |-> 1, traces |-> << >>,
   configs |-> Configs]
OnlyC == Root(10, 1, [c |-> {Load(35, S1), Load(36, S3)}])
Reused == << Root(11, 1, [d |-> {}]), OnlyC >>
Third == << All(Dir(12, {Load(37, S2), Load(38, S4)})) >>

MCBaseline == << 1 >>

MCScripts ==
  {<< First, Merge(<< All(Later) >>, 1, 1), Merge(<< All(Later) >>, 1, 1) >>,
   << WithBase(First, S4), Merge(<< All(Later) >>, 1, 2) >>,
   << First, WithBase(Merge(<< All(Later) >>, 1, 1), S1), Merge(<< Only(Early, "d") >>, 1, 1) >>,
   << First, Merge(<< All(Lost) >>, 1, 1), Merge(<< All(Lost) >>, 2, 1) >>,
   << Pareto(<< All(Early), All(NonStreaming), Only(Early, "a") >>, 1, 1) >>,
   << Pareto(<< Only(Early, "a"), Only(Later, "b") >>, 1, 1) >>,
   << [Pareto(<< All(Early) >>, 2, 1) EXCEPT !.mismatch = TRUE], Merge(<< All(Early) >>, 2, 1) >>,
   << Geometry(<< All(Small), All(Large) >>) >>,
   << Geometry(<< Only(Small, "a"), Only(Small, "d"), All(Large) >>) >>,
   << Buffer(<< All(Buffers), Only(More, "d"), All(Buffers) >>) >>,
   << Random("root", << All(Traces) >>, Variants3, << >>, 3) >>,
   << Random("root", << Only(Traces, "d") >>, Variants3, << 3 >>, 4) >>,
   << Pareto(<< Only(Traces, "d") >>, 1, 1), Random("place", << >>, Two, << 2 >>, 2) >>,
   << Pareto(<< Only(Traces, "d") >>, 1, 1), Pareto(<< Only(Unnamed, "d") >>, 1, 1),
      Random("arch", << >>, Two, << 2 >>, 2) >>,
   << Pareto(<< Only(Unnamed, "d") >>, 1, 1), ByFile(Random("arch", << >>, Two, << 2 >>, 2)) >>,
   << Activation(Reused, TRUE, Third, TRUE, << 1 >>, TRUE) >>,
   << Activation(<< Traces >>, FALSE, << >>, TRUE, << 1 >>, FALSE) >>,
   << Activation(<< Traces >>, FALSE, << >>, FALSE, << >>, FALSE) >>}
  \cup {<< r >> : r \in
     {Pareto(<< All(Early), All(Twin) >>, 1, 1), Pareto(<< All(Hopeless) >>, 1, 1),
      Pareto(<< All(TornRoot) >>, 1, 1), Pareto(<< All(Early), All(OtherWorkload) >>, 1, 1),
      Pareto(<< All(Early) >>, 2, 1), Pareto(<< Only(Early, "c") >>, 1, 1),
      WithBase(First, Raising), Merge(<< All(Early) >>, 1, 1),
      Geometry(<< All(Small), All(Root(13, 1, [a |-> {Load(14, S1)}])) >>),
      Geometry(<< All(Twin) >>), Geometry(<< All(Hopeless) >>),
      Buffer(<< All(Early), All(Hopeless) >>), Buffer(<< All(Dir(8, {Load(6, Raising)})) >>),
      Buffer(<< All(Buffers), All([More EXCEPT !.place.workload = << 2 >>]) >>),
      Random("root", << All(Traces) >>, Two, << >>, 2), Random("place", << >>, Two, << 2 >>, 2), Random("arch", << >>, Two, << 2 >>, 2),
      AnyName(Random("root", << All(Traces) >>, Variants3, << >>, 3)),
      Random("root", << All(Traces) >>, Variants3, << >>, 5),
      Random("root", << All(Early) >>, Variants3, << >>, 3),
      Activation(Reused, TRUE, << >>, TRUE, << >>, TRUE),
      Activation(<< Root(11, 1, [d |-> {}]) >>, TRUE, << >>, FALSE, << >>, FALSE)}}
=============================================================================
