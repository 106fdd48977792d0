---------------------------- MODULE MCTraceLife ----------------------------
(* Pointwise and filtered convolutions of four levels: workload files in   *)
(* both forms of the loop bounds and with every kind of layout, some of    *)
(* them refused; architectures with and without a cache, one with a level  *)
(* left out, some refused.                                                 *)
EXTENDS TraceLife

\* Every dimension is listed; the ones that are not named have extent 1.
Sized(f) == [d \in DimSet |-> IF d \in DOMAIN f THEN f[d] ELSE 1]

Entries(f) == [i \in DOMAIN Dims |-> << Dims[i], Sized(f)[Dims[i]] >>]
AtLevels(levels) == [form |-> "levels", at |-> [l \in 0 .. Len(levels) - 1 |-> Entries(levels[l + 1])]]

Convolution ==
  [target |-> "Out", reads |-> << "In", "F" >>,
   index |-> [In  |-> << {"N"}, {"P", "R"}, {"Q", "S"}, {"C"} >>,
              F   |-> << {"K"}, {"R"}, {"S"}, {"C"} >>,
              Out |-> << {"N"}, {"P"}, {"Q"}, {"K"} >>]]

Shared(pu, system) == [block |-> << TRUE >>, pu |-> << pu >>, system |-> system]
AtLevel(l) == << << "level", l >> >>
Flag(value) == << << "flag", value >> >>

Layout ==
  [bit |-> << "bit-parallel" >>, cache |-> << FALSE >>, groups |-> << >>, retired |-> {},
   streaming |-> << [t \in Streams |-> t = "Out"] >>,
   sharing |-> << Shared(FALSE, AtLevel(0)) >>, interleaving |-> << TRUE >>]

\* K = 4 over C = 2, on two PUs of two.
File ==
  [problem |-> Sized([K |-> 4, C |-> 2]), dilation |-> << >>, stride |-> << << 1, 1 >> >>,
   bound |-> AtLevels(<< [C |-> 2], [K |-> 2], [K |-> 2], [K |-> 1] >>),
   attrs |-> [In |-> 8, F |-> 8, Out |-> 16], compute |-> Convolution, layout |-> << Layout >>]

WithLayout(layout) == [File EXCEPT !.layout = << layout >>]
Group(name, tensors, weight) == [name |-> name, tensors |-> tensors, weight |-> weight]
Cached(groups) == WithLayout([Layout EXCEPT !.cache = << TRUE >>, !.groups = groups])

\* The older form of the bounds, for a filter of three columns.
Listed ==
  [File EXCEPT !.problem = Sized([K |-> 2, P |-> 2, S |-> 3]),
               !.bound = [form |-> "loops",
                          list |-> << << "S", 1, 3 >>, << "S", 0, 1 >>, << "K", 0, 2 >>,
                                      << "P", 0, 1 >>, << "P", 1, 2 >> >>]]

Accepted ==
  {File, Listed,
   WithLayout([Layout EXCEPT !.sharing = << Shared(TRUE, Flag(TRUE)) >>]),
   WithLayout([Layout EXCEPT !.sharing = << Shared(FALSE, AtLevel(1)) >>,
                             !.bit = << "bit-serial" >>]),
   Cached(<< >>),
   Cached(<< Group("inputs", << "In" >>, << 2 >>), Group("filters", << "F" >>, << >>) >>),
   WithLayout([Layout EXCEPT !.streaming = << >>, !.bit = << >>]),
   WithLayout([Layout EXCEPT !.sharing = << >>]),
   [File EXCEPT !.layout = << >>],
   [File EXCEPT !.bound = [form |-> "loops", list |-> << >>]]}

Refused ==
  {WithLayout([Layout EXCEPT !.sharing = << Shared(FALSE, Flag(TRUE)) >>]),
   WithLayout([Layout EXCEPT !.streaming = << [t \in Streams |-> TRUE] >>]),
   WithLayout([Layout EXCEPT !.streaming = << << >> >>]),
   WithLayout([Layout EXCEPT !.retired = {"pe-sharing"}]),
   WithLayout([Layout EXCEPT !.groups = << Group("inputs", << "In" >>, << 1 >>) >>]),
   WithLayout([Layout EXCEPT !.cache = << >>]),
   Cached(<< Group("inputs", << "In" >>, << 0 >>) >>),
   Cached(<< Group("all", << "In", "Out" >>, << 1 >>) >>),
   Cached(<< Group("one", << "In" >>, << 1 >>), Group("two", << "F", "In" >>, << 1 >>) >>),
   [File EXCEPT !.bound = AtLevels(<< [C |-> 2], [K |-> 2] >>)],
   [File EXCEPT !.bound.at = [l \in {0, 2} |-> @[l]]],
   [File EXCEPT !.bound.at[0] = @ \o << << "K", 1 >> >>],
   [File EXCEPT !.compute.reads = << >>],
   [File EXCEPT !.stride = << << 1 >> >>]}

MCWorkloadChoices == Accepted \cup Refused

Unit(kind, count) == [kind |-> kind, count |-> count, keys |-> {"kind", "count"}]

Machine ==
  [keys |-> {"name", "specs", "hierarchy", "bandwidth", "unit_costs", "cache"},
   sizes |-> ("row_bytes" :> << 8, "b" >>) @@ ("bank_bytes" :> << 48, "b" >>)
               @@ ("cache_bytes" :> << 1, "kb" >>),
   counts |-> ("banks_per_pu" :> 2) @@ ("pu_frequency" :> 500) @@ ("simd_lanes" :> 2)
                @@ ("n_lines" :> 0),
   hierarchy |-> (2 :> Unit("bank", 2)) @@ (3 :> Unit("channel", 2)),
   bandwidth |-> "host_device" :> 16,
   costs |-> [op \in RequiredOperations |-> [latency |-> 2, energy |-> 1]],
   cache |-> << [mode |-> "regfile", width |-> << 256 >>, keys |-> {"mode"}] >>]

\* Without a cache block; a scratchpad; banks with a level left out between.
Machines ==
  {Machine, [Machine EXCEPT !.cache = << >>],
   [Machine EXCEPT !.cache[1] = [mode |-> "wram", width |-> << >>, keys |-> {"mode"}],
                   !.sizes["bank_bytes"] = << 16, "b" >>],
   [Machine EXCEPT !.hierarchy = (1 :> Unit("pu", 2)) @@ (3 :> Unit("rank", 2))]}

RefusedMachines ==
  {[Machine EXCEPT !.hierarchy[3].count = 0], [Machine EXCEPT !.hierarchy = << >>],
   [Machine EXCEPT !.sizes["bank_bytes"] = << 12, "b" >>],
   [Machine EXCEPT !.sizes["row_bytes"] = << 0, "b" >>],
   [Machine EXCEPT !.keys = @ \cup {"comment"}],
   [Machine EXCEPT !.costs["pu_compute"].energy = -1],
   [Machine EXCEPT !.cache[1].width = << >>],
   [Machine EXCEPT !.counts["simd_lanes"] = 0],
   [Machine EXCEPT !.bandwidth["host_device"] = -1]}

MCArchChoices == Machines \cup RefusedMachines

MCLevelChoices == {<< >>, << 0 .. 1 >>, << {0, 2} >>}
MCOutputChoices == {<< >>, << {0, 1} >>, << {0} >>, << {} >>}
=============================================================================
