------------------------- MODULE MCModelEvaluation -------------------------
(* Convolutions of three or four levels in all the ways of splitting a few *)
(* loops, on register files and scratchpads of a few entries, and          *)
(* variations of one of them: each flag, a bound that is off, a shared     *)
(* system level, a layout that asks for too much.                          *)
EXTENDS ModelEvaluation

With(f) == [d \in DimSet |-> IF d \in DOMAIN f THEN f[d] ELSE 1]

Convolution ==
  [In  |-> << {"N"}, {"P", "R"}, {"Q", "S"}, {"C"} >>,
   F   |-> << {"K"}, {"R"}, {"S"}, {"C"} >>,
   Out |-> << {"N"}, {"P"}, {"Q"}, {"K"} >>]

\* In[n,p,c] * F[n,c,k], a product of matrices for each n.
Batched ==
  [In  |-> << {"N"}, {"P"}, {"C"} >>,
   F   |-> << {"N"}, {"C"}, {"K"} >>,
   Out |-> << {"N"}, {"P"}, {"K"} >>]

Group(tensors, weight) == [tensors |-> tensors, weight |-> weight]
Together == << Group(<< "F", "In" >>, 1) >>
Apart == << Group(<< "In" >>, 1), Group(<< "F" >>, 2) >>

\* A mapping with the given bounds, from level 0 up.
Mapped(levels) ==
  [loops |-> [d \in DimSet |-> Product([l \in DOMAIN levels |-> levels[l][d]], DOMAIN levels)],
   bound |-> [l \in 0 .. Len(levels) - 1 |-> levels[l + 1]],
   listed |-> [l \in 0 .. 1 |-> DimSet],
   index |-> Convolution,
   bits |-> [In |-> 8, F |-> 8, Out |-> 16],
   streams |-> {}, block |-> TRUE, pu |-> TRUE, system |-> 0,
   bitParallel |-> TRUE, interleaved |-> TRUE,
   cached |-> TRUE, groups |-> Together, features |-> {}]

Costs(base) ==
  [hostPu |-> base, load |-> 1, store |-> 2, compute |-> 1, row |-> 3 * base,
   bankToBank |-> base, hostRow |-> 4, tree |-> 1]

Machine(mode, cacheBytes, rowBits, rows, banks) ==
  [mode |-> mode, cacheBytes |-> cacheBytes, vectorBytes |-> 2,
   rowBits |-> rowBits, rows |-> rows, banks |-> banks, lanes |-> 4,
   organization |-> [l \in {2, 3} |-> 2], channelLevel |-> 3, treeWidth |-> 2,
   colBits |-> 8, cost |-> [latency |-> Costs(2), energy |-> Costs(3)],
   offers |-> {"base_die", "channel_level", "add_tree_width"}]

Registers == Machine("regfile", 7, 64, 3, 1)
Scratchpad == Machine("wram", 7, 96, 3, 2)
Roomy == {Machine("regfile", 16, 96, 9, 2), Machine("wram", 6, 64, 9, 2)}
Narrow(rows) == Machine("wram", 7, 32, rows, 2)

Lane == {With([C |-> 2]), With([K |-> 2])}
Steps == {With([K |-> k, P |-> p, C |-> c, R |-> r]) : k, p, c \in 1 .. 3, r \in 1 .. 2}
Few == {b \in Steps : ProductLevel([bound |-> << b >>], 1) \in {6, 8}}
Many == {b \in Steps : ProductLevel([bound |-> << b >>], 1) \in {8, 9, 12}}
Spatial == With([K |-> 2])

Base == Mapped(<< With([C |-> 2]), With([K |-> 2, P |-> 2, R |-> 2]), Spatial >>)
Deep(top) == Mapped(<< With([C |-> 2]), With([K |-> 2, P |-> 2]), Spatial, With(top) >>)

Variations ==
  {[Base EXCEPT !.listed = [@ EXCEPT ![0] = {"C"}]],
   [Base EXCEPT !.listed = [@ EXCEPT ![0] = {"C"}, ![1] = {"K", "P", "R"}]],
   [Base EXCEPT !.block = FALSE], [Base EXCEPT !.pu = FALSE],
   [Base EXCEPT !.bitParallel = FALSE], [Base EXCEPT !.bitParallel = FALSE, !.bits = [@ EXCEPT !["F"] = 12]],
   [Base EXCEPT !.bits = [@ EXCEPT !["F"] = 12]], [Base EXCEPT !.interleaved = FALSE],
   [Base EXCEPT !.streams = {"In"}], [Base EXCEPT !.streams = {"F", "In"}],
   [Base EXCEPT !.cached = FALSE],
   [Base EXCEPT !.loops = [@ EXCEPT !["K"] = 3]],
   [Base EXCEPT !.system = 2], [Base EXCEPT !.system = 2, !.pu = FALSE],
   [Base EXCEPT !.groups = << Group(<< "In" >>, 1), Group(<< "F" >>, 9) >>],
   Mapped(<< With([C |-> 2]), With([K |-> 2, Q |-> 2, S |-> 2]), Spatial >>),
   Mapped(<< With([C |-> 2]), With([P |-> 2, Q |-> 2, R |-> 2, S |-> 2]), Spatial >>),
   Mapped(<< With([C |-> 2]), With([P |-> 2, R |-> 3]), Spatial >>),
   Mapped(<< With([C |-> 2]), With([P |-> 2, R |-> 2]), With([P |-> 2]) >>),
   [Mapped(<< With([C |-> 2]), With([N |-> 2, K |-> 2, P |-> 2]), Spatial >>) EXCEPT !.index = Batched]}
  \cup {[Deep(top) EXCEPT !.system = l] :
          top \in {[P |-> 2], [C |-> 2], [K |-> 2], [C |-> 3]}, l \in {0, 2, 3}}
  \cup {[Deep([C |-> 2]) EXCEPT !.features = x] :
          x \in SUBSET {"activation", "base_die", "channel_level"}}

Asked(c, m, a, rowClamp, t) ==
  [call |-> c, mapping |-> m, arch |-> a, clamp |-> rowClamp, target |-> t]

MCJobs ==
  {Asked("verify", [Mapped(<< l, s, Spatial >>) EXCEPT !.groups = g], a, FALSE, "default") :
     l \in Lane, s \in Few, g \in {Together, Apart}, a \in {Registers, Scratchpad} \cup Roomy}
  \cup {Asked("verify", m, a, TRUE, "upmem") :
          m \in Variations, a \in {Registers, Machine("regfile", 16, 96, 9, 2), [Scratchpad EXCEPT !.rows = 40]}}
  \cup {Asked("verify", [Deep([C |-> 2]) EXCEPT !.features = x],
                [Scratchpad EXCEPT !.rows = 40, !.offers = o], TRUE, "default") :
          x \in SUBSET {"activation", "base_die", "channel_level"},
          o \in SUBSET {"base_die", "channel_level", "add_tree_width"}}
  \cup {Asked("analyse", [Mapped(<< l, s, Spatial >>) EXCEPT !.interleaved = i],
                Narrow(r), c, "default") :
          l \in Lane, s \in Many, i \in BOOLEAN, r \in {6, 8}, c \in BOOLEAN}
  \cup {Asked("analyse", m, a, c, "default") :
          m \in Variations, a \in {Registers, Narrow(4), [Narrow(8) EXCEPT !.rowBits = 16]}, c \in BOOLEAN}
=============================================================================
