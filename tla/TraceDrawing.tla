---------------------------- MODULE TraceDrawing ----------------------------
(***************************************************************************)
(* How a search turns a workload description into candidate traces         *)
(* (dse/workload_search_spaces.py and the sampling half of                 *)
(* dse/random_search.py): the workload is edited for a search space,       *)
(* factors are drawn for its loops level by level, and a copy of it takes  *)
(* the factors and the sharing that were drawn.                            *)
(***************************************************************************)
EXTENDS WorkloadFiles, ArchFiles

-----------------------------------------------------------------------------
(* Search spaces.                                                          *)

\* What a space forces and what it leaves to the draw.  A plain search, of
\* run_random_search.py, forces nothing.
Spaces ==
  LET staged == [block |-> TRUE, cache |-> << >>, pu |-> << >>, system |-> "file",
                 searchPu |-> FALSE, searchSystem |-> FALSE, searchCache |-> FALSE]
      direct == [staged EXCEPT !.cache = << FALSE >>, !.searchPu = TRUE, !.searchSystem = TRUE]
  IN  [a |-> staged,
       b |-> [staged EXCEPT !.pu = << TRUE >>],
       c |-> [staged EXCEPT !.pu = << TRUE >>, !.system = "max"],
       d |-> [staged EXCEPT !.cache = << TRUE >>],
       direct_c |-> direct,
       direct_l4 |-> [staged EXCEPT !.cache = << FALSE >>, !.pu = << TRUE >>,
                                    !.system = "channel"],
       direct_d |-> [direct EXCEPT !.cache = << TRUE >>],
       plain |-> [staged EXCEPT !.block = FALSE],
       plain_searched |-> [staged EXCEPT !.block = FALSE, !.searchPu = TRUE,
                                         !.searchSystem = TRUE, !.searchCache = TRUE]]

MaxSystemLevel(w, arch) == Min({Max(DOMAIN w.bounds), Max(DefinedLevels(arch))})

ChannelLevels(arch) == {l \in DefinedLevels(arch) : arch.kinds[l] = "channel"}

\* A file may lack what the edits need.
PrepareAccepted(w, arch, space) ==
  /\ Given(w.layout) /\ Given(w.layout[1].sharing)
  /\ DOMAIN w.bounds # {}
  /\ space.system = "channel" => ChannelLevels(arch) # {}

\* Variant: the groups of a cache that is switched off stay.
WithCacheKept(layout, enabled) == [layout EXCEPT !.cache = << enabled >>]

\* A cache that is switched off takes its groups with it.
WithCache(layout, enabled) ==
  [layout EXCEPT !.cache = << enabled >>, !.groups = IF enabled THEN @ ELSE << >>]

ForcedSystem(w, arch, space) ==
  CASE space.system = "file" -> w.layout[1].sharing[1].system
    [] space.system = "max" -> MaxSystemLevel(w, arch)
    [] space.system = "channel" -> Min(ChannelLevels(arch)) - 1

\* prepare_workload_for_space, on a copy of the workload; a search may store
\* every tensor instead of streaming some.
Prepared(w, arch, space, storeAll) ==
  LET layout == w.layout[1]
      shared == [block |-> space.block \/ layout.sharing[1].block,
                 pu |-> OrElse(space.pu, layout.sharing[1].pu),
                 system |-> ForcedSystem(w, arch, space)]
      edited == [layout EXCEPT !.sharing = << shared >>, !.streams = IF storeAll THEN {} ELSE @]
  IN  [w EXCEPT !.layout =
         << IF Given(space.cache) THEN WithCache(edited, space.cache[1]) ELSE edited >>]

-----------------------------------------------------------------------------
(* What is drawn over.                                                     *)

\* _resolve_levels: the command's levels or those of the architecture.
ResolvedLevels(arch, asked) == OrElse(asked, 0 .. NumLevels(arch) - 1)

LevelsRefused(levels) == levels # 0 .. Max(levels) \/ Cardinality(levels) < 2

\* The dimensions the output is indexed by may only be split at some levels;
\* the constraint's other flag changes nothing.
Restricted(w, constraint, d) == Given(constraint) /\ d \in Related(w.compute, w.compute.target)

AllowedAt(w, constraint, d, l) == Restricted(w, constraint, d) => l \in constraint[1]

ConstraintRefused(w, levels, constraint) ==
  Given(constraint) => \/ constraint[1] = {} \/ ~(constraint[1] \subseteq levels)
                       \/ 0 \notin DOMAIN w.bounds

\* _level_cap: lanes at level 0, units from level 2; level 1 is free, and so
\* is a level the architecture leaves out.
Capped(arch, levels) == levels \cap ({0} \cup {l \in DefinedLevels(arch) : l >= 2})
Cap(arch, l) == IF l = 0 THEN arch.lanes ELSE arch.organization[l]

\* The tightest levels are drawn first.
CappedInOrder(arch, levels) ==
  SetToSortSeq(Capped(arch, levels),
    LAMBDA k, l : Cap(arch, k) < Cap(arch, l) \/ (Cap(arch, k) = Cap(arch, l) /\ k < l))

Divisors(n) == {d \in 1 .. n : n % d = 0}

-----------------------------------------------------------------------------
(* Drawing the factors of one level: dimension after dimension takes a     *)
(* divisor of what is left of its extent, within what is left of the cap.  *)

\* How many ways the dimensions from i on can share a cap.
RECURSIVE CountLevel(_, _, _, _)
CountLevel(left, dims, i, cap) ==
  IF i > Len(dims) THEN 1
  ELSE MapThenSumSet(LAMBDA d : CountLevel(left, dims, i + 1, cap \div d),
                     {d \in Divisors(left[dims[i]]) : d <= cap})

\* Variant: every dimension may take the whole cap.
LevelStepUncapped(left, d, partial) ==
  {[factor |-> [partial.factor EXCEPT ![d] = f], cap |-> partial.cap] :
     f \in {f \in Divisors(left[d]) : f <= partial.cap}}

LevelStep(left, d, partial) ==
  {[factor |-> [partial.factor EXCEPT ![d] = f], cap |-> partial.cap \div f] :
     f \in {f \in Divisors(left[d]) : f <= partial.cap}}

LevelDraws(left, dims, cap) ==
  LET none == [factor |-> [d \in DOMAIN left |-> 1], cap |-> cap]
      drawn == FoldLeft(LAMBDA partials, d : UNION {LevelStep(left, d, p) : p \in partials},
                        {none}, dims)
  IN  {p.factor : p \in drawn}

-----------------------------------------------------------------------------
(* Drawing what is left of one extent over n free levels.                  *)

\* Variant: the last level counts for nothing.
RECURSIVE CountTailsShort(_, _)
CountTailsShort(extent, n) ==
  IF n <= 1 THEN extent ELSE
  MapThenSumSet(LAMBDA d : CountTailsShort(extent \div d, n - 1), Divisors(extent))

\* _count_factorizations.
RECURSIVE CountFactorizations(_, _)
CountFactorizations(extent, n) ==
  IF n = 1 THEN 1
  ELSE MapThenSumSet(LAMBDA d : CountFactorizations(extent \div d, n - 1), Divisors(extent))

TailStep(partials) ==
  UNION {{[factors |-> Append(p.factors, d), left |-> p.left \div d] : d \in Divisors(p.left)} :
           p \in partials}

\* _sample_factorization: the last level takes the rest.
TailDraws(extent, n) ==
  LET drawn == FoldLeft(LAMBDA partials, i : TailStep(partials),
                        {[factors |-> << >>, left |-> extent]}, [i \in 1 .. n - 1 |-> i])
  IN  {Append(p.factors, p.left) : p \in drawn}

-----------------------------------------------------------------------------
(* _sample_factors_for_dimensions: every schedule the sampler can return.  *)

DimsOf(w) == SelectSeq(Dims, LAMBDA d : d \in DOMAIN w.problem)

FreeLevels(w, arch, levels, constraint, d) ==
  {l \in levels \ Capped(arch, levels) : AllowedAt(w, constraint, d, l)}

\* The capped levels, one after the other.
CappedStep(w, arch, constraint, partials, l) ==
  UNION {{[factor |-> [p.factor EXCEPT ![l] = f],
           left |-> [d \in DOMAIN p.left |-> p.left[d] \div f[d]]] :
            f \in LevelDraws(p.left, SelectSeq(DimsOf(w), LAMBDA d : AllowedAt(w, constraint, d, l)),
                             Cap(arch, l))} : p \in partials}

CappedDraws(w, arch, levels, constraint) ==
  FoldLeft(LAMBDA partials, l : CappedStep(w, arch, constraint, partials, l),
           {[factor |-> [l \in levels |-> [d \in DOMAIN w.problem |-> 1]], left |-> w.problem]},
           CappedInOrder(arch, levels))

\* What is left of a dimension goes to its free levels; with none, the attempt
\* is given up unless nothing is left.
WithTails(w, arch, levels, constraint, partial) ==
  LET free(d) == SetToSortSeq(FreeLevels(w, arch, levels, constraint, d), <)
      tails(d) == IF free(d) # << >> THEN TailDraws(partial.left[d], Len(free(d)))
                  ELSE IF partial.left[d] = 1 THEN {<< >>} ELSE {}
      placed(schedule, d, tail) ==
        [l \in levels |-> IF Contains(free(d), l)
                          THEN [schedule[l] EXCEPT ![d] = tail[SelectInSeq(free(d), LAMBDA k : k = l)]]
                          ELSE schedule[l]]
  IN  FoldLeft(LAMBDA drawn, d : UNION {{placed(s, d, tail) : tail \in tails(d)} : s \in drawn},
               {partial.factor}, DimsOf(w))

Schedules(w, arch, levels, constraint) ==
  UNION {WithTails(w, arch, levels, constraint, p) : p \in CappedDraws(w, arch, levels, constraint)}

\* Some draw leaves a rest that no level may take.
GivesUp(w, arch, levels, constraint) ==
  \E d \in DOMAIN w.problem :
    /\ FreeLevels(w, arch, levels, constraint, d) = {}
    /\ \E p \in CappedDraws(w, arch, levels, constraint) : p.left[d] # 1

\* _passes_early_schedule_checks.
LevelTotal(schedule, l) == Product(schedule[l], DOMAIN schedule[l])

EarlyChecksPass(arch, schedule) ==
  /\ LevelTotal(schedule, 0) <= arch.lanes
  /\ \A l \in DOMAIN schedule :
       l >= 2 => l \in DefinedLevels(arch) /\ LevelTotal(schedule, l) <= arch.organization[l]

-----------------------------------------------------------------------------
(* Pragmas, drawn or taken from the workload; each flag on its own.        *)

Sharings(w, levels, space) ==
  LET layout == w.layout[1]
      sharing == layout.sharing[1]
  IN  [pu : IF space.searchPu THEN BOOLEAN ELSE {sharing.pu},
       system : IF space.searchSystem THEN {0, Max(levels)} ELSE {sharing.system},
       cache : IF space.searchCache THEN BOOLEAN ELSE {layout.cache[1]}]

\* _materialize_workload, on a deep copy.
Materialized(w, schedule, drawn) ==
  LET layout == WithCache(w.layout[1], drawn.cache)
  IN  [w EXCEPT !.bounds = schedule,
                !.layout = << [layout EXCEPT !.sharing[1].pu = drawn.pu,
                                             !.sharing[1].system = drawn.system] >>]
=============================================================================
