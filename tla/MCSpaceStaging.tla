--------------------------- MODULE MCSpaceStaging ---------------------------
(* The staged plans, an extension by more traces per space, two            *)
(* configurations, and roots left by the earlier version.                  *)
EXTENDS SpaceStaging, TLC

CONSTANTS k1, k2, k3, x, y, ResumeFlags

MCKeys == {k1, k2, k3}
MCConfigs == {x, y}

Staged(config, want, requested, resume) ==
  [config |-> config, want |-> want, plan |-> StagedPlan(requested),
   derive |-> "d" \in requested, resume |-> resume]

MCCommands ==
  {Staged(x, 1, {"d"}, r) : r \in ResumeFlags}
    \cup {Staged(x, 2, {"b"}, r) : r \in ResumeFlags}
    \cup {Staged(y, 1, {"a", "b"}, r) : r \in ResumeFlags}

NoTraces == [s \in Spaces |-> << >>]

MCEmptyRoot == {[manifest |-> None, spaces |-> NoTraces]}

Old(k) == << [key |-> k, config |-> x, old |-> TRUE, whole |-> TRUE] >>

MCOldRoots ==
  MCEmptyRoot \cup
    {[manifest |-> m, spaces |-> [NoTraces EXCEPT !["a"] = Old(k1), !["c"] = Old(k2), !["d"] = Old(k2)]] :
       m \in {None, [legacy |-> TRUE, config |-> x]}}
=============================================================================
