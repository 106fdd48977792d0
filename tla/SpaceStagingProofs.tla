-------------------------- MODULE SpaceStagingProofs --------------------------
(***************************************************************************)
(* The staged search, for every number of commands, keys, configurations   *)
(* and old roots: the spaces never hold a mapping twice, a finished report *)
(* is a chain of unions, and no trace of this version is lost.             *)
(*                                                                         *)
(* Three things are carried along.  A manifest of this version is on disk  *)
(* before the first trace of this version is, so that what a migration     *)
(* clears is old (Marked).  The stages that have been passed are nested    *)
(* while a command runs, and not only once it has reported (Nested).  And  *)
(* d agrees with c as far as it has been derived (Derived).                *)
(***************************************************************************)
EXTENDS SpaceStaging, TLAPS

\* The steps of a command that has written its manifest.
Working == {"enter", "import", "open", "search", "derive", "report"}

\* How far the spaces are nested: the position of the last space in the plan
\* that has all of its predecessor.
Reached ==
  IF pc \in {"open", "search"} THEN stage
  ELSE IF pc \in {"enter", "import"} THEN stage - 1
  ELSE Len(cmd.plan)

Nested ==
  pc \in Working =>
    \A i \in 1 .. 2 : i + 1 <= Reached => KeysIn(Order[i]) \subseteq KeysIn(Order[i + 1])

Derived ==
  /\ pc = "derive" =>
       \A i \in 1 .. stage - 1 : i \in DOMAIN spaces["d"] /\ spaces["d"][i] = spaces["c"][i]
  /\ pc = "report" /\ cmd.derive => spaces["d"] = spaces["c"]

OnlyOld == \A s \in Searched : \A i \in DOMAIN spaces[s] : spaces[s][i].old

Marked ==
  /\ pc \in Working => manifest \in Manifest /\ ~manifest.legacy
  /\ pc = "clear" => manifest = None \/ (manifest \in Manifest /\ manifest.legacy)
  /\ manifest = None \/ (manifest \in Manifest /\ manifest.legacy) => OnlyOld

\* The position of a command between its steps.
Placed ==
  pc = "enter" => stage \in 1 .. Len(cmd.plan) + 1 /\ (stage > Len(cmd.plan) => cmd.derive)

StagingInv == TypeOK /\ Placed /\ SpacesDistinct /\ Marked /\ Nested /\ Derived /\ StagesNested

-----------------------------------------------------------------------------
(* What the steps are built from.                                          *)

\* A command searches the first one, two or three spaces in their order, and
\* all three when it derives d.
LEMMA PlanShape ==
  ASSUME NEW c \in Commands
  PROVE  /\ c.plan \in Seq(Spaces) /\ Len(c.plan) \in 1 .. 3
         /\ \A i \in 1 .. Len(c.plan) : c.plan[i] = Order[i] /\ Order[i] \in Searched
         /\ c.derive \in BOOLEAN /\ (c.derive => Len(c.plan) = 3)
         /\ c.config \in Configs /\ c.resume \in BOOLEAN
<1>1. PICK requested \in SUBSET Spaces \ {{}} :
        c.plan = StagedPlan(requested) /\ c.derive = ("d" \in requested)
  BY CommandsAssumption
<1>2. c \in Command
  BY CommandsAssumption
<1>3. PICK k \in 1 .. 3 :
        c.plan = SubSeq(<< "a", "b", "c" >>, 1, k) /\ ("d" \in requested => k = 3)
  BY <1>1 DEF StagedPlan
<1>4. Len(c.plan) = k /\ \A i \in 1 .. k : c.plan[i] = << "a", "b", "c" >>[i]
  BY <1>3
<1>5. \A i \in 1 .. 3 : << "a", "b", "c" >>[i] = Order[i] /\ Order[i] \in Searched
  BY DEF Order, Searched
<1> QED
  BY <1>1, <1>2, <1>3, <1>4, <1>5 DEF Command

LEMMA SpacesAre == Spaces = {"a", "b", "c", "d"} /\ Searched \subseteq Spaces /\ "d" \notin Searched
BY DEF Spaces, Order, Searched

\* The stage a command is at is a searched space, the one in its place in the
\* order, and its source is the space before.
LEMMA StageShape ==
  ASSUME TypeOK, pc # "down", stage \in DOMAIN cmd.plan
  PROVE  /\ stage \in 1 .. 3 /\ stage <= Len(cmd.plan) /\ Here = Order[stage] /\ Here \in Searched
         /\ stage > 1 => /\ Source = spaces[Order[stage - 1]] /\ Order[stage - 1] \in Searched
                         /\ Order[stage - 1] # Here
         /\ stage = 1 => Source = << >>
         /\ Source \in Seq(Trace)
<1>1. cmd \in Commands
  BY DEF TypeOK
<1>2. stage \in 1 .. Len(cmd.plan) /\ Len(cmd.plan) \in 1 .. 3
  BY <1>1, PlanShape
<1>3. Here = Order[stage] /\ Here \in Searched
  BY <1>1, <1>2, PlanShape DEF Here
<1>4. ASSUME stage > 1
      PROVE  /\ Source = spaces[Order[stage - 1]] /\ Order[stage - 1] \in Searched
             /\ Order[stage - 1] # Here
  <2>1. stage - 1 \in 1 .. Len(cmd.plan) /\ stage # 1
    BY <1>2, <1>4
  <2>2. cmd.plan[stage - 1] = Order[stage - 1] /\ Order[stage - 1] \in Searched
    BY <1>1, <2>1, PlanShape
  <2> QED
    BY <1>2, <1>3, <1>4, <2>1, <2>2 DEF Source, Order
<1>5. stage = 1 => Source = << >>
  BY DEF Source
<1>6. Source \in Seq(Trace)
  <2>1. CASE stage = 1
    BY <1>5, <2>1
  <2>2. CASE stage > 1
    <3>1. Order[stage - 1] \in Spaces /\ spaces \in [Spaces -> Seq(Trace)]
      BY <1>4, <2>2, SpacesAre DEF TypeOK
    <3> QED
      BY <1>4, <2>2, <3>1
  <2> QED
    BY <1>2, <2>1, <2>2
<1> QED
  BY <1>2, <1>3, <1>4, <1>5, <1>6

\* A trace whose key is new to a searched space is added to it.
AddedTo(s, t) == spaces' = [spaces EXCEPT ![s] = Append(@, t)]

LEMMA TraceAdded ==
  ASSUME TypeOK, SpacesDistinct, NEW s \in Searched, NEW t \in Trace,
         t.key \notin KeysIn(s), AddedTo(s, t)
  PROVE  /\ spaces' \in [Spaces -> Seq(Trace)]
         /\ SpacesDistinct'
         /\ KeysIn(s)' = KeysIn(s) \cup {t.key}
         /\ \A u \in Spaces \ {s} : spaces'[u] = spaces[u]
         /\ \A i \in DOMAIN spaces[s] : i \in DOMAIN spaces'[s] /\ spaces'[s][i] = spaces[s][i]
         /\ \A i \in DOMAIN spaces'[s] : i \notin DOMAIN spaces[s] => spaces'[s][i] = t
<1> DEFINE old == spaces[s]
           new == spaces'[s]
<1>1. old \in Seq(Trace) /\ s \in Spaces /\ spaces \in [Spaces -> Seq(Trace)]
  BY SpacesAre DEF TypeOK
<1>2. spaces' \in [Spaces -> Seq(Trace)] /\ new = Append(old, t)
      /\ \A u \in Spaces \ {s} : spaces'[u] = spaces[u]
  BY <1>1 DEF AddedTo
<1>3. /\ Len(old) \in Nat /\ Len(new) = Len(old) + 1
      /\ DOMAIN old = 1 .. Len(old) /\ DOMAIN new = 1 .. Len(old) + 1
      /\ \A i \in 1 .. Len(old) : new[i] = old[i]
      /\ new[Len(old) + 1] = t
  BY <1>1, <1>2
<1> HIDE DEF old, new
<1>4. Distinct(new)
  <2>1. \A i \in DOMAIN old : old[i].key # t.key
    BY DEF KeysIn, old
  <2>2. Distinct(old)
    BY DEF SpacesDistinct, old
  <2> QED
    BY <1>3, <2>1, <2>2 DEF Distinct
<1>5. SpacesDistinct'
  <2> SUFFICES ASSUME NEW u \in Searched PROVE Distinct(spaces'[u])
    BY DEF SpacesDistinct
  <2>1. CASE u = s
    BY <1>4, <2>1 DEF new
  <2>2. CASE u # s
    BY <1>2, <2>2, SpacesAre DEF SpacesDistinct
  <2> QED
    BY <2>1, <2>2
<1>6. KeysIn(s)' = KeysIn(s) \cup {t.key}
  <2>1. KeysIn(s)' = {new[i].key : i \in DOMAIN new} /\ KeysIn(s) = {old[i].key : i \in DOMAIN old}
    BY DEF KeysIn, new, old
  <2>2. DOMAIN new = DOMAIN old \cup {Len(old) + 1}
    BY <1>3
  <2> QED
    BY <1>3, <2>1, <2>2
<1> QED
  BY <1>1, <1>2, <1>3, <1>5, <1>6 DEF old, new

LEMMA SpacesKept ==
  ASSUME UNCHANGED spaces
  PROVE  /\ SpacesDistinct => SpacesDistinct'
         /\ OnlyOld => OnlyOld'
         /\ \A s \in Spaces : KeysIn(s)' = KeysIn(s)
BY DEF SpacesDistinct, OnlyOld, KeysIn

-----------------------------------------------------------------------------
(* Every action keeps the invariant.                                       *)

LEMMA InitInv == Init => StagingInv
<1> SUFFICES ASSUME Init PROVE StagingInv
  OBVIOUS
<1>1. PICK old \in OldRoots : manifest = old.manifest /\ spaces = old.spaces
  BY DEF Init
<1>2. /\ manifest \in {m \in Manifest : m.legacy} \cup {None, Torn}
      /\ spaces \in [Spaces -> Seq({t \in Trace : t.old})]
      /\ \A s \in Searched : Distinct(spaces[s])
  BY <1>1, OldRootsAssumption
<1>3. \A s \in Spaces : spaces[s] \in Seq(Trace) /\ \A i \in DOMAIN spaces[s] : spaces[s][i].old
  <2> SUFFICES ASSUME NEW s \in Spaces
               PROVE  spaces[s] \in Seq(Trace) /\ \A i \in DOMAIN spaces[s] : spaces[s][i].old
    OBVIOUS
  <2>1. spaces[s] \in Seq({t \in Trace : t.old})
    BY <1>2
  <2>2. \A i \in DOMAIN spaces[s] : spaces[s][i] \in {t \in Trace : t.old}
    BY <2>1
  <2>3. Len(spaces[s]) \in Nat /\ DOMAIN spaces[s] = 1 .. Len(spaces[s])
    BY <2>1
  <2>4. spaces[s] = [i \in 1 .. Len(spaces[s]) |-> spaces[s][i]]
    BY <2>1
  <2>5. spaces[s] \in [1 .. Len(spaces[s]) -> Trace]
    BY <2>2, <2>3, <2>4
  <2> QED
    BY <2>2, <2>3, <2>5
<1>4. TypeOK
  <2>1. spaces \in [Spaces -> Seq(Trace)]
    BY <1>2, <1>3
  <2>2. manifest \in Manifest \cup {None, Torn}
    BY <1>2
  <2> QED
    BY <2>1, <2>2, MaxRunsAssumption DEF Init, TypeOK, Steps
<1>5. SpacesDistinct
  BY <1>2 DEF SpacesDistinct
<1>6. OnlyOld
  BY <1>3, SpacesAre DEF OnlyOld
<1> QED
  BY <1>4, <1>5, <1>6
     DEF Init, StagingInv, Placed, Marked, Nested, Derived, StagesNested, Working

LEMMA RefuseRootInv ==
  ASSUME StagingInv, NEW c \in Commands, RefuseRoot(c) PROVE StagingInv'
<1>1. TypeOK'
  BY MaxRunsAssumption DEF StagingInv, TypeOK, RefuseRoot, disk
<1>2. SpacesDistinct' /\ Marked'
  BY SpacesKept DEF StagingInv, Marked, RefuseRoot, disk, Working
<1> QED
  BY <1>1, <1>2
     DEF StagingInv, Placed, Nested, Derived, StagesNested, Working, RefuseRoot, disk

LEMMA BeginCommandInv ==
  ASSUME StagingInv, NEW c \in Commands, BeginCommand(c) PROVE StagingInv'
<1>1. pc' \in {"clear", "manifest"} /\ pc = "down"
  BY DEF BeginCommand
<1>2. TypeOK'
  BY <1>1, MaxRunsAssumption DEF StagingInv, TypeOK, BeginCommand, disk, Steps
<1>3. pc' = "clear" => manifest' = None \/ (manifest' \in Manifest /\ manifest'.legacy)
  BY DEF BeginCommand, LegacyRoot, disk
<1>4. SpacesDistinct' /\ Marked'
  BY <1>1, <1>3, SpacesKept DEF StagingInv, Marked, BeginCommand, disk, Working
<1> QED
  BY <1>1, <1>2, <1>4 DEF StagingInv, Placed, Nested, Derived, StagesNested, Working

LEMMA ClearSpaceInv ==
  ASSUME StagingInv, ClearSpace PROVE StagingInv'
<1>1. PICK i \in 1 .. 4 :
        /\ spaces' = IF Order[i] = "a" /\ KeepsA THEN spaces
                     ELSE [spaces EXCEPT ![Order[i]] = << >>]
        /\ begun' = begun \ {Order[i]}
  BY DEF ClearSpace
<1>2. /\ pc = "clear" /\ pc' = "clear"
      /\ UNCHANGED << manifest, report, cmd, stage, exit, runs >>
  BY DEF ClearSpace, Stay
<1>3. Order[i] \in Spaces /\ spaces \in [Spaces -> Seq(Trace)]
  BY DEF Spaces, StagingInv, TypeOK
<1>4. /\ spaces' \in [Spaces -> Seq(Trace)]
      /\ \A s \in Spaces : spaces'[s] = spaces[s] \/ spaces'[s] = << >>
  BY <1>1, <1>3
<1>5. TypeOK'
  BY <1>1, <1>2, <1>4 DEF StagingInv, TypeOK, Steps
<1>6. SpacesDistinct'
  <2> SUFFICES ASSUME NEW s \in Searched PROVE Distinct(spaces'[s])
    BY DEF SpacesDistinct
  <2> QED
    BY <1>4, SpacesAre DEF StagingInv, SpacesDistinct, Distinct
<1>7. OnlyOld /\ OnlyOld'
  <2>1. OnlyOld
    BY <1>2 DEF StagingInv, Marked
  <2>2. SUFFICES ASSUME NEW s \in Searched, NEW k \in DOMAIN spaces'[s] PROVE spaces'[s][k].old
    BY <2>1 DEF OnlyOld
  <2>3. spaces'[s] = spaces[s]
    BY <1>4, SpacesAre
  <2> QED
    BY <2>1, <2>3 DEF OnlyOld
<1>8. Marked'
  BY <1>2, <1>7 DEF StagingInv, Marked, Working
<1> QED
  BY <1>2, <1>5, <1>6, <1>8 DEF StagingInv, Placed, Nested, Derived, StagesNested, Working

LEMMA ClearReportInv ==
  ASSUME StagingInv, ClearReport PROVE StagingInv'
<1>1. TypeOK'
  BY DEF StagingInv, TypeOK, ClearReport, Goto, Steps
<1>2. SpacesDistinct' /\ Marked'
  BY SpacesKept DEF StagingInv, Marked, ClearReport, Goto, Working
<1> QED
  BY <1>1, <1>2
     DEF StagingInv, Placed, Nested, Derived, StagesNested, Working, ClearReport, Goto

LEMMA WriteManifestInv ==
  ASSUME StagingInv, WriteManifest PROVE StagingInv'
<1>1. /\ pc' = "enter" /\ stage' = 1 /\ cmd \in Commands /\ cmd' = cmd
      /\ UNCHANGED << spaces, begun, report, exit, runs >>
      /\ manifest' = [legacy |-> FALSE, config |-> cmd.config]
  BY DEF WriteManifest, Goto, StagingInv, TypeOK
<1>2. manifest' \in Manifest /\ ~manifest'.legacy
  BY <1>1, PlanShape DEF Manifest
<1>3. TypeOK'
  BY <1>1, <1>2 DEF StagingInv, TypeOK, Steps
<1>4. Marked' /\ SpacesDistinct'
  BY <1>1, <1>2, SpacesKept, NoFileAssumption DEF StagingInv, Marked, Working
<1>5. Placed'
  <2>1. PICK n \in 1 .. 3 : n = Len(cmd.plan)
    BY <1>1, PlanShape
  <2>2. cmd'.plan = cmd.plan
    BY <1>1
  <2>3. stage' = 1
    BY <1>1
  <2>4. stage' \in 1 .. n + 1 /\ ~(stage' > n)
    BY <2>3
  <2> QED
    BY <2>1, <2>2, <2>4 DEF Placed
<1>6. Nested'
  BY <1>1 DEF Nested, Reached
<1> QED
  BY <1>1, <1>3, <1>4, <1>5, <1>6 DEF StagingInv, Derived, StagesNested

LEMMA RefuseStageInv ==
  ASSUME StagingInv, RefuseStage PROVE StagingInv'
<1>1. TypeOK'
  BY DEF StagingInv, TypeOK, RefuseStage, Down, disk, Steps
<1>2. SpacesDistinct' /\ Marked'
  BY SpacesKept DEF StagingInv, Marked, RefuseStage, Down, disk, Working
<1> QED
  BY <1>1, <1>2
     DEF StagingInv, Placed, Nested, Derived, StagesNested, Working, RefuseStage, Down, disk

LEMMA RefuseDeriveInv ==
  ASSUME StagingInv, RefuseDerive PROVE StagingInv'
<1>1. TypeOK'
  BY DEF StagingInv, TypeOK, RefuseDerive, Down, disk, Steps
<1>2. SpacesDistinct' /\ Marked'
  BY SpacesKept DEF StagingInv, Marked, RefuseDerive, Down, disk, Working
<1> QED
  BY <1>1, <1>2
     DEF StagingInv, Placed, Nested, Derived, StagesNested, Working, RefuseDerive, Down, disk

\* A step of a working command that leaves the disk as it is.
LEMMA StepInv ==
  ASSUME StagingInv, UNCHANGED << disk, cmd, exit, runs >>,
         pc \in Working \ {"report"}, pc' \in Working \ {"report"},
         pc' \in {"import", "open", "search"} => stage' \in DOMAIN cmd.plan,
         pc' = "derive" => cmd.derive /\ stage' = 1,
         pc' # "enter", Nested'
  PROVE  StagingInv'
<1>1. pc' = "derive" => stage' \in 1 .. Len(spaces["c"]) + 1
  <2>1. spaces["c"] \in Seq(Trace)
    BY SpacesAre DEF StagingInv, TypeOK
  <2>2. Len(spaces["c"]) \in Nat
    BY <2>1
  <2> QED
    BY <2>2
<1>2. TypeOK'
  BY <1>1 DEF StagingInv, TypeOK, disk, Steps, Working
<1>3. SpacesDistinct' /\ Marked'
  BY SpacesKept DEF StagingInv, Marked, disk, Working
<1>4. Derived'
  BY DEF Derived, Working
<1> QED
  BY <1>2, <1>3, <1>4 DEF StagingInv, Placed, StagesNested, Working

LEMMA EnterStageInv ==
  ASSUME StagingInv, EnterStage PROVE StagingInv'
<1>1. /\ pc = "enter" /\ stage <= Len(cmd.plan) /\ stage' = stage
      /\ UNCHANGED << disk, cmd, exit, runs >>
      /\ pc' = "import" \/ (pc' = "open" /\ Source = << >>)
  BY DEF EnterStage, Goto
<1>2. cmd \in Commands /\ cmd.plan \in Seq(Spaces) /\ Len(cmd.plan) \in 1 .. 3
  BY <1>1, PlanShape DEF StagingInv, TypeOK
<1>3. stage \in 1 .. Len(cmd.plan) + 1
  BY <1>1 DEF StagingInv, Placed
<1>4. stage \in DOMAIN cmd.plan /\ stage \in 1 .. 3
  <2>1. PICK n \in 1 .. 3 : n = Len(cmd.plan)
    BY <1>2
  <2>2. DOMAIN cmd.plan = 1 .. n
    BY <1>2, <2>1
  <2>3. stage \in Nat /\ 1 <= stage /\ stage <= n
    BY <1>1, <1>3, <2>1
  <2> QED
    BY <2>2, <2>3
<1>5. Nested'
  <2> SUFFICES ASSUME NEW i \in 1 .. 2, (i + 1 <= Reached)'
               PROVE  (KeysIn(Order[i]) \subseteq KeysIn(Order[i + 1]))'
    BY DEF Nested
  <2>1. Order[i] \in Spaces /\ Order[i + 1] \in Spaces
    BY DEF Spaces
  <2>2. SUFFICES KeysIn(Order[i]) \subseteq KeysIn(Order[i + 1])
    BY <1>1, <2>1, SpacesKept DEF disk
  <2>3. CASE i + 1 <= stage - 1
    BY <1>1, <2>3 DEF StagingInv, Nested, Reached, Working
  <2>4. CASE ~(i + 1 <= stage - 1)
    <3>1. i + 1 = stage /\ pc' = "open" /\ Source = << >>
      BY <1>1, <1>4, <2>4 DEF Reached
    <3>2. Source = spaces[Order[i]]
      BY <1>1, <1>4, <3>1, StageShape DEF StagingInv
    <3> QED
      BY <3>1, <3>2 DEF KeysIn
  <2> QED
    BY <2>3, <2>4
<1> QED
  BY <1>1, <1>4, <1>5, StepInv DEF Working

LEMMA ImportDoneInv ==
  ASSUME StagingInv, ImportDone PROVE StagingInv'
<1>1. /\ pc = "import" /\ pc' = "open" /\ stage' = stage /\ Missing = {}
      /\ UNCHANGED << disk, cmd, exit, runs >>
  BY DEF ImportDone, Goto
<1>2. stage \in DOMAIN cmd.plan /\ stage \in 1 .. 3 /\ Here = Order[stage]
  BY <1>1, StageShape DEF StagingInv, TypeOK
<1>3. Nested'
  <2> SUFFICES ASSUME NEW i \in 1 .. 2, (i + 1 <= Reached)'
               PROVE  (KeysIn(Order[i]) \subseteq KeysIn(Order[i + 1]))'
    BY DEF Nested
  <2>1. Order[i] \in Spaces /\ Order[i + 1] \in Spaces
    BY DEF Spaces
  <2>2. SUFFICES KeysIn(Order[i]) \subseteq KeysIn(Order[i + 1])
    BY <1>1, <2>1, SpacesKept DEF disk
  <2>3. CASE i + 1 <= stage - 1
    BY <1>1, <2>3 DEF StagingInv, Nested, Reached, Working
  <2>4. CASE ~(i + 1 <= stage - 1)
    <3>1. i + 1 = stage /\ i = stage - 1
      BY <1>1, <1>2, <2>4 DEF Reached
    <3>2. Source = spaces[Order[i]] /\ Here = Order[i + 1]
      BY <1>1, <1>2, <3>1, StageShape DEF StagingInv
    <3>3. \A k \in DOMAIN Source : Source[k].key \in KeysIn(Here)
      BY <1>1 DEF Missing
    <3> QED
      BY <3>2, <3>3 DEF KeysIn
  <2> QED
    BY <2>3, <2>4
<1> QED
  BY <1>1, <1>2, <1>3, StepInv DEF Working

LEMMA OpenSearchInv ==
  ASSUME StagingInv, OpenSearch PROVE StagingInv'
<1>1. /\ pc = "open" /\ pc' = "search" /\ stage' = stage
      /\ UNCHANGED << disk, cmd, exit, runs >>
  BY DEF OpenSearch, Goto
<1>2. Nested'
  <2>1. \A i \in 1 .. 2 : Order[i] \in Spaces /\ Order[i + 1] \in Spaces
    BY DEF Spaces
  <2>2. Reached' = Reached
    BY <1>1 DEF Reached
  <2> QED
    BY <1>1, <2>1, <2>2, SpacesKept DEF StagingInv, Nested, Working, disk
<1> QED
  BY <1>1, <1>2, StepInv DEF StagingInv, TypeOK, Working

LEMMA EnterDeriveInv ==
  ASSUME StagingInv, EnterDerive PROVE StagingInv'
<1>1. /\ pc = "enter" /\ pc' = "derive" /\ stage' = 1 /\ stage > Len(cmd.plan)
      /\ UNCHANGED << disk, cmd, exit, runs >>
  BY DEF EnterDerive, Goto
<1>2. /\ stage \in 1 .. Len(cmd.plan) + 1 /\ cmd.derive
      /\ Len(cmd.plan) \in 1 .. 3
  BY <1>1, PlanShape DEF StagingInv, Placed, TypeOK
<1>3. Nested'
  <2>1. \A i \in 1 .. 2 : Order[i] \in Spaces /\ Order[i + 1] \in Spaces
    BY DEF Spaces
  <2>2. Reached' = Reached
    BY <1>1, <1>2 DEF Reached
  <2> QED
    BY <1>1, <2>1, <2>2, SpacesKept DEF StagingInv, Nested, Working, disk
<1> QED
  BY <1>1, <1>2, <1>3, StepInv DEF Working

LEMMA EndStageInv ==
  ASSUME StagingInv, EndStage PROVE StagingInv'
<1>1. /\ pc = "search" /\ cmd' = cmd /\ begun' = begun \cup {Here}
      /\ UNCHANGED << manifest, spaces, report, exit, runs >>
      /\ \/ pc' = "enter" /\ stage' = stage + 1 /\ (stage < Len(cmd.plan) \/ cmd.derive)
         \/ pc' = "report" /\ ~(stage < Len(cmd.plan) \/ cmd.derive)
  BY DEF EndStage, Goto
<1>2. /\ stage \in 1 .. 3 /\ stage <= Len(cmd.plan) /\ Here \in Spaces
      /\ Len(cmd.plan) \in 1 .. 3 /\ stage \in DOMAIN cmd.plan
  BY <1>1, StageShape, PlanShape, SpacesAre DEF StagingInv, TypeOK
<1>3. TypeOK'
  BY <1>1, <1>2 DEF StagingInv, TypeOK, Steps
<1>4. SpacesDistinct' /\ Marked'
  BY <1>1, SpacesKept DEF StagingInv, Marked, Working
<1>5. Placed'
  BY <1>1, <1>2 DEF Placed
<1>6. Nested'
  <2>1. \A i \in 1 .. 2 : Order[i] \in Spaces /\ Order[i + 1] \in Spaces
    BY DEF Spaces
  <2>2. Reached' = Reached
    BY <1>1, <1>2 DEF Reached
  <2> QED
    BY <1>1, <2>1, <2>2, SpacesKept DEF StagingInv, Nested, Working
<1>7. Derived'
  BY <1>1 DEF Derived
<1> QED
  BY <1>1, <1>3, <1>4, <1>5, <1>6, <1>7 DEF StagingInv, StagesNested

\* Nothing of this version's is lost in the searched spaces by the step.
KeptHere ==
  \A s \in Searched : \A i \in DOMAIN spaces[s] :
    ~spaces[s][i].old => i \in DOMAIN spaces'[s] /\ spaces'[s][i] = spaces[s][i]

\* A trace with a new key is added to the space of the running stage.
LEMMA StageGrows ==
  ASSUME StagingInv, pc \in {"import", "search"}, NEW t \in Trace,
         t.key \notin KeysIn(Here), AddedTo(Here, t)
  PROVE  /\ spaces' \in [Spaces -> Seq(Trace)]
         /\ SpacesDistinct' /\ KeptHere
         /\ \A i \in 1 .. 2 : i + 1 <= Reached
              => KeysIn(Order[i])' \subseteq KeysIn(Order[i + 1])'
<1>1. /\ stage \in 1 .. 3 /\ Here = Order[stage] /\ Here \in Searched
      /\ stage \in DOMAIN cmd.plan
  BY StageShape DEF StagingInv, TypeOK
<1>2. PICK n \in 1 .. 3 : n = stage
  BY <1>1
<1>3. PICK h \in Searched : h = Here /\ h = Order[n]
  BY <1>1, <1>2
<1>4. TypeOK /\ SpacesDistinct /\ t.key \notin KeysIn(h) /\ AddedTo(h, t)
  BY <1>3 DEF StagingInv, AddedTo
<1> HIDE DEF StagingInv
<1>5. /\ spaces' \in [Spaces -> Seq(Trace)] /\ SpacesDistinct'
      /\ KeysIn(h)' = KeysIn(h) \cup {t.key}
      /\ \A u \in Spaces \ {h} : spaces'[u] = spaces[u]
      /\ \A i \in DOMAIN spaces[h] : i \in DOMAIN spaces'[h] /\ spaces'[h][i] = spaces[h][i]
  BY <1>4, TraceAdded
<1>6. KeptHere
  <2> SUFFICES ASSUME NEW u \in Searched, NEW i \in DOMAIN spaces[u]
               PROVE  i \in DOMAIN spaces'[u] /\ spaces'[u][i] = spaces[u][i]
    BY DEF KeptHere
  <2>1. CASE u = h
    BY <1>5, <2>1
  <2>2. CASE u # h
    BY <1>5, <2>2, SpacesAre
  <2> QED
    BY <2>1, <2>2
<1>7. ASSUME NEW i \in 1 .. 2, i + 1 <= Reached
      PROVE  KeysIn(Order[i])' \subseteq KeysIn(Order[i + 1])'
  <2>1. KeysIn(Order[i]) \subseteq KeysIn(Order[i + 1])
    BY <1>7 DEF StagingInv, Nested, Working
  <2>2. Order[i] \in Spaces /\ Order[i + 1] \in Spaces /\ i + 1 <= n /\ Order[i] # h
    BY <1>1, <1>2, <1>3, <1>7 DEF Reached, Order, Spaces
  <2>3. KeysIn(Order[i])' = KeysIn(Order[i])
    <3>1. spaces'[Order[i]] = spaces[Order[i]]
      BY <1>5, <2>2
    <3> QED
      BY <3>1 DEF KeysIn
  <2>4. KeysIn(Order[i + 1]) \subseteq KeysIn(Order[i + 1])'
    <3>1. CASE Order[i + 1] = h
      BY <1>5, <3>1
    <3>2. CASE Order[i + 1] # h
      BY <1>5, <2>2, <3>2 DEF KeysIn
    <3> QED
      BY <3>1, <3>2
  <2> QED
    BY <2>1, <2>3, <2>4
<1> QED
  BY <1>5, <1>6, <1>7

LEMMA ImportTraceInv ==
  ASSUME StagingInv, ImportTrace PROVE StagingInv' /\ KeptHere
<1>1. /\ pc = "import"
      /\ UNCHANGED << manifest, begun, report, pc, cmd, stage, exit, runs >>
  BY DEF ImportTrace, Stay
<1>2. PICK k \in DOMAIN Source : NextMissing(k) /\ AddedTo(Here, Source[k])
  BY DEF ImportTrace, AddedTo
<1>3. Source \in Seq(Trace)
  BY <1>1, StageShape DEF StagingInv, TypeOK
<1>4. PICK t \in Trace : t = Source[k]
  BY <1>2, <1>3
<1>5. t.key \notin KeysIn(Here) /\ AddedTo(Here, t)
  BY <1>2, <1>4 DEF NextMissing, Missing
<1>6. /\ spaces' \in [Spaces -> Seq(Trace)] /\ SpacesDistinct' /\ KeptHere
      /\ \A i \in 1 .. 2 : i + 1 <= Reached
           => KeysIn(Order[i])' \subseteq KeysIn(Order[i + 1])'
  BY <1>1, <1>5, StageGrows
<1>7. TypeOK'
  BY <1>1, <1>6 DEF StagingInv, TypeOK
<1>8. Marked'
  BY <1>1, NoFileAssumption DEF StagingInv, Marked, Working
<1>9. Nested'
  BY <1>1, <1>6 DEF Nested, Reached
<1> QED
  BY <1>1, <1>6, <1>7, <1>8, <1>9 DEF StagingInv, Placed, Derived, StagesNested

LEMMA FindTraceInv ==
  ASSUME StagingInv, NEW k \in Keys, FindTrace(k) PROVE StagingInv' /\ KeptHere
<1> DEFINE t == [key |-> k, config |-> cmd.config, old |-> FALSE, whole |-> TRUE]
<1>1. /\ pc = "search" /\ k \notin KeysIn(Here)
      /\ UNCHANGED << manifest, begun, report, pc, cmd, stage, exit, runs >>
      /\ AddedTo(Here, t)
  BY DEF FindTrace, Stay, AddedTo
<1>2. cmd.config \in Configs
  BY <1>1, PlanShape DEF StagingInv, TypeOK
<1>3. t \in Trace /\ t.key = k
  BY <1>2 DEF Trace
<1> HIDE DEF t
<1>4. PICK u \in Trace : u = t
  BY <1>3
<1>5. /\ spaces' \in [Spaces -> Seq(Trace)] /\ SpacesDistinct' /\ KeptHere
      /\ \A i \in 1 .. 2 : i + 1 <= Reached
           => KeysIn(Order[i])' \subseteq KeysIn(Order[i + 1])'
  <2>1. u.key \notin KeysIn(Here) /\ AddedTo(Here, u)
    BY <1>1, <1>3, <1>4
  <2> QED
    BY <1>1, <2>1, StageGrows
<1>6. TypeOK'
  BY <1>1, <1>5 DEF StagingInv, TypeOK
<1>7. Marked'
  BY <1>1, NoFileAssumption DEF StagingInv, Marked, Working
<1>8. Nested'
  BY <1>1, <1>5 DEF Nested, Reached
<1> QED
  BY <1>1, <1>5, <1>6, <1>7, <1>8 DEF StagingInv, Placed, Derived, StagesNested

\* A trace file of d is overwritten, or is the next one.
LEMMA OverwrittenShape ==
  ASSUME TypeOK, NEW t \in Trace, NEW i \in Nat \ {0}, i <= Len(spaces["d"]) + 1,
         spaces' = Overwritten(i, t)
  PROVE  /\ spaces' \in [Spaces -> Seq(Trace)]
         /\ \A s \in Searched : spaces'[s] = spaces[s]
         /\ i \in DOMAIN spaces'["d"] /\ spaces'["d"][i] = t
         /\ \A j \in DOMAIN spaces["d"] \ {i} :
              j \in DOMAIN spaces'["d"] /\ spaces'["d"][j] = spaces["d"][j]
<1> DEFINE d == spaces["d"]
           e == IF i <= Len(d) THEN [d EXCEPT ![i] = t] ELSE Append(d, t)
<1>1. d \in Seq(Trace) /\ Len(d) \in Nat /\ DOMAIN d = 1 .. Len(d)
      /\ spaces \in [Spaces -> Seq(Trace)] /\ "d" \in Spaces
  BY SpacesAre DEF TypeOK
<1>2. spaces' = [spaces EXCEPT !["d"] = e]
  BY DEF Overwritten
<1> HIDE DEF d
<1>3. e \in Seq(Trace) /\ i \in DOMAIN e /\ e[i] = t
      /\ \A j \in DOMAIN d \ {i} : j \in DOMAIN e /\ e[j] = d[j]
  <2>1. CASE i <= Len(d)
    BY <1>1, <2>1
  <2>2. CASE ~(i <= Len(d))
    <3>1. e = Append(d, t) /\ i = Len(d) + 1
      BY <1>1, <2>2 DEF d
    <3> HIDE DEF e
    <3>2. /\ e \in Seq(Trace)
          /\ Len(e) = Len(d) + 1 /\ DOMAIN e = 1 .. Len(d) + 1 /\ e[Len(d) + 1] = t
          /\ \A j \in 1 .. Len(d) : e[j] = d[j]
      BY <1>1, <3>1
    <3> QED
      BY <1>1, <3>1, <3>2
  <2> QED
    BY <2>1, <2>2
<1> HIDE DEF e
<1>4. spaces'["d"] = e /\ \A s \in Spaces \ {"d"} : spaces'[s] = spaces[s]
      /\ spaces' \in [Spaces -> Seq(Trace)]
  BY <1>1, <1>2, <1>3
<1> QED
  BY <1>3, <1>4, SpacesAre DEF d

\* What depends on the searched spaces only is kept with them.
LEMMA SearchedKept ==
  ASSUME \A s \in Searched : spaces'[s] = spaces[s]
  PROVE  /\ SpacesDistinct => SpacesDistinct'
         /\ OnlyOld => OnlyOld'
         /\ KeptHere
         /\ \A s \in Searched : KeysIn(s)' = KeysIn(s)
         /\ \A i \in 1 .. 2 : KeysIn(Order[i])' = KeysIn(Order[i])
                              /\ KeysIn(Order[i + 1])' = KeysIn(Order[i + 1])
<1>1. \A s \in Searched : KeysIn(s)' = KeysIn(s)
  BY DEF KeysIn
<1>2. \A i \in 1 .. 2 : Order[i] \in Searched /\ Order[i + 1] \in Searched
  BY DEF Order, Searched
<1>3. \A i \in 1 .. 2 : KeysIn(Order[i])' = KeysIn(Order[i])
                        /\ KeysIn(Order[i + 1])' = KeysIn(Order[i + 1])
  <2> SUFFICES ASSUME NEW i \in 1 .. 2
               PROVE  KeysIn(Order[i])' = KeysIn(Order[i])
                      /\ KeysIn(Order[i + 1])' = KeysIn(Order[i + 1])
    OBVIOUS
  <2>1. spaces'[Order[i]] = spaces[Order[i]] /\ spaces'[Order[i + 1]] = spaces[Order[i + 1]]
    BY <1>2
  <2> QED
    BY <2>1 DEF KeysIn
<1> QED
  BY <1>1, <1>3 DEF SpacesDistinct, OnlyOld, KeptHere

\* While d is derived, the next file to write is in it or is the next one.
LEMMA DerivedSoFar ==
  ASSUME StagingInv, pc = "derive", stage <= Len(spaces["c"])
  PROVE  /\ stage \in Nat \ {0} /\ stage <= Len(spaces["d"]) + 1
         /\ stage \in DOMAIN spaces["c"] /\ spaces["c"][stage] \in Trace
<1>1. spaces["c"] \in Seq(Trace) /\ spaces["d"] \in Seq(Trace)
  BY SpacesAre DEF StagingInv, TypeOK
<1>2. stage \in 1 .. Len(spaces["c"]) + 1
  BY DEF StagingInv, TypeOK
<1>3. Len(spaces["c"]) \in Nat /\ Len(spaces["d"]) \in Nat /\ DOMAIN spaces["d"] = 1 .. Len(spaces["d"])
      /\ DOMAIN spaces["c"] = 1 .. Len(spaces["c"])
  BY <1>1
<1>4. stage \in Nat \ {0} /\ stage \in DOMAIN spaces["c"]
  BY <1>2, <1>3
<1>5. spaces["c"][stage] \in Trace
  BY <1>1, <1>4
<1>6. stage <= Len(spaces["d"]) + 1
  <2>1. CASE stage = 1
    BY <1>3, <2>1
  <2>2. CASE stage > 1
    <3>1. stage - 1 \in 1 .. stage - 1
      BY <1>4, <2>2
    <3>2. stage - 1 \in DOMAIN spaces["d"]
      BY <3>1 DEF StagingInv, Derived
    <3> QED
      BY <1>3, <1>4, <3>2
  <2> QED
    BY <1>4, <2>1, <2>2
<1> QED
  BY <1>4, <1>5, <1>6

LEMMA DeriveTraceInv ==
  ASSUME StagingInv, DeriveTrace PROVE StagingInv' /\ KeptHere
<1>1. /\ pc = "derive" /\ pc' = "derive" /\ stage' = stage + 1
      /\ stage <= Len(spaces["c"])
      /\ spaces' = Overwritten(stage, spaces["c"][stage])
      /\ UNCHANGED << manifest, begun, report, cmd, exit, runs >>
  BY DEF DeriveTrace, Goto
<1>2. /\ stage \in Nat \ {0} /\ stage <= Len(spaces["d"]) + 1
      /\ stage \in DOMAIN spaces["c"] /\ spaces["c"][stage] \in Trace
  BY <1>1, DerivedSoFar
<1>3. /\ spaces' \in [Spaces -> Seq(Trace)]
      /\ \A s \in Searched : spaces'[s] = spaces[s]
      /\ stage \in DOMAIN spaces'["d"] /\ spaces'["d"][stage] = spaces["c"][stage]
      /\ \A j \in DOMAIN spaces["d"] \ {stage} :
           j \in DOMAIN spaces'["d"] /\ spaces'["d"][j] = spaces["d"][j]
  <2>1. TypeOK
    BY DEF StagingInv
  <2> QED
    BY <1>1, <1>2, <2>1, OverwrittenShape
<1>4. spaces'["c"] = spaces["c"]
  BY <1>3 DEF Searched
<1>5. Len(spaces["c"]) \in Nat
  BY SpacesAre DEF StagingInv, TypeOK
<1>6. stage' \in 1 .. Len(spaces'["c"]) + 1
  BY <1>1, <1>2, <1>4, <1>5
<1>7. TypeOK'
  BY <1>1, <1>3, <1>6 DEF StagingInv, TypeOK, Steps
<1>8. SpacesDistinct' /\ KeptHere
  BY <1>3, SearchedKept DEF StagingInv
<1>9. Marked'
  BY <1>1, NoFileAssumption DEF StagingInv, Marked, Working
<1>10. Nested'
  BY <1>1, <1>3, SearchedKept DEF StagingInv, Nested, Reached, Working
<1>11. Derived'
  <2>1. SUFFICES ASSUME NEW i \in 1 .. stage' - 1
                 PROVE  i \in DOMAIN spaces'["d"] /\ spaces'["d"][i] = spaces'["c"][i]
    BY <1>1 DEF Derived
  <2>2. CASE i = stage
    BY <1>3, <1>4, <2>2
  <2>3. CASE i # stage
    <3>1. i \in 1 .. stage - 1
      BY <1>1, <1>2, <2>3
    <3>2. i \in DOMAIN spaces["d"] /\ spaces["d"][i] = spaces["c"][i]
      BY <1>1, <3>1 DEF StagingInv, Derived
    <3> QED
      BY <1>3, <1>4, <2>3, <3>2
  <2> QED
    BY <2>2, <2>3
<1> QED
  BY <1>1, <1>7, <1>8, <1>9, <1>10, <1>11 DEF StagingInv, Placed, StagesNested

LEMMA DeriveDoneInv ==
  ASSUME StagingInv, DeriveDone PROVE StagingInv' /\ KeptHere
<1> DEFINE c == spaces["c"]
           d == spaces["d"]
<1>1. /\ pc = "derive" /\ pc' = "report" /\ stage' = 0 /\ stage > Len(c)
      /\ spaces' = [spaces EXCEPT !["d"] = SubSeq(d, 1, Len(c))]
      /\ begun' = begun \cup {"d"}
      /\ UNCHANGED << manifest, report, cmd, exit, runs >>
  BY DEF DeriveDone, Goto
<1>2. /\ spaces \in [Spaces -> Seq(Trace)] /\ "d" \in Spaces
      /\ c \in Seq(Trace) /\ d \in Seq(Trace)
      /\ stage \in 1 .. Len(c) + 1
      /\ \A i \in 1 .. stage - 1 : i \in DOMAIN d /\ d[i] = c[i]
  BY <1>1, SpacesAre DEF StagingInv, TypeOK, Derived
<1> HIDE DEF c, d
<1>3. /\ Len(c) \in Nat /\ DOMAIN c = 1 .. Len(c) /\ Len(d) \in Nat /\ DOMAIN d = 1 .. Len(d)
      /\ stage = Len(c) + 1
  BY <1>1, <1>2
<1>4. \A i \in 1 .. Len(c) : i \in DOMAIN d /\ d[i] = c[i]
  BY <1>2, <1>3
<1>5. Len(c) <= Len(d)
  BY <1>3, <1>4
<1>6. SubSeq(d, 1, Len(c)) = c
  <2>1. /\ SubSeq(d, 1, Len(c)) \in Seq(Trace) /\ Len(SubSeq(d, 1, Len(c))) = Len(c)
        /\ \A i \in 1 .. Len(c) : SubSeq(d, 1, Len(c))[i] = d[i]
    BY <1>2, <1>3, <1>5
  <2> QED
    BY <1>2, <1>3, <1>4, <2>1
<1>7. /\ spaces' \in [Spaces -> Seq(Trace)]
      /\ \A s \in Searched : spaces'[s] = spaces[s]
      /\ spaces'["d"] = c
  BY <1>1, <1>2, <1>6, SpacesAre
<1>8. TypeOK'
  BY <1>1, <1>2, <1>7 DEF StagingInv, TypeOK, Steps
<1>9. SpacesDistinct' /\ KeptHere
  BY <1>7, SearchedKept DEF StagingInv
<1>10. Marked'
  BY <1>1, NoFileAssumption DEF StagingInv, Marked, Working
<1>11. Nested'
  BY <1>1, <1>7, SearchedKept DEF StagingInv, Nested, Reached, Working
<1>12. Derived'
  BY <1>1, <1>7 DEF Derived, c, Searched
<1> QED
  BY <1>1, <1>8, <1>9, <1>10, <1>11, <1>12 DEF StagingInv, Placed, StagesNested

\* The report closes a command whose spaces are nested.
LEMMA WriteReportInv ==
  ASSUME StagingInv, WriteReport PROVE StagingInv'
<1>1. /\ pc = "report" /\ pc' = "down" /\ cmd' = None /\ stage' = 0 /\ exit' = "ok"
      /\ report' = [s \in Visible |-> Len(spaces[s])]
      /\ UNCHANGED << manifest, spaces, begun, runs >>
  BY DEF WriteReport, Down
<1>2. /\ cmd \in Commands /\ cmd.plan \in Seq(Spaces) /\ Len(cmd.plan) \in 1 .. 3
      /\ \A i \in 1 .. Len(cmd.plan) : cmd.plan[i] = Order[i] /\ Order[i] \in Searched
      /\ (cmd.derive => Len(cmd.plan) = 3)
  BY <1>1, PlanShape DEF StagingInv, TypeOK
<1>3. PICK n \in 1 .. 3 : n = Len(cmd.plan)
  BY <1>2
<1>4. /\ Visible = {Order[i] : i \in 1 .. n} \cup (IF cmd.derive THEN {"d"} ELSE {})
      /\ Visible \subseteq Spaces
  <2>1. DOMAIN cmd.plan = 1 .. n
    BY <1>2, <1>3
  <2>2. {cmd.plan[i] : i \in DOMAIN cmd.plan} = {Order[i] : i \in 1 .. n}
    BY <1>2, <1>3, <2>1
  <2>3. \A i \in 1 .. n : Order[i] \in Spaces
    BY DEF Spaces
  <2> QED
    BY <2>2, <2>3, SpacesAre DEF Visible
<1>5. TypeOK'
  <2>1. report' \in [Visible -> Nat]
    <3>1. \A s \in Visible : Len(spaces[s]) \in Nat
      BY <1>4 DEF StagingInv, TypeOK
    <3> QED
      BY <1>1, <3>1
  <2>2. \E S \in SUBSET Spaces : report' \in [S -> Nat]
    BY <1>4, <2>1
  <2> QED
    BY <1>1, <2>2 DEF StagingInv, TypeOK
<1>6. SpacesDistinct' /\ Marked'
  BY <1>1, SpacesKept, NoFileAssumption DEF StagingInv, Marked, Working
<1>7. StagesNested'
  <2>1. DOMAIN report' = Visible
    BY <1>1
  <2>2. ASSUME NEW i \in 1 .. 2, Order[i + 1] \in Visible
        PROVE  KeysIn(Order[i]) \subseteq KeysIn(Order[i + 1])
    <3>1. i + 1 <= n
      BY <1>4, <2>2 DEF Order
    <3>2. Reached = n
      BY <1>1, <1>3 DEF Reached
    <3> QED
      BY <1>1, <3>1, <3>2 DEF StagingInv, Nested, Working
  <2>3. "d" \in Visible => cmd.derive
    BY <1>4 DEF Order
  <2>4. "d" \in Visible => spaces["d"] = spaces["c"]
    BY <1>1, <2>3 DEF StagingInv, Derived
  <2>5. \A i \in 1 .. 2 : KeysIn(Order[i])' = KeysIn(Order[i])
                          /\ KeysIn(Order[i + 1])' = KeysIn(Order[i + 1])
    BY <1>1, SearchedKept
  <2> QED
    BY <1>1, <2>1, <2>2, <2>4, <2>5 DEF StagesNested
<1> QED
  BY <1>1, <1>5, <1>6, <1>7 DEF StagingInv, Placed, Nested, Derived, Working

LEMMA KillInv ==
  ASSUME StagingInv, Kill PROVE StagingInv' /\ KeptHere
<1>1. /\ pc # "down" /\ pc' = "down" /\ cmd' = None /\ stage' = 0 /\ exit' = "killed"
      /\ UNCHANGED << begun, runs >>
  BY DEF Kill, Down
<1>2. /\ spaces' \in [Spaces -> Seq(Trace)] /\ SpacesDistinct' /\ KeptHere
      /\ spaces' # spaces => manifest' = manifest /\ pc \in {"import", "derive"}
  <2>1. CASE UNCHANGED spaces
    BY <2>1, SpacesKept DEF StagingInv, TypeOK, KeptHere
  <2>2. CASE /\ pc = "import" /\ manifest' = manifest
             /\ \E i \in DOMAIN Source : NextMissing(i) /\ AddedTo(Here, Half(Source[i]))
    <3>1. PICK k \in DOMAIN Source : NextMissing(k) /\ AddedTo(Here, Half(Source[k]))
      BY <2>2
    <3>2. Source \in Seq(Trace)
      BY <2>2, StageShape DEF StagingInv, TypeOK
    <3>3. Source[k] \in Trace
      BY <3>1, <3>2
    <3>4. Half(Source[k]) \in Trace /\ Half(Source[k]).key = Source[k].key
      BY <3>3 DEF Half, Trace
    <3>5. PICK t \in Trace : t = Half(Source[k])
      BY <3>4
    <3>6. t.key \notin KeysIn(Here) /\ AddedTo(Here, t)
      BY <3>1, <3>4, <3>5 DEF NextMissing, Missing
    <3> QED
      BY <2>2, <3>6, StageGrows
  <2>3. CASE /\ pc = "derive" /\ stage <= Len(spaces["c"]) /\ manifest' = manifest
             /\ spaces' = Overwritten(stage, Half(spaces["c"][stage]))
    <3>1. /\ stage \in Nat \ {0} /\ stage <= Len(spaces["d"]) + 1
          /\ spaces["c"][stage] \in Trace
      BY <2>3, DerivedSoFar
    <3>2. Half(spaces["c"][stage]) \in Trace
      BY <3>1 DEF Half, Trace
    <3>3. TypeOK
      BY DEF StagingInv
    <3>4. /\ spaces' \in [Spaces -> Seq(Trace)]
          /\ \A s \in Searched : spaces'[s] = spaces[s]
      BY <2>3, <3>1, <3>2, <3>3, OverwrittenShape
    <3> QED
      BY <2>3, <3>4, SearchedKept DEF StagingInv
  <2> QED
    BY <2>1, <2>2, <2>3 DEF Kill, AddedTo
<1>3. manifest' \in Manifest \cup {None, Torn} /\ (manifest' = manifest \/ manifest' = Torn)
  BY DEF Kill, StagingInv, TypeOK
<1>4. report' = report \/ report' = Torn
  BY DEF Kill
<1>5. TypeOK'
  BY <1>1, <1>2, <1>3, <1>4 DEF StagingInv, TypeOK
<1>6. Marked'
  <2>1. CASE spaces' = spaces
    BY <1>1, <1>3, <2>1, SpacesKept, NoFileAssumption DEF StagingInv, Marked, Working
  <2>2. CASE spaces' # spaces
    BY <1>1, <1>2, <2>2, NoFileAssumption DEF StagingInv, Marked, Working
  <2> QED
    BY <2>1, <2>2
<1> QED
  BY <1>1, <1>2, <1>5, <1>6 DEF StagingInv, Placed, Nested, Derived, StagesNested, Working

\* What a migration clears is of the earlier version.
LEMMA ClearKeeps ==
  ASSUME StagingInv, ClearSpace PROVE KeptHere
BY DEF StagingInv, Marked, ClearSpace, OnlyOld, KeptHere

LEMMA NextInv ==
  ASSUME StagingInv, [Next]_vars PROVE StagingInv' /\ KeptHere
<1>1. CASE UNCHANGED vars
  <2>1. UNCHANGED << manifest, spaces, begun, report, pc, cmd, stage, exit, runs >>
    BY <1>1 DEF vars, disk
  <2>2. KeptHere /\ (\A i \in 1 .. 2 : KeysIn(Order[i])' = KeysIn(Order[i])
                              /\ KeysIn(Order[i + 1])' = KeysIn(Order[i + 1]))
    BY <2>1, SearchedKept
  <2>3. TypeOK' /\ Placed' /\ SpacesDistinct' /\ Marked' /\ Derived'
    BY <2>1, SpacesKept DEF StagingInv, TypeOK, Placed, Marked, Derived, Working
  <2>4. Nested' /\ StagesNested'
    BY <2>1, <2>2 DEF StagingInv, Nested, Reached, StagesNested, Working
  <2> QED
    BY <2>2, <2>3, <2>4 DEF StagingInv
<1>2. CASE Next
  <2>1. ASSUME NEW c \in Commands, RefuseRoot(c) \/ BeginCommand(c)
        PROVE  StagingInv' /\ spaces' = spaces
    BY <2>1, RefuseRootInv, BeginCommandInv DEF RefuseRoot, BeginCommand, disk
  <2>2. ASSUME ClearReport \/ WriteManifest \/ RefuseStage \/ EnterStage \/ ImportDone
        PROVE  StagingInv' /\ spaces' = spaces
    BY <2>2, ClearReportInv, WriteManifestInv, RefuseStageInv, EnterStageInv, ImportDoneInv
       DEF ClearReport, WriteManifest, RefuseStage, EnterStage, ImportDone, disk
  <2>3. ASSUME OpenSearch \/ EndStage \/ RefuseDerive \/ EnterDerive \/ WriteReport
        PROVE  StagingInv' /\ spaces' = spaces
    BY <2>3, OpenSearchInv, EndStageInv, RefuseDeriveInv, EnterDeriveInv, WriteReportInv
       DEF OpenSearch, EndStage, RefuseDerive, EnterDerive, WriteReport, disk
  <2>4. ASSUME NEW k \in Keys, FindTrace(k) PROVE StagingInv' /\ KeptHere
    BY <2>4, FindTraceInv
  <2>5. ASSUME ClearSpace \/ ImportTrace \/ DeriveTrace \/ DeriveDone \/ Kill
        PROVE  StagingInv' /\ KeptHere
    BY <2>5, ClearSpaceInv, ClearKeeps, ImportTraceInv, DeriveTraceInv, DeriveDoneInv, KillInv
  <2>6. spaces' = spaces => KeptHere
    BY SearchedKept
  <2> QED
    BY <1>2, <2>1, <2>2, <2>3, <2>4, <2>5, <2>6 DEF Next
<1> QED
  BY <1>1, <1>2

-----------------------------------------------------------------------------
LEMMA StagingInvAlways == Spec => []StagingInv
<1>1. StagingInv /\ [Next]_vars => StagingInv'
  BY NextInv
<1> QED
  BY InitInv, <1>1, PTL DEF Spec

\* The output root, the running command and its place are what they are typed
\* to be, however the commands before it ended.
THEOREM TypeCorrect == Spec => []TypeOK
<1>1. StagingInv => TypeOK
  BY DEF StagingInv
<1> QED
  BY StagingInvAlways, <1>1, PTL

\* The spaces a command searched and its report names hold all of their
\* predecessor, and d is c trace by trace: also when commands before it were
\* killed while they imported or derived, or asked for more traces.
THEOREM ReportedStagesNest == Spec => []StagesNested
<1>1. StagingInv => StagesNested
  BY DEF StagingInv
<1> QED
  BY StagingInvAlways, <1>1, PTL

\* Imports and searches of any number of commands never put a mapping into a
\* searched space twice (_import_missing_predecessor_traces).
THEOREM NothingImportedTwice == Spec => []SpacesDistinct
<1>1. StagingInv => SpacesDistinct
  BY DEF StagingInv
<1> QED
  BY StagingInvAlways, <1>1, PTL

\* No step removes or replaces a trace this version has found: a root with new
\* traces never looks like one of the earlier version (_is_legacy_output_root).
THEOREM MigrationKeepsWork == Spec => WorkKept
<1>1. StagingInv /\ [Next]_vars =>
        [\A s \in Searched : \A i \in DOMAIN spaces[s] :
           ~spaces[s][i].old => i \in DOMAIN spaces'[s] /\ spaces'[s][i] = spaces[s][i]]_disk
  BY NextInv DEF KeptHere
<1> QED
  BY StagingInvAlways, <1>1, PTL DEF Spec, WorkKept
=============================================================================
