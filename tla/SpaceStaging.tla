---------------------------- MODULE SpaceStaging ----------------------------
(***************************************************************************)
(* One output root of the staged workload-space search                     *)
(* (cli/run_workload_space_random_search.py).  A command searches the      *)
(* spaces a, b, c one after another, each starting from a copy of the      *)
(* traces of its predecessor (the spaces are unions: a within b within c), *)
(* and may derive d from c.  Before the first search it migrates the       *)
(* output of an earlier version of the program and writes manifest.json,   *)
(* which later commands compare with their own configuration.              *)
(*                                                                         *)
(* The search of one space is the subject of SearchStore and PoolSearch;   *)
(* here it finds any mapping it does not have yet, or gives up.  The files *)
(* this module's own code writes (manifest, imported and derived traces,   *)
(* the report) are written in place: a kill may leave half of one.         *)
(*                                                                         *)
(* The direct modes, which search c or d alone, are left out.              *)
(***************************************************************************)
EXTENDS Naturals, Sequences

CONSTANTS
  Keys,        \* dedup keys of mappings
  Configs,     \* values of the fields the manifest is compared by
  Commands,    \* the commands that may be given
  OldRoots,    \* what the output root may hold before the first command
  TornWrites,  \* TRUE: a kill may leave half of a file written in place
  MaxRuns,     \* bound on the commands
  None,        \* the file does not exist
  Torn         \* the file holds half of its text

Order == << "a", "b", "c", "d" >>
Spaces == {Order[i] : i \in 1 .. 4}

Manifest == [legacy : BOOLEAN, config : Configs]

\* old: the trace was found by the earlier version of the program.
Trace == [key : Keys, config : Configs, old : BOOLEAN, whole : BOOLEAN]

Command == [config : Configs, want : Nat \ {0}, resume : BOOLEAN,
            plan : Seq(Spaces), derive : BOOLEAN]   \* derive: d from c, at the end

\* The stages searched for the requested spaces (plan_search_space_execution).
StagedPlan(requested) ==
  SubSeq(<< "a", "b", "c" >>, 1,
         IF requested \cap {"c", "d"} # {} THEN 3 ELSE IF "b" \in requested THEN 2 ELSE 1)

\* The spaces a command may search; d is only derived.
Searched == {"a", "b", "c"}

\* No mapping is in a space twice.
Distinct(space) == \A i, j \in DOMAIN space : space[i].key = space[j].key => i = j

ASSUME CommandsAssumption ==
  /\ Commands \subseteq Command
  /\ \A c \in Commands : \E requested \in SUBSET Spaces \ {{}} :
       c.plan = StagedPlan(requested) /\ c.derive = ("d" \in requested)

\* What an earlier version leaves is marked as its own.
ASSUME OldRootsAssumption ==
  \A old \in OldRoots :
    /\ old.manifest \in {m \in Manifest : m.legacy} \cup {None, Torn}
    /\ old.spaces \in [Spaces -> Seq({t \in Trace : t.old})]
    /\ \A s \in Searched : Distinct(old.spaces[s])

ASSUME MaxRunsAssumption == MaxRuns \in Nat
ASSUME NoFileAssumption == None \notin Manifest /\ Torn \notin Manifest /\ Torn # None

VARIABLES
  manifest,  \* manifest.json
  spaces,    \* per space, the traces in its directory, in index order
  begun,     \* spaces holding a state, journal or summary file
  report,    \* summary.json of the root: traces per visible space
  pc, cmd,   \* the step of the running command, and the command
  stage,     \* its position in the plan; when it derives, in the traces of c
  exit,      \* how the last command ended
  runs       \* commands so far

disk == << manifest, spaces, begun, report >>
vars == << disk, pc, cmd, stage, exit, runs >>

Steps == {"clear", "manifest", "enter", "import", "open", "search", "derive", "report"}

TypeOK ==
  /\ manifest \in Manifest \cup {None, Torn}
  /\ spaces \in [Spaces -> Seq(Trace)]
  /\ begun \subseteq Spaces
  /\ report \in {None, Torn} \/ \E S \in SUBSET Spaces : report \in [S -> Nat]
  /\ pc \in Steps \cup {"down"}
  /\ cmd \in (IF pc = "down" THEN {None} ELSE Commands)
  /\ pc \in {"import", "open", "search"} => stage \in DOMAIN cmd.plan
  /\ pc = "derive" => cmd.derive /\ stage \in 1 .. Len(spaces["c"]) + 1
  /\ exit \in {"none", "ok", "refused", "killed"}
  /\ runs \in 0 .. MaxRuns

Init ==
  /\ \E old \in OldRoots : manifest = old.manifest /\ spaces = old.spaces
  /\ begun = {s \in Spaces : spaces[s] # << >>}
  /\ report = None
  /\ pc = "down" /\ cmd = None /\ stage = 0
  /\ exit = "none" /\ runs = 0

-----------------------------------------------------------------------------
KeysIn(s) == {spaces[s][i].key : i \in DOMAIN spaces[s]}

HasArtifacts(s) == spaces[s] # << >> \/ s \in begun

HasTorn(s) == \E i \in DOMAIN spaces[s] : ~spaces[s][i].whole

Down(how) ==
  /\ pc' = "down" /\ cmd' = None /\ stage' = 0
  /\ exit' = how

Goto(step, position) ==
  /\ pc' = step
  /\ stage' = position
  /\ UNCHANGED << cmd, exit, runs >>

Stay == UNCHANGED << pc, cmd, stage, exit, runs >>

-----------------------------------------------------------------------------
(* Preparing the root (_prepare_output_dir_for_run).                       *)

Unreadable(c) == c.resume /\ manifest = Torn

Incompatible(c) ==
  /\ c.resume /\ manifest \in Manifest
  /\ ~manifest.legacy
  /\ manifest.config # c.config

\* Output without a manifest, or with one of the earlier version.
LegacyRoot ==
  \/ manifest = None /\ \E s \in Spaces : HasArtifacts(s)
  \/ manifest \in Manifest /\ manifest.legacy

\* The command raises before it has written anything.
RefuseRoot(c) ==
  /\ pc = "down" /\ runs < MaxRuns
  /\ Unreadable(c) \/ Incompatible(c)
  /\ runs' = runs + 1
  /\ exit' = "refused"
  /\ UNCHANGED << disk, pc, cmd, stage >>

BeginCommand(c) ==
  /\ pc = "down" /\ runs < MaxRuns
  /\ ~Unreadable(c) /\ ~Incompatible(c)
  /\ runs' = runs + 1
  /\ cmd' = c
  /\ pc' = IF c.resume /\ LegacyRoot THEN "clear" ELSE "manifest"
  /\ UNCHANGED << disk, stage, exit >>

\* The traces of a survive a migration when the old manifest matches.
KeepsA == manifest # None /\ manifest.config = cmd.config

ToClear(s) == IF s = "a" /\ KeepsA THEN s \in begun ELSE HasArtifacts(s)

\* The directories are emptied in their order.  (A kill in the middle of one
\* leaves the manifest as it was, so that the next command empties the rest.)
ClearSpace ==
  /\ pc = "clear"
  /\ \E i \in 1 .. 4 :
       /\ ToClear(Order[i])
       /\ \A j \in 1 .. i - 1 : ~ToClear(Order[j])
       /\ spaces' = IF Order[i] = "a" /\ KeepsA THEN spaces
                    ELSE [spaces EXCEPT ![Order[i]] = << >>]
       /\ begun' = begun \ {Order[i]}
  /\ UNCHANGED << manifest, report >> /\ Stay

ClearReport ==
  /\ pc = "clear"
  /\ \A s \in Spaces : ~ToClear(s)
  /\ report' = None
  /\ UNCHANGED << manifest, spaces, begun >> /\ Goto("manifest", 0)

\* Variant: the manifest is left to the end of the run.
WriteManifestLater ==
  /\ pc = "manifest"
  /\ UNCHANGED disk /\ Goto("enter", 1)

WriteManifest ==
  /\ pc = "manifest"
  /\ manifest' = [legacy |-> FALSE, config |-> cmd.config]
  /\ UNCHANGED << spaces, begun, report >> /\ Goto("enter", 1)

-----------------------------------------------------------------------------
(* One stage: import what the predecessor has, then search.                *)

Here == cmd.plan[stage]

Source == IF stage = 1 THEN << >> ELSE spaces[cmd.plan[stage - 1]]

\* Variant: what the source has beyond the number of traces already here.
MissingByIndex == {i \in DOMAIN Source : i > Len(spaces[Here])}

\* The traces of the source that are not here yet, by their number.
Missing == {i \in DOMAIN Source : Source[i].key \notin KeysIn(Here)}

NextMissing(i) == i \in Missing /\ \A j \in Missing : i <= j

\* --no-resume wants an empty directory; a trace that cannot be parsed makes
\* whoever reads it raise.
StageRefused == (~cmd.resume /\ HasArtifacts(Here)) \/ HasTorn(Here)

\* The import looks at the directory when it has something to import, the
\* search always does: at what the import has written as well.
RefuseStage ==
  /\ pc \in {"enter", "open"} /\ stage <= Len(cmd.plan)
  /\ pc = "enter" => Source # << >>
  /\ StageRefused
  /\ UNCHANGED << disk, runs >> /\ Down("refused")

EnterStage ==
  /\ pc = "enter" /\ stage <= Len(cmd.plan)
  /\ IF Source = << >> THEN Goto("open", stage)
     ELSE ~StageRefused /\ Goto("import", stage)
  /\ UNCHANGED disk

ImportTrace ==
  /\ pc = "import"
  /\ \E i \in DOMAIN Source :
       /\ NextMissing(i)
       /\ spaces' = [spaces EXCEPT ![Here] = Append(@, Source[i])]
  /\ UNCHANGED << manifest, begun, report >> /\ Stay

ImportDone ==
  /\ pc = "import"
  /\ Missing = {}
  /\ UNCHANGED disk /\ Goto("open", stage)

OpenSearch ==
  /\ pc = "open"
  /\ ~StageRefused
  /\ UNCHANGED disk /\ Goto("search", stage)

\* Every stage is to hold `want` traces more than the one before.
StageTarget == cmd.want * stage

FindTrace(k) ==
  /\ pc = "search"
  /\ Len(spaces[Here]) < StageTarget
  /\ k \notin KeysIn(Here)
  /\ spaces' = [spaces EXCEPT ![Here] = Append(@,
                  [key |-> k, config |-> cmd.config, old |-> FALSE, whole |-> TRUE])]
  /\ UNCHANGED << manifest, begun, report >> /\ Stay

\* The target is reached or the attempt budget is spent; state and summary of
\* the space are written.
EndStage ==
  /\ pc = "search"
  /\ begun' = begun \cup {Here}
  /\ UNCHANGED << manifest, spaces, report >>
  /\ IF stage < Len(cmd.plan) \/ cmd.derive THEN Goto("enter", stage + 1)
     ELSE Goto("report", 0)

-----------------------------------------------------------------------------
(* Deriving d from c (_derive_space_d_from_c).                             *)

\* --no-resume wants d empty too: a killed migration may have left it.
DeriveRefused == ~cmd.resume /\ HasArtifacts("d")

RefuseDerive ==
  /\ pc = "enter" /\ stage > Len(cmd.plan)
  /\ DeriveRefused
  /\ UNCHANGED << disk, runs >> /\ Down("refused")

EnterDerive ==
  /\ pc = "enter" /\ stage > Len(cmd.plan)
  /\ ~DeriveRefused
  /\ UNCHANGED disk /\ Goto("derive", 1)

\* The file of d with number i is overwritten.
Overwritten(i, trace) ==
  [spaces EXCEPT !["d"] = IF i <= Len(@) THEN [@ EXCEPT ![i] = trace] ELSE Append(@, trace)]

DeriveTrace ==
  /\ pc = "derive"
  /\ stage <= Len(spaces["c"])
  /\ spaces' = Overwritten(stage, spaces["c"][stage])
  /\ UNCHANGED << manifest, begun, report >> /\ Goto("derive", stage + 1)

\* Files of d that c does not have are removed.
DeriveDone ==
  /\ pc = "derive"
  /\ stage > Len(spaces["c"])
  /\ spaces' = [spaces EXCEPT !["d"] = SubSeq(@, 1, Len(spaces["c"]))]
  /\ begun' = begun \cup {"d"}
  /\ UNCHANGED << manifest, report >> /\ Goto("report", 0)

Visible == {cmd.plan[i] : i \in DOMAIN cmd.plan} \cup (IF cmd.derive THEN {"d"} ELSE {})

WriteReport ==
  /\ pc = "report"
  /\ report' = [s \in Visible |-> Len(spaces[s])]
  /\ UNCHANGED << manifest, spaces, begun, runs >> /\ Down("ok")

-----------------------------------------------------------------------------
\* The command dies, perhaps in the middle of a file written in place.
Half(trace) == [trace EXCEPT !.whole = FALSE]

Kill ==
  /\ pc # "down"
  /\ \/ UNCHANGED << manifest, spaces, report >>
     \/ /\ TornWrites /\ pc = "manifest"
        /\ manifest' = Torn
        /\ UNCHANGED << spaces, report >>
     \/ /\ TornWrites /\ pc = "import"
        /\ \E i \in DOMAIN Source :
             /\ NextMissing(i)
             /\ spaces' = [spaces EXCEPT ![Here] = Append(@, Half(Source[i]))]
        /\ UNCHANGED << manifest, report >>
     \/ /\ TornWrites /\ pc = "derive" /\ stage <= Len(spaces["c"])
        /\ spaces' = Overwritten(stage, Half(spaces["c"][stage]))
        /\ UNCHANGED << manifest, report >>
     \/ /\ TornWrites /\ pc = "report"
        /\ report' = Torn
        /\ UNCHANGED << manifest, spaces >>
  /\ UNCHANGED << begun, runs >> /\ Down("killed")

Next ==
  \/ \E c \in Commands : RefuseRoot(c) \/ BeginCommand(c)
  \/ ClearSpace \/ ClearReport \/ WriteManifest
  \/ RefuseStage \/ EnterStage \/ ImportTrace \/ ImportDone
  \/ OpenSearch \/ (\E k \in Keys : FindTrace(k)) \/ EndStage
  \/ RefuseDerive \/ EnterDerive \/ DeriveTrace \/ DeriveDone
  \/ WriteReport \/ Kill

Spec == Init /\ [][Next]_vars

-----------------------------------------------------------------------------
\* What a finished command reports is a chain of unions: every space holds
\* the traces of its predecessor, whatever was killed or extended before, and
\* d is c trace by trace.
StagesNested ==
  pc = "down" /\ exit = "ok" =>
    /\ \A i \in 1 .. 2 :
         Order[i] \in DOMAIN report /\ Order[i + 1] \in DOMAIN report
           => KeysIn(Order[i]) \subseteq KeysIn(Order[i + 1])
    /\ {"c", "d"} \subseteq DOMAIN report => spaces["d"] = spaces["c"]

\* No mapping is in a searched space twice, although imports and searches of
\* several commands add to it in turn.
SpacesDistinct == \A s \in Searched : Distinct(spaces[s])

\* A trace this version has found is never removed or replaced: the migration
\* never takes the output of a killed run for that of the earlier version.
WorkKept ==
  [][\A s \in Searched : \A i \in DOMAIN spaces[s] :
       ~spaces[s][i].old => i \in DOMAIN spaces'[s] /\ spaces'[s][i] = spaces[s][i]]_disk

=============================================================================
