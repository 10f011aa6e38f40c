---------------------------- MODULE MCAlgorithms ----------------------------
(***************************************************************************)
(* The three algorithms on graphs, one after the other: each one on all of *)
(* its inputs while the others have next to nothing to do.                 *)
(***************************************************************************)
EXTENDS CycleCheck, FailFastCascade, SnapshotContents

CONSTANTS a, b, c, d, e, x, y, z, p, q

(* A TestGraph with a diamond, a chain and an edge without failFast.       *)
Diamond == [s \in Scenarios |-> CASE s = a -> {}
                                  [] s = b -> {a}
                                  [] s = c -> {a}
                                  [] s = d -> {b, c}
                                  [] s = e -> {c, d}]

DiamondFailFast == {<<b, a>>, <<c, a>>, <<d, b>>, <<e, c>>, <<e, d>>}

Detail(v) == [status |-> v, plr |-> NoPlr, by |-> "integrationpipeline"]

SomeDetails == {Absent, Detail("Pending"), Detail("TestPassed"), Detail("TestFail")}

(* Nestings with up to four edges of the groups, or with a missing group.  *)
Few(S) == {<<>>} \cup {<<g>> : g \in S} \cup {t \in S \X S : t[1] # t[2]}

Edges(f) == Len(f[Root]) + Len(f[x]) + Len(f[y]) + Len(f[z])

SomeNestings ==
  {f \in [Groups -> Few(Groups)] :
     /\ Edges(f) <= 4
     /\ \A g \in Groups : \A i \in 1..Len(f[g]) : f[g][i] # g
     /\ \A g \in {x, y, z} : f[g] # <<>> => \E h \in Groups : g \in {f[h][i] : i \in 1..Len(f[h])}}
  \cup {[g \in Groups |-> CASE g = Root -> <<x, y>> [] g = h -> <<z, Gone>> [] OTHER -> <<>>] :
          h \in {x, y}}

SomeLists ==
  {[g \in Groups |-> [k \in Parts |-> IF k = p THEN f[g] ELSE IF g = x THEN "bad" ELSE "removed"]] :
     f \in [Groups -> {"bad", "good"}]}

From(kind, changed, image) ==
  [kind |-> kind, changed |-> changed, image |-> [k \in Parts |-> image]]

Unchanged == From("group", {}, "no")

SomeOrigins ==
  {Unchanged, From("build", {q}, "good"), From("build", {q}, "bad"),
   From("application", {p}, "good"), From("component", {p}, "no"), From("override", {}, "bad")}

-----------------------------------------------------------------------------
CheckIdle == keys = {}
LoopsIdle == before = [s \in Scenarios |-> IF s = a THEN Detail("TestPassed") ELSE Absent]
ContentsIdle ==
  /\ nested = [g \in Groups |-> <<>>]
  /\ lists = [g \in Groups |-> [k \in Parts |-> IF k = q /\ g # x THEN "removed" ELSE "bad"]]
  /\ origin = Unchanged

(* Large nestings are collected without a new image only.                  *)
ContentsBusy == Edges(nested) > 2 => origin = Unchanged

MCInit ==
  \/ CheckIdle /\ LoopsIdle /\ CheckInit /\ LoopsInit /\ ContentsInit /\ ContentsBusy
  \/ CheckIdle /\ ContentsIdle /\ CheckInit /\ LoopsInit /\ ContentsInit
  \/ LoopsIdle /\ ContentsIdle /\ CheckInit /\ LoopsInit /\ ContentsInit

MCNext ==
  \/ CheckNext /\ UNCHANGED <<loopsVars, contentsVars>>
  \/ pc = "done" /\ ContentsNext /\ UNCHANGED <<checkVars, loopsVars>>
  \/ pc = "done" /\ Ended /\ LoopsNext /\ UNCHANGED <<checkVars, contentsVars>>

MCFairSpec ==
  /\ MCInit /\ [][MCNext]_<<checkVars, loopsVars, contentsVars>>
  /\ WF_<<checkVars, loopsVars, contentsVars>>(MCNext)

(* Each algorithm ends on every input: the search of checkGraphForCycles   *)
(* and its walk back along the parents, the work list of                   *)
(* CascadeFailFastDependents, and the recursion into nested groups, also   *)
(* when they are nested in a circle.                                       *)
AllEnd == <>(pc = "done" /\ Ended /\ LoopsDone)
=============================================================================
