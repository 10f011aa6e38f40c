------------------------- MODULE BuildPromotionProofs ------------------------
(***************************************************************************)
(* The newest build of a component is the promoted one: in the lists of    *)
(* the groups (UpdateGCLForBuildPLR) and in the Component of an            *)
(* Application, for caches without lag.                                    *)
(***************************************************************************)
EXTENDS BuildProofs

-----------------------------------------------------------------------------
(* Promotion in groups *)

(* Every candidate of the list old is in the list new, and no older there, *)
(* as long as the component is in S.                                       *)
NotOlder(old, new, S) ==
  \A c \in S \cap DOMAIN old : c \in DOMAIN new /\ old[c].time <= new[c].time

(* Without edits the times of a candidate only grow: a copy is never ahead.*)
CopiesBehind ==
  \A w \in Writers, g \in Groups : NotOlder(view[w][g].list, group[g].list, group[g].spec)

(* Being not older is a preorder of candidate lists.                       *)
LEMMA NotOlderOrder ==
  ASSUME NEW a \in CandidateLists, NEW b \in CandidateLists, NEW c \in CandidateLists, NEW S
  PROVE  /\ NotOlder(a, a, S)
         /\ NotOlder(a, b, S) /\ NotOlder(b, c, S) => NotOlder(a, c, S)
  <1>1. \A l \in CandidateLists : \A x \in DOMAIN l : l[x].time \in Nat
    BY ListAssumption DEF CandidateLists, ComponentState
  <1>2. NotOlder(a, a, S)
    BY <1>1 DEF NotOlder
  <1>3. ASSUME NotOlder(a, b, S), NotOlder(b, c, S), NEW x \in S \cap DOMAIN a
        PROVE  x \in DOMAIN c /\ a[x].time <= c[x].time
    <2>1. x \in DOMAIN b /\ a[x].time <= b[x].time
      BY <1>3 DEF NotOlder
    <2>2. x \in DOMAIN c /\ b[x].time <= c[x].time
      BY <1>3, <2>1 DEF NotOlder
    <2>3. a[x].time \in Nat /\ b[x].time \in Nat /\ c[x].time \in Nat
      BY <1>1, <2>1, <2>2
    <2> QED BY <2>1, <2>2, <2>3
  <1> QED BY <1>2, <1>3 DEF NotOlder

(* A patch with a list that is not older than the current one.             *)
LEMMA PatchGrows ==
  ASSUME ListTypeOK, SpecsAgree, CopiesBehind, NEW w \in Writers, NEW g \in Groups,
         NEW list \in CandidateLists, NotOlder(group[g].list, list, group[g].spec),
         PatchList(w, g, list)
  PROVE  CopiesBehind' /\ \A h \in Groups : NotOlder(group[h].list, group'[h].list, group[h].spec)
  <1>a. \A h \in Groups : group[h].list \in CandidateLists
    BY DEF ListTypeOK, ComponentGroups
  <1>b. \A v \in Writers, h \in Groups : view[v][h].list \in CandidateLists
    BY DEF ListTypeOK, ComponentGroups
  <1>1. CASE UNCHANGED <<group, view, fresh>>
    BY <1>1, <1>a, NotOlderOrder DEF CopiesBehind
  <1>2. CASE NewVersion(w, g, [group[g] EXCEPT !.list = list])
    <2> DEFINE new == [group[g] EXCEPT !.list = list]
    <2>1. new.spec = group[g].spec /\ new.list = list
      BY DEF ListTypeOK, ComponentGroups
    <2>2. NewVersion(w, g, new)
      BY <1>2
    <2> HIDE DEF new
    <2>3. \A h \in Groups : group'[h] = IF h = g THEN new ELSE group[h]
      BY <2>2 DEF NewVersion, ListTypeOK
    <2>4. \A v \in Writers, h \in Groups : view'[v][h] = IF v = w /\ h = g THEN new ELSE view[v][h]
      BY <2>2 DEF NewVersion, ListTypeOK
    <2>5. \A h \in Groups : NotOlder(group[h].list, group'[h].list, group[h].spec)
      BY <1>a, <2>1, <2>3, NotOlderOrder
    <2>6. ASSUME NEW v \in Writers, NEW h \in Groups
          PROVE  NotOlder(view'[v][h].list, group'[h].list, group'[h].spec)
      <3>1. group'[h].spec = group[h].spec /\ group'[h].list \in CandidateLists
        BY <1>a, <2>1, <2>3
      <3>2. CASE v = w /\ h = g
        BY <2>1, <2>3, <2>4, <3>2, NotOlderOrder
      <3>3. CASE ~(v = w /\ h = g)
        <4>1. NotOlder(view[v][h].list, group[h].list, group[h].spec)
          BY DEF CopiesBehind
        <4>2. view'[v][h] = view[v][h]
          BY <2>4, <3>3
        <4> QED BY <1>a, <1>b, <2>5, <3>1, <4>1, <4>2, NotOlderOrder
      <3> QED BY <3>2, <3>3
    <2> QED BY <2>5, <2>6 DEF CopiesBehind
  <1> QED BY <1>1, <1>2 DEF PatchList

(* No writer makes a candidate older.                                      *)
LEMMA ListsGrow ==
  ASSUME ListInv, SpecsAgree, CopiesBehind, ListWrites \/ UNCHANGED listVars
  PROVE  CopiesBehind' /\ \A h \in Groups : NotOlder(group[h].list, group'[h].list, group[h].spec)
  <1> DEFINE Goal == /\ CopiesBehind'
                     /\ \A h \in Groups : NotOlder(group[h].list, group'[h].list, group[h].spec)
  <1> SUFFICES Goal
    OBVIOUS
  <1>a. ListTypeOK /\ LockIsEnough
    BY DEF ListInv
  <1>b. \A h \in Groups : group[h].list \in CandidateLists /\ group[h].spec \subseteq Components
    BY <1>a DEF ListTypeOK, ComponentGroups
  <1>c. \A h \in Groups : \A c : c \in DOMAIN group[h].list => group[h].list[c] \in ComponentState
    BY <1>b DEF CandidateLists
  <1>1. CASE UNCHANGED listVars
    BY <1>1, <1>b, NotOlderOrder DEF listVars, CopiesBehind
  <1>2. CASE Restart
    <2>1. view' = [w \in Writers |-> group] /\ group' = group
      BY <1>2 DEF Restart
    <2> QED BY <1>b, <2>1, NotOlderOrder DEF CopiesBehind
  <1>3. ASSUME NEW g \in Groups, NEW w \in Writers, Refresh(w, g) PROVE Goal
    <2>1. \A v \in Writers, h \in Groups :
            view'[v][h] = IF v = w /\ h = g THEN group[h] ELSE view[v][h]
      BY <1>3, <1>a DEF Refresh, ListTypeOK
    <2>2. group' = group
      BY <1>3 DEF Refresh
    <2> QED BY <1>b, <2>1, <2>2, NotOlderOrder DEF CopiesBehind
  <1>4. ASSUME NEW g \in Groups, NEW w \in Writers, NEW list, PatchList(w, g, list)
        PROVE  view[w][g] = group[g]
    BY <1>4, <1>a DEF PatchList, Current, LockIsEnough
  <1>5. ASSUME NEW g \in Groups, Align(g) PROVE Goal
    <2> DEFINE list == AlignedList(view["align"][g])
    <2>1. PatchList("align", g, list) /\ view["align"][g] = group[g]
      BY <1>4, <1>5 DEF Align, Writers
    <2>2. list \in CandidateLists
      BY <1>a, <2>1, AlignedListType DEF ListTypeOK
    <2>3. NotOlder(group[g].list, list, group[g].spec)
      BY <1>c, <2>1, ListAssumption DEF NotOlder, AlignedList, ComponentState
    <2> HIDE DEF list
    <2> QED BY <1>a, <2>1, <2>2, <2>3, PatchGrows DEF Writers
  <1>6. ASSUME NEW g \in Groups, NEW b \in Builds, PromoteBuild(b, g) PROVE Goal
    <2> DEFINE cg == view["build"][g]
               list == [cg.list EXCEPT ![BuildOf[b]] = [image |-> b, time |-> start[b]]]
    <2>1. PatchList("build", g, list) /\ cg = group[g] /\ EntryOutcome(cg, b) = "promoted"
      BY <1>4, <1>6 DEF PromoteBuild, UpdateGCLEntry, Writers
    <2>2. list \in CandidateLists
      BY <1>a, <2>1, PromotedListType, ZenonT(30) DEF ListTypeOK
    <2>3. NotOlder(group[g].list, list, group[g].spec)
      <3>1. /\ BuildOf[b] \in DOMAIN group[g].list /\ ~(start[b] < group[g].list[BuildOf[b]].time)
        BY <2>1 DEF EntryOutcome
      <3>2. start[b] \in Nat /\ \A c \in DOMAIN group[g].list : group[g].list[c].time \in Nat
        BY <1>a, <1>c, ListAssumption DEF ListTypeOK, ComponentState
      <3>3. DOMAIN list = DOMAIN group[g].list
        BY <2>1
      <3>4. ASSUME NEW c \in DOMAIN group[g].list
            PROVE  group[g].list[c].time <= list[c].time
        <4>1. CASE c = BuildOf[b]
          BY <2>1, <3>1, <3>2, <4>1
        <4>2. CASE c # BuildOf[b]
          BY <2>1, <3>2, <4>2
        <4> QED BY <4>1, <4>2
      <3> QED BY <3>3, <3>4 DEF NotOlder
    <2> HIDE DEF list
    <2> QED BY <1>a, <2>1, <2>2, <2>3, PatchGrows DEF Writers
  <1>7. ASSUME NEW g \in Groups, NEW o \in Overrides, NEW S \in SUBSET Components, OverrideList(o, g, S)
        PROVE  Goal
    <2> DEFINE list == OverriddenList(view["override"][g], o, S)
    <2>1. PatchList("override", g, list) /\ view["override"][g] = group[g]
      BY <1>4, <1>7 DEF OverrideList, Writers
    <2>2. list \in CandidateLists
      BY <1>a, <2>1, OverriddenListType, ZenonT(30) DEF ListTypeOK
    <2>3. NotOlder(group[g].list, list, group[g].spec)
      BY <1>c, <2>1, ListAssumption, SMTT(30) DEF NotOlder, OverriddenList, ComponentState
    <2> HIDE DEF list
    <2> QED BY <1>a, <2>1, <2>2, <2>3, PatchGrows DEF Writers
  <1> HIDE DEF Goal
  <1> QED BY <1>1, <1>2, <1>3, <1>5, <1>6, <1>7 DEF ListWrites

(* The candidate of group g is not older than build b.                     *)
Listed(b, g) ==
  BuildOf[b] \in DOMAIN group[g].list /\ start[b] <= group[g].list[BuildOf[b]].time

AllListed == \A b \in Builds : Promoted(b) => \A g \in OwnersOf(b) : Listed(b, g)

(* What UpdateGCLForBuildPLR has done so far: without an error, the groups *)
(* that are not left to do have the build or a newer one.                  *)
Serving ==
  /\ wk.pc # "idle" => OwnersOf(wk.b) \subseteq wk.owners
  /\ wk.pc # "time"
  /\ wk.pc = "finalize" => wk.todo = wk.owners /\ wk.err = "none"
  /\ wk.pc \in {"promote", "mark"} /\ about[wk.b].image # "missing" =>
       /\ wk.pc = "mark" => wk.todo = {}
       /\ wk.err = "none" => \A g \in OwnersOf(wk.b) \ wk.todo : Listed(wk.b, g)

ListedInv ==
  ~edited => /\ SpecsAgree /\ CopiesBehind
             /\ model = "componentgroup" => AllListed /\ Serving

(* A candidate that is not older than a build stays so.                    *)
LEMMA ListedKept ==
  ASSUME BuildInv, SpecsAgree, CopiesBehind, ListWrites \/ UNCHANGED listVars,
         NEW b \in Builds, NEW g \in OwnersOf(b), g \in Groups, model = "componentgroup", Listed(b, g)
  PROVE  Listed(b, g)'
  <1> DEFINE c == BuildOf[b]
  <1>1. start' = start
    BY DEF ListWrites, Restart, Refresh, Align, PromoteBuild, OverrideList, listVars
  <1>2. c \in group[g].spec
    BY DEF OwnersOf, SpecsAgree, Writers
  <1>3. NotOlder(group[g].list, group'[g].list, group[g].spec)
    BY ListsGrow DEF BuildInv
  <1>4. c \in DOMAIN group'[g].list /\ group[g].list[c].time <= group'[g].list[c].time
    BY <1>2, <1>3, ZenonT(30) DEF Listed, NotOlder
  <1>5. ListTypeOK /\ ListTypeOK'
    BY ListStep DEF BuildInv, ListInv, ListWrites, ListNext, TypeOK
  <1>6. group[g].list \in CandidateLists /\ group'[g].list \in CandidateLists
    BY <1>5 DEF ListTypeOK, ComponentGroups
  <1>7. /\ \A x \in DOMAIN group[g].list : group[g].list[x].time \in Nat
        /\ \A x \in DOMAIN group'[g].list : group'[g].list[x].time \in Nat
    BY <1>6, ListAssumption DEF CandidateLists, ComponentState
  <1>8. start[b] \in Nat
    BY <1>5, ListAssumption DEF ListTypeOK
  <1> QED BY <1>1, <1>4, <1>7, <1>8 DEF Listed

(* A step of a reconcile in the group model.                               *)
LEMMA ServingStep ==
  ASSUME BuildInv, SpecsAgree, CopiesBehind, Serving, Step, model = "componentgroup",
         UNCHANGED about,
         \A b \in Builds : OwnersOf(b)' \subseteq OwnersOf(b),
         \A b \in Builds, g \in Groups : g \in OwnersOf(b) /\ Listed(b, g) => Listed(b, g)'
  PROVE  Serving'
  <1>a. TypeOK /\ wk.pc # "idle" /\ wk.b \in Builds /\ OwnersOf(wk.b) \subseteq wk.owners
    BY Zenon DEF BuildInv, TypeOK, Serving, Step, AddFinalizer, PromoteNowhere, PromoteImage, PromoteTime,
           MarkAdded, PromoteInGroup, Decide, AdoptExisting, CreateSnapshot, AnnotateSingle,
           AppendName, FinalAnnotate, RemoveFinalizer
  <1>b. OwnersOf(wk.b)' \subseteq OwnersOf(wk.b) \/ wk'.b # wk.b
    BY <1>a
  <1>c. OwnersOf(wk.b) \subseteq Groups
    BY DEF OwnersOf
  <1>1. ASSUME \/ wk'.pc = "idle"
               \/ /\ wk'.b = wk.b /\ wk'.owners = wk.owners
                  /\ wk'.pc \notin {"time", "finalize", "promote", "mark"}
        PROVE  Serving'
    BY <1>1, <1>a, <1>b DEF Serving
  <1>2. /\ \A again : Return(again) => wk'.pc = "idle"
        /\ Idle.pc = "idle"
        /\ \A new, pc : Annotate(new, pc) =>
             wk'.b = wk.b /\ wk'.owners = wk.owners /\ wk'.pc = pc /\ wk'.todo = wk.todo
               /\ wk'.err = wk.err
        /\ \A remove, err : ToFinal(remove, err) =>
             wk'.b = wk.b /\ wk'.owners = wk.owners /\ wk'.pc = "final"
        /\ \A pc : Goto(pc) => wk'.b = wk.b /\ wk'.owners = wk.owners /\ wk'.pc = pc
                                 /\ wk'.todo = wk.todo /\ wk'.err = wk.err
    BY <1>a, IdleType, ZenonT(30) DEF Return, Annotate, ToFinal, Goto, TypeOK, Reconciles
  <1>3. FailAndReturn \/ FailToFinal \/ GoneToFinal \/ (\E again \in BOOLEAN : NotFound(again))
          => Serving'
    BY <1>1, <1>2, Zenon DEF FailAndReturn, FailToFinal, GoneToFinal, NotFound
  <1>4. ASSUME NEW new, NEW pc, Annotate(new, pc), pc \notin {"time", "finalize", "promote", "mark"}
        PROVE  Serving'
    BY <1>1, <1>2, <1>4
  <1>5. CASE AddFinalizer
    <2> DEFINE p == plr[wk.b]
               new == IF p.deleting THEN p ELSE [p EXCEPT !.finalizer = TRUE]
               pc == AfterFinalize(wk.b, new, wk.last)
    <2>1. Annotate(new, pc) \/ NotFound(FALSE) \/ FailAndReturn
      BY <1>5, Zenon DEF AddFinalizer
    <2>2. pc \in {"promote", "mark", "decide"} /\ (pc = "mark" => about[wk.b].image = "missing")
      BY DEF AfterFinalize
    <2> HIDE DEF new, pc
    <2>3. ASSUME Annotate(new, pc) PROVE Serving'
      <3>1. /\ wk'.b = wk.b /\ wk'.owners = wk.owners /\ wk'.pc = pc /\ wk'.todo = wk.todo
            /\ wk'.err = wk.err
        BY <1>2, <2>3
      <3>2. wk.todo = wk.owners
        BY <1>5, ZenonT(30) DEF AddFinalizer, Serving
      <3> QED BY <1>a, <1>b, <2>2, <3>1, <3>2 DEF Serving
    <2> QED BY <1>3, <2>1, <2>3, ZenonT(30)
  <1>6. CASE PromoteNowhere
    <2>1. wk.pc = "promote" /\ wk.todo = {} /\ Goto("mark")
      BY <1>6 DEF PromoteNowhere
    <2>2. /\ wk'.b = wk.b /\ wk'.owners = wk.owners /\ wk'.pc = "mark" /\ wk'.todo = wk.todo
          /\ wk'.err = wk.err
      BY <1>2, <2>1, ZenonT(30)
    <2>3. wk.err = "none" /\ about[wk.b].image # "missing" =>
            \A g \in OwnersOf(wk.b) \ wk.todo : Listed(wk.b, g)'
      BY <1>a, <1>c, <2>1, <2>2 DEF Serving, Listed
    <2> QED BY <1>a, <1>b, <2>1, <2>2, <2>3 DEF Serving, Listed
  <1>7. CASE PromoteImage \/ PromoteTime
    BY <1>3, <1>7, ZenonT(30) DEF PromoteImage, PromoteTime, Serving
  <1>8. ASSUME NEW g \in Groups, PromoteInGroup(g) PROVE Serving'
    <2>1. /\ wk.pc = "promote" /\ g \in wk.todo
          /\ wk'.b = wk.b /\ wk'.owners = wk.owners /\ wk'.todo = wk.todo \ {g}
          /\ wk'.pc = IF wk.todo = {g} THEN "mark" ELSE "promote"
      BY <1>8, <1>a, ZenonT(30) DEF PromoteInGroup, PromotedOne, TypeOK, Reconciles
    <2>2. \A err : PromotedOne(g, err) => wk'.err = JoinErrors(wk.err, err)
      BY <1>a DEF PromotedOne, TypeOK, Reconciles
    <2>3. \A err \in Errors : JoinErrors(wk.err, err) = "none" => wk.err = "none" /\ err = "none"
      BY DEF JoinErrors
    <2>4. ASSUME wk'.err = "none", g \in OwnersOf(wk.b)
          PROVE  Listed(wk.b, g)'
      <3> DEFINE cg == view["build"][g]
                 c == BuildOf[wk.b]
      <3>1. \/ EntryOutcome(cg, wk.b) = "refused"
            \/ PromoteBuild(wk.b, g)
        BY <1>8, <2>2, <2>3, <2>4, ZenonT(30) DEF PromoteInGroup, Errors
      <3>2. c \in group[g].spec
        BY <2>4 DEF OwnersOf, SpecsAgree, Writers
      <3>3. ListTypeOK /\ cg \in ComponentGroups /\ group[g] \in ComponentGroups /\ start[wk.b] \in Nat
        BY <1>a, StartType, GroupType, Zenon DEF TypeOK
      <3>4. \A l \in CandidateLists : \A x \in DOMAIN l : l[x].time \in Nat
        BY EntryTimeType, ZenonT(30)
      <3>5. cg.list \in CandidateLists /\ group[g].list \in CandidateLists
        BY <3>3, ZenonT(30) DEF ComponentGroups
      <3>6. CASE EntryOutcome(cg, wk.b) = "refused"
        <4>1. c \in DOMAIN cg.list /\ start[wk.b] < cg.list[c].time
          BY <3>6, ZenonT(30) DEF EntryOutcome
        <4>2. c \in DOMAIN group[g].list /\ cg.list[c].time <= group[g].list[c].time
          <5>1. NotOlder(cg.list, group[g].list, group[g].spec)
            BY ZenonT(30) DEF CopiesBehind, Writers
          <5> QED BY <3>2, <4>1, <5>1, Zenon DEF NotOlder
        <4>3. start[wk.b] <= group[g].list[c].time
          <5>1. cg.list[c].time \in Nat /\ group[g].list[c].time \in Nat
            BY <3>4, <3>5, <4>1, <4>2, Zenon
          <5>2. \A i, j, k \in Nat : i < j /\ j <= k => i <= k
            OBVIOUS
          <5> QED BY <3>3, <4>1, <4>2, <5>1, <5>2, Zenon
        <4> QED BY <1>a, <2>1, <2>4, <4>2, <4>3, ZenonT(30) DEF Listed
      <3>7. CASE PromoteBuild(wk.b, g)
        <4> DEFINE list == [cg.list EXCEPT ![c] = [image |-> wk.b, time |-> start[wk.b]]]
        <4>1. /\ EntryOutcome(cg, wk.b) = "promoted" /\ PatchList("build", g, list) /\ start' = start
          BY <3>7, ZenonT(30) DEF PromoteBuild, UpdateGCLEntry
        <4>2. c \in DOMAIN list /\ list[c].time = start[wk.b]
          <5>1. c \in DOMAIN cg.list
            BY <4>1 DEF EntryOutcome
          <5> QED BY <5>1, ZenonT(30)
        <4> HIDE DEF list
        <4>3. group'[g].list = list
          BY <3>3, <4>1 DEF PatchList, NewVersion, ListTypeOK, ComponentGroups
        <4> QED BY <2>1, <3>3, <4>1, <4>2, <4>3, SMTT(30) DEF Listed
      <3> QED BY <3>1, <3>6, <3>7
    <2>5. wk'.err = "none" => wk.err = "none"
      <3>1. \E err \in Errors : PromotedOne(g, err)
        BY <1>8, ZenonT(30) DEF PromoteInGroup, Errors
      <3> QED BY <2>2, <2>3, <3>1, ZenonT(30)
    <2>6. ASSUME wk'.err = "none", about[wk.b].image # "missing", NEW h \in OwnersOf(wk.b) \ wk'.todo
          PROVE  Listed(wk.b, h)'
      BY <1>a, <1>c, <2>1, <2>4, <2>5, <2>6 DEF Serving
    <2> QED BY <1>a, <1>b, <2>1, <2>6 DEF Serving
  <1>9. CASE MarkAdded
    <2>1. Return(TRUE) => Serving'
      BY <1>1, <1>2, ZenonT(30)
    <2>2. \A new : Annotate(new, "decide") => Serving'
      BY <1>4
    <2> QED BY <1>3, <1>9, <2>1, <2>2, ZenonT(30) DEF MarkAdded
  <1>10. CASE Decide
    <2>1. wk'.b = wk.b /\ wk'.owners = wk.owners /\ wk'.pc \in {"final", "existing", "create"}
      BY <1>10, <1>a, ZenonT(30) DEF Decide, ToFinal, TypeOK, Reconciles
    <2> QED BY <1>1, <2>1
  <1>11. ASSUME NEW g \in Owners, AdoptExisting(g) \/ CreateSnapshot(g) PROVE Serving'
    <2>1. CASE FailToFinal
      BY <1>3, <2>1
    <2>2. CASE ~FailToFinal
      <3>1. /\ wk'.b = wk.b /\ wk'.owners = wk.owners
            /\ wk'.pc \in {"annotate", "final", "existing"}
        BY <1>11, <1>a, <2>2, ZenonT(30) DEF AdoptExisting, CreateSnapshot, ToFinal, TypeOK, Reconciles
      <3> QED BY <1>1, <3>1
    <2> QED BY <2>1, <2>2
  <1>12. CASE AnnotateSingle
    BY <1>3, <1>4, <1>12 DEF AnnotateSingle
  <1>13. CASE AppendName
    <2>1. ASSUME NEW new, wk' = [wk EXCEPT !.copy = new, !.pc = AfterAnnotate,
                                           !.remove = @ \/ wk.todo = {}]
          PROVE  Serving'
      <3>1. wk'.b = wk.b /\ wk'.owners = wk.owners /\ wk'.pc \in {"existing", "create", "final"}
        BY <2>1, <1>a DEF AfterAnnotate, TypeOK, Reconciles
      <3> QED BY <1>1, <3>1
    <2> QED BY <1>3, <1>13, <2>1, ZenonT(30) DEF AppendName
  <1>14. CASE FinalAnnotate \/ RemoveFinalizer
    <2>1. wk' = Idle => Serving'
      BY <1>1, <1>2
    <2>2. \A new : Annotate(new, "release") => Serving'
      BY <1>4
    <2> QED BY <1>3, <1>14, <2>1, <2>2, ZenonT(30) DEF FinalAnnotate, RemoveFinalizer
  <1> QED BY <1>5, <1>6, <1>7, <1>8, <1>9, <1>10, <1>11, <1>12, <1>13, <1>14, ZenonT(30) DEF Step

(* Only MarkBuildPLRAsAddedToGlobalCandidateList, after a promotion        *)
(* without an error, makes a build promoted.                               *)
LEMMA OnlyMark ==
  ASSUME TypeOK, [BuildNext]_vars, NEW b \in Builds, Promoted(b)', ~Promoted(b)
  PROVE  wk.pc = "mark" /\ b = wk.b /\ wk.err = "none" /\ about[b].image # "missing"
  <1>1. UNCHANGED about
    BY SettingKept, Zenon
  <1>2. plr'[b].added = "true" /\ plr[b].added # "true" /\ about[b].image # "missing"
    BY <1>1 DEF Promoted
  <1>3. BuildNext
    BY <1>2 DEF vars, buildVars
  <1>4. MarkAdded /\ b = wk.b
    BY <1>2, <1>3, WhoPatches
  <1>5. ASSUME wk.err # "none" PROVE FALSE
    <2>1. \/ UNCHANGED plr
          \/ plr' = [plr EXCEPT ![wk.b] = [plr[wk.b] EXCEPT !.added = "false"]]
      BY <1>4, <1>5, ZenonT(30) DEF MarkAdded, Annotate, Update, NotFound, FailAndReturn
    <2>2. [plr[wk.b] EXCEPT !.added = "false"].added = "false"
      BY <1>4 DEF TypeOK, PipelineRuns
    <2> QED BY <1>2, <1>4, <2>1, <2>2, ZenonT(30) DEF TypeOK
  <1> QED BY <1>2, <1>4, <1>5 DEF MarkAdded

(* Every step keeps that promoted builds are listed in their groups.       *)
LEMMA ListedStep == BuildInv /\ ListedInv /\ [BuildNext]_vars => ListedInv'
  <1> SUFFICES ASSUME BuildInv, ListedInv, [BuildNext]_vars, ~edited'
               PROVE  /\ SpecsAgree' /\ CopiesBehind'
                      /\ model' = "componentgroup" => AllListed' /\ Serving'
    BY DEF ListedInv
  <1>1. /\ UNCHANGED <<model, about>> /\ gone \subseteq gone' /\ ~edited /\ ~Edits
    BY SettingKept, ZenonT(30) DEF BuildInv, TypeOK, Edits
  <1>2. SpecsAgree /\ CopiesBehind /\ TypeOK /\ ListInv
    BY <1>1 DEF ListedInv, BuildInv
  <1>3. ListWrites \/ UNCHANGED listVars
    BY <1>1, <1>2, WritesCompose
  <1>4. SpecsAgree' /\ CopiesBehind'
    BY <1>2, <1>3, SpecsKept, ListsGrow
  <1>5. ASSUME model = "componentgroup" PROVE AllListed' /\ Serving'
    <2>1. AllListed /\ Serving
      BY <1>1, <1>5 DEF ListedInv
    <2>2. \A b \in Builds : OwnersOf(b)' \subseteq OwnersOf(b)
      BY <1>2, OwnersKept
    <2>3. \A b \in Builds : OwnersOf(b) \subseteq Groups
      BY <1>5 DEF OwnersOf
    <2>4. \A b \in Builds, g \in Groups : g \in OwnersOf(b) /\ Listed(b, g) => Listed(b, g)'
      BY <1>2, <1>3, <1>5, ListedKept
    <2>5. AllListed'
      <3> SUFFICES ASSUME NEW b \in Builds, Promoted(b)', NEW g \in OwnersOf(b)' PROVE Listed(b, g)'
        BY DEF AllListed
      <3>1. CASE Promoted(b)
        BY <2>1, <2>2, <2>3, <2>4, <3>1 DEF AllListed
      <3>2. CASE ~Promoted(b)
        <4>1. wk.pc = "mark" /\ b = wk.b /\ wk.err = "none" /\ about[b].image # "missing"
          BY <1>2, <3>2, OnlyMark
        <4>2. Listed(b, g)
          BY <2>1, <2>2, <4>1 DEF Serving
        <4> QED BY <2>2, <2>3, <2>4, <4>2
      <3> QED BY <3>1, <3>2
    <2>6. CASE Step
      BY <1>1, <1>2, <1>5, <2>1, <2>2, <2>4, <2>5, <2>6, ServingStep, ZenonT(30)
    <2>7. ASSUME UNCHANGED wk PROVE Serving'
      <3>1. wk.pc # "idle" => wk.b \in Builds
        BY <1>2, ZenonT(30) DEF TypeOK
      <3>2. /\ wk.pc # "idle" => OwnersOf(wk.b)' \subseteq OwnersOf(wk.b)
            /\ wk.pc # "idle" => \A g \in OwnersOf(wk.b) : Listed(wk.b, g) => Listed(wk.b, g)'
        BY <2>2, <2>3, <2>4, <2>7, <3>1 DEF Listed
      <3> QED BY <1>1, <2>1, <2>7, <3>1, <3>2 DEF Serving
    <2>8. ASSUME NEW b \in Builds, Begin(b) PROVE Serving'
      <3>1. \/ wk'.pc = "idle"
            \/ /\ wk'.b = b /\ wk'.owners = OwnersOf(b) /\ wk'.todo = OwnersOf(b)
               /\ wk'.err = "none"
               /\ wk'.pc \in {"finalize", "promote", "decide", "mark"}
               /\ wk'.pc = "mark" => about[b].image = "missing"
        BY <2>8 DEF Begin, AfterFinalize, Idle
      <3> QED BY <1>1, <2>2, <3>1 DEF Serving
    <2>9. CASE Writes \/ Lists \/ Edits \/ Cluster
      BY <2>5, <2>7, <2>9, OthersApart, IdleType DEF Serving
    <2>10. CASE UNCHANGED vars
      BY <2>5, <2>7, <2>10 DEF vars, buildVars
    <2> QED BY <2>5, <2>6, <2>8, <2>9, <2>10 DEF BuildNext, Work
  <1> QED BY <1>1, <1>4, <1>5

(* No build is promoted at the start.                                      *)
LEMMA NothingPromoted == ASSUME BuildInit, NEW b \in Builds PROVE ~Promoted(b)
  <1>1. NewPipelineRun.added = "none"
    BY DEF NewPipelineRun
  <1>2. SignedPipelineRun.added = "none" /\ NoPipelineRun.added = "none"
    BY <1>1, IdleType DEF SignedPipelineRun, NoPipelineRun, PipelineRuns
  <1>3. plr \in [Builds -> {NewPipelineRun, SignedPipelineRun, NoPipelineRun}]
    BY DEF BuildInit
  <1> QED BY <1>1, <1>2, <1>3 DEF Promoted

(* Nothing is promoted at first, and the copies are the objects.           *)
LEMMA ListedInitial == BuildInit => ListedInv
  <1> SUFFICES ASSUME BuildInit PROVE ListedInv
    OBVIOUS
  <1>1. SpecsAgree
    BY DEF BuildInit, ListInit, SpecsAgree
  <1>2. CopiesBehind
    <2>1. \A w \in Writers, g \in Groups : view[w][g] = group[g]
      BY DEF BuildInit, ListInit
    <2>2. \A g \in Groups : group[g].list \in CandidateLists
      BY BuildInitial DEF BuildInv, TypeOK, ListTypeOK, ComponentGroups
    <2> QED BY <2>1, <2>2, NotOlderOrder DEF CopiesBehind
  <1>3. \A b \in Builds : ~Promoted(b)
    BY NothingPromoted
  <1>4. Serving
    BY IdleType DEF BuildInit, Serving
  <1> QED BY <1>1, <1>2, <1>3, <1>4 DEF ListedInv, AllListed
-----------------------------------------------------------------------------
(* Promotion of an Application's Components *)

(* The candidate of component c is build b, a newer one or an override.    *)
Covers(c, b) ==
  /\ start[b] <= comp[c].built
  /\ comp[c].image \in Images
  /\ comp[c].image \in Builds => start[b] <= start[comp[c].image]

AllCovered == \A b \in Builds : Promoted(b) => Covers(BuildOf[b], b)

(* The reconcile that updates a Component has a build that is not older    *)
(* than the promoted ones, and no other build comes between its patches.   *)
Updating ==
  LET c == BuildOf[wk.b]
      rivals == {b \in Builds : Promoted(b) /\ BuildOf[b] = c}
  IN  /\ wk.pc \in {"finalize", "promote"} => wk.todo # {}
      /\ wk.pc = "finalize" => \A b \in rivals : start[b] <= wk.last.built
      /\ wk.pc \in {"promote", "time"} => \A b \in rivals : start[b] <= start[wk.b]
      /\ wk.pc \in {"time", "mark"} /\ about[wk.b].image # "missing" =>
           comp[c].image \in Images /\ (comp[c].image \in Builds => comp[c].image = wk.b)
      /\ wk.pc = "mark" /\ about[wk.b].image # "missing" => start[wk.b] <= comp[c].built

CoveredInv ==
  /\ compView = comp
  /\ model = "application" => AllCovered /\ Updating

(* The start of a build does not change.                                   *)
LEMMA StartKept == ASSUME TypeOK, [BuildNext]_vars PROVE UNCHANGED start
  BY ListsCompose, ZenonT(30) DEF ListNext, Restart, Refresh, EditSpec, Align, PromoteBuild, OverrideList, listVars

(* Who writes Components.                                                  *)
LEMMA WhoUpdates ==
  ASSUME TypeOK, CacheLag = FALSE, compView = comp, [BuildNext]_vars
  PROVE  /\ compView' = comp'
         /\ \/ UNCHANGED comp
            \/ PromoteImage \/ PromoteTime
            \/ \E o \in Overrides : OverrideTime(o) \/ \E c \in Components : OverrideImage(o, c)
  <1>1. CASE UNCHANGED vars
    BY <1>1 DEF vars, buildVars
  <1>2. CASE PromoteImage \/ PromoteTime
    BY <1>2, Zenon DEF PromoteImage, PromoteTime, WithComponent, FailAndReturn
  <1>3. CASE AddFinalizer \/ FinalAnnotate \/ RemoveFinalizer \/ MarkAdded
    BY <1>3, Zenon DEF AddFinalizer, FinalAnnotate, RemoveFinalizer, MarkAdded, Annotate, NotFound,
                FailAndReturn
  <1>4. CASE PromoteNowhere \/ Decide
    BY <1>4, Zenon DEF PromoteNowhere, Decide
  <1>5. CASE AnnotateSingle \/ AppendName
    BY <1>5, ZenonT(30) DEF AnnotateSingle, AppendName, Annotate, GoneToFinal, FailToFinal
  <1>6. ASSUME NEW g \in Owners, AdoptExisting(g) \/ CreateSnapshot(g)
        PROVE  UNCHANGED <<comp, compView>>
    BY <1>6, ZenonT(30) DEF AdoptExisting, CreateSnapshot, FailToFinal
  <1>7. ASSUME NEW g \in Groups, PromoteInGroup(g) PROVE UNCHANGED <<comp, compView>>
    BY <1>7 DEF PromoteInGroup
  <1>8. ASSUME NEW b \in Builds, Begin(b) PROVE UNCHANGED <<comp, compView>>
    BY <1>8 DEF Begin
  <1>9. ASSUME NEW o \in Overrides, OverrideBegin(o) \/ OverrideGroup(o) \/ OverrideMark(o)
        PROVE  UNCHANGED <<comp, compView>>
    BY <1>9 DEF OverrideBegin, OverrideGroup, OverrideMark, OverrideFails
  <1>10. ASSUME NEW o \in Overrides, OverrideTime(o) PROVE compView' = comp'
    BY <1>10 DEF OverrideTime, WithComponent, OverrideFails
  <1>11. ASSUME NEW o \in Overrides, NEW c \in Components, OverrideImage(o, c)
         PROVE  compView' = comp'
    BY <1>11 DEF OverrideImage, WithComponent, OverrideFails
  <1>12. CASE Lists \/ Edits
    BY <1>12 DEF Lists, Edits, buildVars
  <1>13. CASE Cluster
    BY <1>13, Zenon DEF Cluster, EndBuild, SignBuild, DeleteBuild, DeleteGroup, RefreshComponent, Crash
  <1> QED BY <1>1, <1>2, <1>3, <1>4, <1>5, <1>6, <1>7, <1>8, <1>9, <1>10, <1>11, <1>12, <1>13, ZenonT(30)
          DEF BuildNext, Work, Step, Writes

(* The steps that write a Component, none of which writes a build.         *)
LEMMA CoveredWrites ==
  ASSUME BuildInv, BuildInv', CacheLag = FALSE, AllCovered, Updating, model = "application",
         UNCHANGED <<about, start>>,
         \/ PromoteImage \/ PromoteTime
         \/ \E o \in Overrides : OverrideTime(o) \/ \E c \in Components : OverrideImage(o, c)
  PROVE  AllCovered' /\ Updating'
  <1>a. TypeOK /\ \A c \in Components : comp[c] \in Candidate
    BY DEF BuildInv, TypeOK
  <1>b. \A b \in Builds : start[b] \in Nat /\ start[b] <= Latest /\ BuildOf[b] \in Components
    BY <1>a, StartType, Zenon DEF TypeOK
  <1>c. ASSUME UNCHANGED plr PROVE \A b \in Builds : Promoted(b)' <=> Promoted(b)
    BY <1>c, ZenonT(30) DEF Promoted
  <1>d. wk.pc # "idle" => wk.b \in Builds
    BY <1>a, ZenonT(30) DEF TypeOK
  <1>1. ASSUME UNCHANGED <<plr, comp>>, wk' = wk \/ wk'.pc = "idle" PROVE AllCovered' /\ Updating'
    BY <1>1, Zenon DEF AllCovered, Updating, Covers, Promoted
  <1>2. CASE PromoteImage \/ PromoteTime
    <2>1. CASE FailAndReturn
      BY <1>1, <2>1, IdleType, Zenon DEF FailAndReturn, Return
    <2> DEFINE c == BuildOf[wk.b]
    <2>2. ASSUME wk.pc = "promote", WithComponent(c, [comp[c] EXCEPT !.image = wk.b]), Goto("time"),
                 UNCHANGED plr
          PROVE  AllCovered' /\ Updating'
      <3>1. wk'.pc = "time" /\ wk'.b = wk.b /\ wk.b \in Builds
        BY <2>2, <1>a, <1>d, ZenonT(30) DEF Goto, TypeOK, Reconciles
      <3>2. comp'[c].image = wk.b /\ comp'[c].built = comp[c].built
        BY <2>2, <1>a, <1>b, <3>1, ZenonT(30) DEF WithComponent, TypeOK, Candidate
      <3>3. \A d \in Components : d # c => comp'[d] = comp[d]
        BY <2>2, <1>a, ZenonT(30) DEF WithComponent, TypeOK
      <3>4. AllCovered'
        BY <2>2, <1>b, <1>c, <3>1, <3>2, <3>3, ZenonT(30) DEF AllCovered, Covers, Updating, Images
      <3>5. Updating'
        BY <2>2, <1>c, <3>1, <3>2 DEF Updating, Images
      <3> QED BY <3>4, <3>5
    <2>3. ASSUME wk.pc = "time", WithComponent(c, [comp[c] EXCEPT !.built = start[wk.b]]),
                 Goto("mark"), UNCHANGED plr
          PROVE  AllCovered' /\ Updating'
      <3>1. wk'.pc = "mark" /\ wk'.b = wk.b /\ wk.b \in Builds
        BY <2>3, <1>a, <1>d, ZenonT(30) DEF Goto, TypeOK, Reconciles
      <3>2. comp'[c].image = comp[c].image /\ comp'[c].built = start[wk.b]
        BY <2>3, <1>a, <1>b, <3>1, ZenonT(30) DEF WithComponent, TypeOK, Candidate
      <3>3. \A d \in Components : d # c => comp'[d] = comp[d]
        BY <2>3, <1>a, ZenonT(30) DEF WithComponent, TypeOK
      <3>4. AllCovered'
        BY <2>3, <1>b, <1>c, <3>1, <3>2, <3>3, ZenonT(30) DEF AllCovered, Covers, Updating
      <3>5. Updating'
        BY <2>3, <1>b, <1>c, <3>1, <3>2 DEF Updating
      <3> QED BY <3>4, <3>5
    <2> QED BY <1>2, <2>1, <2>2, <2>3, ZenonT(30) DEF PromoteImage, PromoteTime
  <1>3. ASSUME NEW o \in Overrides, OverrideFails(o), UNCHANGED <<plr, wk>> PROVE AllCovered' /\ Updating'
    BY <1>1, <1>3 DEF OverrideFails
  <1>4. ASSUME NEW o \in Overrides, NEW c \in Components,
               WithComponent(c, [comp[c] EXCEPT !.image = o]), UNCHANGED <<plr, wk>>
        PROVE  AllCovered' /\ Updating'
    <2>1. comp'[c].image = o /\ comp'[c].built = comp[c].built /\ o \in Images /\ o \notin Builds
      BY <1>4, <1>a, ListAssumption DEF WithComponent, TypeOK, Candidate, Images
    <2>2. \A d \in Components : d # c => comp'[d] = comp[d]
      BY <1>4, <1>a DEF WithComponent, TypeOK
    <2>3. AllCovered'
      BY <1>4, <1>b, <1>c, <2>1, <2>2, ZenonT(30) DEF AllCovered, Covers
    <2>4. Updating'
      BY <1>4, <1>b, <1>c, <1>d, <2>1, <2>2 DEF Updating
    <2> QED BY <2>3, <2>4
  <1>5. ASSUME NEW c \in Components,
               WithComponent(c, [comp[c] EXCEPT !.built = Latest + 1]), UNCHANGED <<plr, wk>>
        PROVE  AllCovered' /\ Updating'
    <2>1. comp'[c].image = comp[c].image /\ comp'[c].built = Latest + 1
      BY <1>5, <1>a DEF WithComponent, TypeOK, Candidate
    <2>2. \A d \in Components : d # c => comp'[d] = comp[d]
      BY <1>5, <1>a DEF WithComponent, TypeOK
    <2>3. \A b \in Builds : start[b] <= Latest + 1
      BY <1>b, ListAssumption
    <2>4. AllCovered'
      BY <1>5, <1>b, <1>c, <2>1, <2>2, <2>3, ZenonT(30) DEF AllCovered, Covers
    <2>5. Updating'
      BY <1>5, <1>b, <1>c, <1>d, <2>1, <2>2, <2>3, ZenonT(30) DEF Updating
    <2> QED BY <2>4, <2>5
  <1>6. ASSUME NEW o \in Overrides, OverrideTime(o) PROVE AllCovered' /\ Updating'
    <2>1. over[o].now \in Components
      BY <1>6, <1>a DEF OverrideTime, TypeOK
    <2> QED BY <1>3, <1>5, <1>6, <2>1, ZenonT(30) DEF OverrideTime
  <1>7. ASSUME NEW o \in Overrides, NEW c \in Components, OverrideImage(o, c)
        PROVE  AllCovered' /\ Updating'
    BY <1>3, <1>4, <1>7 DEF OverrideImage
  <1> QED BY <1>2, <1>6, <1>7, ZenonT(30)

(* A step of a reconcile that leaves the Components alone.                 *)
LEMMA UpdatingStep ==
  ASSUME BuildInv, Updating, model = "application", UNCHANGED <<about, start, comp>>,
         Step, ~PromoteImage, ~PromoteTime,
         wk.pc # "mark" => \A b \in Builds : Promoted(b)' => Promoted(b)
  PROVE  Updating'
  <1>a. TypeOK /\ wk.pc # "idle" /\ wk.b \in Builds
    BY ZenonT(30) DEF BuildInv, TypeOK, Step, AddFinalizer, PromoteNowhere, PromoteImage, PromoteTime,
           MarkAdded, PromoteInGroup, Decide, AdoptExisting, CreateSnapshot, AnnotateSingle,
           AppendName, FinalAnnotate, RemoveFinalizer
  <1>1. ASSUME wk'.pc \notin {"finalize", "promote", "time", "mark"} PROVE Updating'
    BY <1>1 DEF Updating
  <1>2. /\ \A again : Return(again) => wk'.pc = "idle"
        /\ Idle.pc = "idle"
        /\ \A new, pc : Annotate(new, pc) =>
             wk'.b = wk.b /\ wk'.todo = wk.todo /\ wk'.pc = pc
        /\ \A remove, err : ToFinal(remove, err) => wk'.pc = "final"
    BY <1>a, IdleType, ZenonT(30) DEF Return, Annotate, ToFinal, TypeOK, Reconciles
  <1>3. FailAndReturn \/ FailToFinal \/ GoneToFinal \/ (\E again \in BOOLEAN : NotFound(again))
          => Updating'
    BY <1>1, <1>2, ZenonT(30) DEF FailAndReturn, FailToFinal, GoneToFinal, NotFound
  <1>4. ASSUME NEW new, NEW pc, Annotate(new, pc), pc \notin {"finalize", "promote", "time", "mark"}
        PROVE  Updating'
    BY <1>1, <1>2, <1>4, Zenon
  <1>5. CASE AddFinalizer
    <2> DEFINE p == plr[wk.b]
               new == IF p.deleting THEN p ELSE [p EXCEPT !.finalizer = TRUE]
               pc == AfterFinalize(wk.b, new, wk.last)
    <2>1. Annotate(new, pc) \/ NotFound(FALSE) \/ FailAndReturn
      BY <1>5, ZenonT(30) DEF AddFinalizer
    <2>2. /\ pc \in {"promote", "mark", "decide"} /\ (pc = "mark" => about[wk.b].image = "missing")
          /\ pc = "promote" => ~(start[wk.b] < wk.last.built)
      BY ZenonT(30) DEF AfterFinalize, ShouldUpdateGlobalCandidateList, IsBuildPLROlderThanLastBuild
    <2> HIDE DEF new, pc
    <2>3. ASSUME Annotate(new, pc) PROVE Updating'
      <3>1. wk'.b = wk.b /\ wk'.todo = wk.todo /\ wk'.pc = pc
        BY <1>2, <2>3
      <3>2. wk.pc = "finalize"
        BY <1>5, ZenonT(30) DEF AddFinalizer
      <3>3. wk.last.built \in Nat /\ \A b \in Builds : start[b] \in Nat
        <4>1. \A b \in Builds : start[b] \in Nat
          BY StartType, ZenonT(30) DEF BuildInv, ListInv
        <4>2. wk \in Reconciles
          BY <1>a, ZenonT(30) DEF TypeOK
        <4>3. wk.last.built \in Nat
          BY <4>2, ListAssumption DEF Reconciles, Candidate
        <4> QED BY <4>1, <4>3, Zenon
      <3>4. pc = "promote" =>
              \A b \in Builds : Promoted(b)' /\ BuildOf[b] = BuildOf[wk.b] => start[b] <= start[wk.b]
        <4>1. \A b \in Builds : Promoted(b) /\ BuildOf[b] = BuildOf[wk.b] => start[b] <= wk.last.built
          BY <3>2, ZenonT(30) DEF Updating
        <4>2. \A b \in Builds : Promoted(b)' => Promoted(b)
          BY <3>2, ZenonT(30)
        <4> HIDE DEF TypeOK, BuildInv
        <4> QED BY <1>a, <2>2, <3>3, <4>1, <4>2
      <3> QED BY <2>2, <3>1, <3>2, <3>4, ZenonT(30) DEF Updating
    <2> QED BY <1>3, <2>1, <2>3, ZenonT(30)
  <1>6. CASE PromoteNowhere
    <2>1. wk.pc = "promote" => wk.todo # {}
      BY Zenon DEF Updating
    <2>2. wk.pc = "promote" /\ wk.todo = {}
      BY <1>6, ZenonT(30) DEF PromoteNowhere
    <2> QED BY <2>1, <2>2, Zenon
  <1>7. ASSUME NEW g \in Groups, PromoteInGroup(g) PROVE Updating'
    BY <1>7, Zenon DEF PromoteInGroup
  <1>9. CASE MarkAdded
    <2>1. Return(TRUE) => Updating'
      BY <1>1, <1>2, ZenonT(30)
    <2>2. \A new : Annotate(new, "decide") => Updating'
      BY <1>4
    <2> QED BY <1>3, <1>9, <2>1, <2>2, ZenonT(30) DEF MarkAdded
  <1>10. CASE Decide
    <2>1. wk'.pc \in {"final", "existing", "create"}
      BY <1>10, <1>a, ZenonT(30) DEF Decide, ToFinal, TypeOK, Reconciles
    <2> QED BY <1>1, <2>1
  <1>11. ASSUME NEW g \in Owners, AdoptExisting(g) \/ CreateSnapshot(g) PROVE Updating'
    <2>1. CASE FailToFinal
      BY <1>3, <2>1
    <2>2. CASE ~FailToFinal
      <3>1. wk'.pc \in {"annotate", "final", "existing"}
        BY <1>11, <1>a, <2>2, ZenonT(30) DEF AdoptExisting, CreateSnapshot, ToFinal, TypeOK, Reconciles
      <3> QED BY <1>1, <3>1
    <2> QED BY <2>1, <2>2
  <1>12. CASE AnnotateSingle
    BY <1>3, <1>4, <1>12 DEF AnnotateSingle
  <1>13. CASE AppendName
    <2>1. ASSUME NEW new, wk' = [wk EXCEPT !.copy = new, !.pc = AfterAnnotate,
                                           !.remove = @ \/ wk.todo = {}]
          PROVE  Updating'
      <3>1. wk'.pc \in {"existing", "create", "final"}
        BY <2>1, <1>a DEF AfterAnnotate, TypeOK, Reconciles
      <3> QED BY <1>1, <3>1
    <2> QED BY <1>3, <1>13, <2>1, ZenonT(30) DEF AppendName
  <1>14. CASE FinalAnnotate \/ RemoveFinalizer
    <2>1. wk' = Idle => Updating'
      BY <1>1, <1>2
    <2>2. \A new : Annotate(new, "release") => Updating'
      BY <1>4
    <2> QED BY <1>3, <1>14, <2>1, <2>2, ZenonT(30) DEF FinalAnnotate, RemoveFinalizer
  <1> QED BY <1>5, <1>6, <1>7, <1>9, <1>10, <1>11, <1>12, <1>13, <1>14 DEF Step

(* Without lag every step keeps that a promoted build of an Application is *)
(* covered by the candidate of its Component.                              *)
LEMMA CoveredStep ==
  ASSUME CacheLag = FALSE, BuildInv, CoveredInv, [BuildNext]_vars
  PROVE  CoveredInv'
  <1>1. /\ UNCHANGED <<model, about, start>> /\ TypeOK /\ BuildInv'
        /\ \A b \in Builds : start[b] \in Nat /\ BuildOf[b] \in Components
    <2>1. TypeOK /\ BuildInv'
      BY BuildStep DEF BuildInv
    <2>2. UNCHANGED <<model, about, start>>
      BY <2>1, SettingKept, StartKept, Zenon
    <2> QED BY <2>1, <2>2, StartType, Zenon DEF TypeOK
  <1>2. compView = comp /\ compView' = comp'
    BY <1>1, WhoUpdates, Zenon DEF CoveredInv
  <1>3. ASSUME model = "application" PROVE AllCovered' /\ Updating'
    <2>1. AllCovered /\ Updating
      BY <1>3 DEF CoveredInv
    <2>2. CASE \/ PromoteImage \/ PromoteTime
               \/ \E o \in Overrides : OverrideTime(o) \/ \E c \in Components : OverrideImage(o, c)
      BY <1>1, <1>3, <2>1, <2>2, CoveredWrites, ZenonT(30)
    <2>3. CASE UNCHANGED comp
      <3>1. wk.pc # "mark" => \A b \in Builds : Promoted(b)' => Promoted(b)
        BY <1>1, OnlyMark
      <3>2. AllCovered'
        <4> SUFFICES ASSUME NEW b \in Builds, Promoted(b)' PROVE Covers(BuildOf[b], b)
          BY <1>1, <2>3 DEF AllCovered, Covers
        <4>1. CASE Promoted(b)
          BY <2>1, <4>1, ZenonT(30) DEF AllCovered
        <4>2. CASE ~Promoted(b)
          <5>1. wk.pc = "mark" /\ b = wk.b /\ about[b].image # "missing"
            BY <1>1, <4>2, OnlyMark
          <5>2. /\ comp[BuildOf[b]].image \in Images
                /\ comp[BuildOf[b]].image \in Builds => comp[BuildOf[b]].image = b
                /\ start[b] <= comp[BuildOf[b]].built
            BY <2>1, <5>1, Zenon DEF Updating
          <5>3. start[b] \in Nat
            BY <1>1, Zenon
          <5> QED BY <5>2, <5>3 DEF Covers
        <4> QED BY <4>1, <4>2, ZenonT(30)
      <3>3. CASE Step
        BY <1>1, <1>3, <2>1, <2>2, <2>3, <3>1, <3>2, <3>3, UpdatingStep, ZenonT(30)
      <3>4. ASSUME UNCHANGED wk PROVE Updating'
        BY <1>1, <2>1, <2>3, <3>1, <3>4, Zenon DEF Updating
      <3>5. ASSUME NEW b \in Builds, Begin(b) PROVE Updating'
        <4>1. \/ wk'.pc = "idle"
              \/ /\ wk'.b = b /\ wk'.todo = OwnersOf(b) /\ wk'.last = comp[BuildOf[b]]
                 /\ wk'.pc \in {"finalize", "promote", "decide", "mark"}
                 /\ wk'.pc = "promote" => ~(start[b] < comp[BuildOf[b]].built)
                 /\ wk'.pc = "mark" => about[b].image = "missing"
          BY <1>2, <1>3, <3>5 DEF Begin, AfterFinalize, Idle, ShouldUpdateGlobalCandidateList,
                                  IsBuildPLROlderThanLastBuild
        <4>2. OwnersOf(b) # {}
          BY <1>3, ZenonT(30) DEF OwnersOf
        <4>3. \A a \in Builds : Promoted(a)' /\ BuildOf[a] = BuildOf[b] =>
                start[a] <= comp[BuildOf[b]].built
          <5>1. UNCHANGED plr
            BY <3>5 DEF Begin
          <5> QED BY <1>1, <2>1, <5>1 DEF AllCovered, Covers, Promoted
        <4>4. comp[BuildOf[b]].built \in Nat
          BY <1>1, BuiltType, ZenonT(30)
        <4>5. wk'.pc = "promote" =>
                \A a \in Builds : Promoted(a)' /\ BuildOf[a] = BuildOf[b] => start[a] <= start[b]
          <5>1. \A a \in Builds : start[a] \in Nat
            BY <1>1, Zenon
          <5> HIDE DEF TypeOK, BuildInv
          <5>2. wk'.pc = "promote" => ~(start[b] < comp[BuildOf[b]].built)
            BY <4>1, ZenonT(30)
          <5> QED BY <4>3, <4>4, <5>1, <5>2
        <4>6. start' = start /\ about' = about /\ comp' = comp
          BY <1>1, <2>3, ZenonT(30)
        <4> QED BY <4>1, <4>2, <4>3, <4>5, <4>6, ZenonT(30) DEF Updating
      <3>6. CASE Writes \/ Lists \/ Edits \/ Cluster
        BY <3>2, <3>4, <3>6, OthersApart, IdleType, Zenon DEF Updating
      <3>7. CASE UNCHANGED vars
        BY <3>2, <3>4, <3>7, ZenonT(30) DEF vars, buildVars
      <3> QED BY <3>2, <3>3, <3>5, <3>6, <3>7 DEF BuildNext, Work
    <2> QED BY <1>1, <1>2, <2>2, <2>3, WhoUpdates, ZenonT(30)
  <1> QED BY <1>1, <1>2, <1>3 DEF CoveredInv

(* Nothing is promoted at first, and the copies are the objects.           *)
LEMMA CoveredInitial == BuildInit => CoveredInv
  <1> SUFFICES ASSUME BuildInit PROVE CoveredInv
    OBVIOUS
  <1>1. compView = comp /\ wk.pc = "idle"
    BY IdleType DEF BuildInit
  <1>2. \A b \in Builds : ~Promoted(b)
    BY NothingPromoted
  <1> QED BY <1>1, <1>2, Zenon DEF CoveredInv, AllCovered, Updating

(* When the service is idle and no group was edited, the candidate of      *)
(* every component is its newest promoted build or an override: for any    *)
(* number of groups, components and builds, whatever the order in which    *)
(* the builds are signed, retried and promoted, and however stale the      *)
(* copies of the groups are.  In the Application model it needs a cache of *)
(* Components that does not lag, because UpdateComponentImageAndSource     *)
(* patches without a lock.                                                 *)
THEOREM NewestIsPromoted ==
  ASSUME CacheLag = FALSE
  PROVE  BuildSpec => []NewestPromoted
  <1>1. BuildInv /\ ListedInv /\ CoveredInv => NewestPromoted
    BY Zenon DEF ListedInv, CoveredInv, AllListed, AllCovered, Listed, Covers, NewestPromoted
  <1>2. CoveredInv /\ BuildInv /\ [BuildNext]_vars => CoveredInv'
    BY CoveredStep, Zenon
  <1> QED BY <1>1, <1>2, BuildTypeCorrect, ListedInitial, ListedStep, CoveredInitial, PTL
          DEF BuildSpec
=============================================================================
