----------------------------- MODULE BuildProofs -----------------------------
(***************************************************************************)
(* Proofs about the Global Candidate Lists and the build controller, for   *)
(* any groups, components, builds and override Snapshots.                  *)
(***************************************************************************)
EXTENDS BuildPipeline, TLAPS

-----------------------------------------------------------------------------
(* The lists *)

(* An entry that is replaced in a list leaves the components of the list   *)
(* alone (UpdateGCLEntry assigns to one index).                            *)
LEMMA EntryType ==
  ASSUME NEW list \in CandidateLists, NEW c \in DOMAIN list, NEW e \in ComponentState
  PROVE  /\ [list EXCEPT ![c] = e] \in CandidateLists
         /\ DOMAIN [list EXCEPT ![c] = e] = DOMAIN list
  <1>1. PICK S \in SUBSET Components : list \in [S -> ComponentState]
    BY DEF CandidateLists
  <1>2. [list EXCEPT ![c] = e] \in [S -> ComponentState]
    BY <1>1
  <1> QED BY <1>1, <1>2 DEF CandidateLists

(* The components of a list are components (the list of a group is built   *)
(* from its spec).                                                         *)
LEMMA ListDomain ==
  ASSUME NEW list \in CandidateLists
  PROVE  /\ DOMAIN list \subseteq Components
         /\ list \in [DOMAIN list -> ComponentState]
  BY DEF CandidateLists

(* The list that EnsureGCLAlignedWithSpecComponents writes has an entry    *)
(* for each component of the spec.                                         *)
LEMMA AlignedListType ==
  ASSUME NEW cg \in ComponentGroups
  PROVE  /\ AlignedList(cg) \in CandidateLists
         /\ DOMAIN AlignedList(cg) = cg.spec
  <1>1. cg.spec \in SUBSET Components /\ cg.list \in CandidateLists
    BY DEF ComponentGroups
  <1>2. Blank \in ComponentState
    BY ListAssumption DEF Blank, ComponentState
  <1>3. AlignedList(cg) \in [cg.spec -> ComponentState]
    BY <1>1, <1>2, ListDomain DEF AlignedList
  <1> QED BY <1>1, <1>3 DEF CandidateLists

(* The list that UpdateMultipleGCLEntries writes has the same components   *)
(* and build times as before.                                              *)
LEMMA OverriddenListType ==
  ASSUME NEW cg \in ComponentGroups, NEW o \in Overrides, NEW S \in SUBSET Components
  PROVE  /\ OverriddenList(cg, o, S) \in CandidateLists
         /\ DOMAIN OverriddenList(cg, o, S) = DOMAIN cg.list
  <1>1. cg.list \in CandidateLists
    BY DEF ComponentGroups
  <1>2. \A c \in DOMAIN cg.list : cg.list[c] \in ComponentState
    BY <1>1, ListDomain
  <1>3. \A c \in DOMAIN cg.list : [image |-> o, time |-> cg.list[c].time] \in ComponentState
    BY <1>2 DEF ComponentState, Images
  <1>4. OverriddenList(cg, o, S) \in [DOMAIN cg.list -> ComponentState]
    BY <1>2, <1>3 DEF OverriddenList
  <1> QED BY <1>1, <1>4, ListDomain DEF CandidateLists

(* The list that UpdateGCLEntry writes, when it writes one.                *)
LEMMA PromotedListType ==
  ASSUME ListTypeOK, NEW cg \in ComponentGroups, NEW b \in Builds, EntryOutcome(cg, b) = "promoted"
  PROVE  LET new == [cg.list EXCEPT ![BuildOf[b]] = [image |-> b, time |-> start[b]]]
         IN  /\ BuildOf[b] \in DOMAIN cg.list
             /\ cg.list[BuildOf[b]].time <= start[b]
             /\ new \in CandidateLists
             /\ DOMAIN new = DOMAIN cg.list
  <1>1. cg.list \in CandidateLists
    BY DEF ComponentGroups
  <1>2. BuildOf[b] \in DOMAIN cg.list
    BY DEF EntryOutcome
  <1>3. [image |-> b, time |-> start[b]] \in ComponentState
    BY ListAssumption DEF ComponentState, Images, ListTypeOK
  <1>4. cg.list[BuildOf[b]] \in ComponentState
    BY <1>1, <1>2, ListDomain
  <1>5. cg.list[BuildOf[b]].time <= start[b]
    BY <1>4, ListAssumption DEF EntryOutcome, ComponentState, ListTypeOK
  <1> QED BY <1>1, <1>2, <1>3, <1>5, EntryType

-----------------------------------------------------------------------------
(* What makes the lists correct: types, and a lock that means something.   *)
ListInv == ListTypeOK /\ LockIsEnough /\ AlignedWithSpec

(* A new version keeps types and the lock, and changes one group only.     *)
LEMMA NewVersionKeeps ==
  ASSUME ListTypeOK, LockIsEnough,
         NEW w, NEW g \in Groups, NEW new \in ComponentGroups, NewVersion(w, g, new)
  PROVE  /\ group' \in [Groups -> ComponentGroups]
         /\ view' \in [Writers -> [Groups -> ComponentGroups]]
         /\ fresh' \in [Writers -> SUBSET Groups]
         /\ LockIsEnough'
         /\ group'[g] = new
         /\ \A h \in Groups : h # g => group'[h] = group[h]
  <1>1. /\ group' \in [Groups -> ComponentGroups]
        /\ group'[g] = new
        /\ \A h \in Groups : h # g => group'[h] = group[h]
    BY DEF NewVersion, ListTypeOK
  <1>2. view' \in [Writers -> [Groups -> ComponentGroups]]
    BY DEF NewVersion, ListTypeOK
  <1>3. fresh' \in [Writers -> SUBSET Groups]
    BY DEF NewVersion, ListTypeOK
  <1>4. ASSUME NEW v \in Writers, NEW h \in fresh'[v]
        PROVE  view'[v][h] = group'[h]
    <2>1. h \in Groups
      BY <1>3
    <2>2. CASE h = g
      <3>1. v = w
        BY <2>2, <1>4 DEF NewVersion, ListTypeOK
      <3> QED BY <2>2, <3>1, <1>1 DEF NewVersion, ListTypeOK
    <2>3. CASE h # g
      <3>1. h \in fresh[v]
        BY <2>3, <1>4 DEF NewVersion, ListTypeOK
      <3>2. view'[v][h] = view[v][h]
        BY <2>1, <2>3 DEF NewVersion, ListTypeOK
      <3> QED BY <3>1, <3>2, <2>1, <2>3, <1>1 DEF LockIsEnough
    <2> QED BY <2>2, <2>3
  <1> QED BY <1>1, <1>2, <1>3, <1>4 DEF LockIsEnough

(* A patch under the lock: afterwards the group has the list that was      *)
(* computed from the writer's copy, which was the current object.          *)
LEMMA PatchKeeps ==
  ASSUME ListTypeOK, LockIsEnough,
         NEW w \in Writers, NEW g \in Groups, NEW list \in CandidateLists,
         PatchList(w, g, list)
  PROVE  /\ view[w][g] = group[g]
         /\ group' \in [Groups -> ComponentGroups]
         /\ view' \in [Writers -> [Groups -> ComponentGroups]]
         /\ fresh' \in [Writers -> SUBSET Groups]
         /\ LockIsEnough'
         /\ group'[g].list = list /\ group'[g].spec = group[g].spec
         /\ \A h \in Groups : h # g => group'[h] = group[h]
  <1>1. view[w][g] = group[g]
    BY DEF PatchList, Current, LockIsEnough
  <1>2. CASE list = group[g].list
    BY <1>1, <1>2 DEF PatchList, ListTypeOK, LockIsEnough
  <1>3. CASE list # group[g].list
    <2> DEFINE new == [group[g] EXCEPT !.list = list]
    <2>1. group[g] \in ComponentGroups
      BY DEF ListTypeOK
    <2>2. new \in ComponentGroups /\ new.list = list /\ new.spec = group[g].spec
      BY <2>1 DEF ComponentGroups
    <2>3. NewVersion(w, g, new)
      BY <1>3 DEF PatchList
    <2> HIDE DEF new
    <2> QED BY <1>1, <2>2, <2>3, NewVersionKeeps, Zenon
  <1> QED BY <1>2, <1>3

-----------------------------------------------------------------------------
(* New groups have empty lists and wait for their alignment, the others    *)
(* are aligned; the copies are current.                                    *)
LEMMA ListInitial == ListInit => ListInv
  <1> SUFFICES ASSUME ListInit PROVE ListInv
    OBVIOUS
  <1> DEFINE created(S, new) ==
        [g \in Groups |-> [spec |-> S[g],
                           list |-> [c \in (IF g \in new THEN {} ELSE S[g]) |-> Blank]]]
  <1>1. PICK S \in [Groups -> SUBSET Components], new \in SUBSET Groups :
          /\ start \in [Builds -> 1 .. Latest]
          /\ group = created(S, new)
          /\ view = [w \in Writers |-> created(S, new)]
          /\ fresh = [w \in Writers |-> Groups]
          /\ toAlign = new
    BY Zenon DEF ListInit
  <1>2. Blank \in ComponentState
    BY ListAssumption DEF Blank, ComponentState
  <1>3. ASSUME NEW g \in Groups
        PROVE  created(S, new)[g] \in ComponentGroups
    <2> DEFINE D == IF g \in new THEN {} ELSE S[g]
    <2>1. D \in SUBSET Components /\ [c \in D |-> Blank] \in [D -> ComponentState]
      BY <1>2
    <2>2. [c \in D |-> Blank] \in CandidateLists
      BY <2>1, Zenon DEF CandidateLists
    <2> QED BY <2>2 DEF ComponentGroups
  <1>4. created(S, new) \in [Groups -> ComponentGroups]
    BY <1>3
  <1>5. \A g \in Groups : g \notin new => DOMAIN created(S, new)[g].list = created(S, new)[g].spec
    OBVIOUS
  <1> HIDE DEF created
  <1>6. ListTypeOK
    BY <1>1, <1>4 DEF ListTypeOK
  <1>7. LockIsEnough
    BY <1>1 DEF LockIsEnough
  <1>8. AlignedWithSpec
    BY <1>1, <1>5 DEF AlignedWithSpec
  <1> QED BY <1>6, <1>7, <1>8 DEF ListInv

(* Every writer keeps the types, the lock and the alignment: it computes   *)
(* the list from a copy that is current when the patch is accepted.        *)
LEMMA ListStep == ListInv /\ [ListNext]_listVars => ListInv'
  <1> SUFFICES ASSUME ListInv, [ListNext]_listVars PROVE ListInv'
    OBVIOUS
  <1> USE DEF ListInv
  <1>1. CASE UNCHANGED listVars
    BY <1>1 DEF listVars, ListTypeOK, LockIsEnough, AlignedWithSpec
  <1>2. CASE Restart
    BY <1>2 DEF Restart, ListTypeOK, LockIsEnough, AlignedWithSpec
  <1>3. ASSUME NEW g \in Groups, NEW w \in Writers, Refresh(w, g)
        PROVE  ListInv'
    <2>1. ListTypeOK'
      BY <1>3 DEF Refresh, ListTypeOK
    <2>2. LockIsEnough'
      BY <1>3 DEF Refresh, ListTypeOK, LockIsEnough
    <2>3. AlignedWithSpec'
      BY <1>3 DEF Refresh, AlignedWithSpec
    <2> QED BY <2>1, <2>2, <2>3
  <1>4. ASSUME NEW g \in Groups, NEW S \in SUBSET Components, EditSpec(g, S)
        PROVE  ListInv'
    <2> DEFINE new == [group[g] EXCEPT !.spec = S]
    <2>1. new \in ComponentGroups
      BY Zenon DEF ComponentGroups, ListTypeOK
    <2>2. NewVersion("user", g, new)
      BY <1>4 DEF EditSpec
    <2> HIDE DEF new
    <2>3. /\ ListTypeOK' /\ LockIsEnough'
          /\ \A h \in Groups : h # g => group'[h] = group[h]
      BY <1>4, <2>1, <2>2, NewVersionKeeps, Zenon DEF EditSpec, ListTypeOK
    <2>4. AlignedWithSpec'
      BY <1>4, <2>3 DEF EditSpec, AlignedWithSpec
    <2> QED BY <2>3, <2>4
  <1>5. ASSUME NEW g \in Groups, NEW w \in Writers, NEW list \in CandidateLists,
               PatchList(w, g, list), UNCHANGED start,
               toAlign' = toAlign \/ toAlign' = toAlign \ {g},
               DOMAIN list = view[w][g].spec
                 \/ (toAlign' = toAlign /\ DOMAIN list = DOMAIN view[w][g].list)
        PROVE  ListInv'
    <2>1. /\ view[w][g] = group[g]
          /\ ListTypeOK' /\ LockIsEnough'
          /\ group'[g].list = list /\ group'[g].spec = group[g].spec
          /\ \A h \in Groups : h # g => group'[h] = group[h]
      BY <1>5, PatchKeeps DEF ListTypeOK
    <2>2. AlignedWithSpec'
      BY <1>5, <2>1 DEF AlignedWithSpec
    <2> QED BY <2>1, <2>2
  <1>6. ASSUME NEW g \in Groups, Align(g)
        PROVE  ListInv'
    <2>1. view["align"][g] \in ComponentGroups /\ "align" \in Writers
      BY DEF ListTypeOK, Writers
    <2> QED BY <2>1, <1>5, <1>6, AlignedListType DEF Align
  <1>7. ASSUME NEW g \in Groups, NEW b \in Builds, PromoteBuild(b, g)
        PROVE  ListInv'
    <2>1. view["build"][g] \in ComponentGroups /\ "build" \in Writers
      BY DEF ListTypeOK, Writers
    <2> QED BY <2>1, <1>5, <1>7, PromotedListType DEF PromoteBuild, UpdateGCLEntry
  <1>8. ASSUME NEW g \in Groups, NEW o \in Overrides, NEW S \in SUBSET Components, OverrideList(o, g, S)
        PROVE  ListInv'
    <2>1. view["override"][g] \in ComponentGroups /\ "override" \in Writers
      BY DEF ListTypeOK, Writers
    <2> QED BY <2>1, <1>5, <1>8, OverriddenListType DEF OverrideList
  <1> QED BY <1>1, <1>2, <1>3, <1>4, <1>6, <1>7, <1>8 DEF ListNext

-----------------------------------------------------------------------------
(* The lists implement the register, step by step.                         *)

(* Blank entries are all that the lists have at first.                     *)
LEMMA RegisterInitial == ListInit => Register!RegInit
  <1> SUFFICES ASSUME ListInit PROVE Register!RegInit
    OBVIOUS
  <1>1. PICK S \in [Groups -> SUBSET Components], new \in SUBSET Groups :
          group = [g \in Groups |-> [spec |-> S[g],
                                     list |-> [c \in (IF g \in new THEN {} ELSE S[g]) |-> Blank]]]
    BY Zenon DEF ListInit
  <1> DEFINE T == [g \in Groups |-> IF g \in new THEN {} ELSE S[g]]
  <1>2. T \in [Groups -> SUBSET Components]
    OBVIOUS
  <1>3. Register!Blank = Blank
    BY DEF Register!Blank, Blank
  <1>4. [g \in Groups |-> group[g].list] = [g \in Groups |-> [c \in T[g] |-> Register!Blank]]
    BY <1>1, <1>3
  <1> HIDE DEF T
  <1> QED BY <1>2, <1>4, Zenon DEF Register!RegInit

(* The register of a group after a patch is the list that was written.     *)
LEMMA RegisterPatched ==
  ASSUME ListTypeOK, LockIsEnough,
         NEW w \in Writers, NEW g \in Groups, NEW list \in CandidateLists,
         PatchList(w, g, list)
  PROVE  /\ view[w][g] = group[g]
         /\ [h \in Groups |-> group[h].list]' = [[h \in Groups |-> group[h].list] EXCEPT ![g] = list]
  BY PatchKeeps, ZenonT(30)

(* Each step of the lists is a step of the register or leaves it alone.    *)
LEMMA RegisterStep ==
  ListInv /\ [ListNext]_listVars => [Register!RegNext]_[g \in Groups |-> group[g].list]
  <1> DEFINE reg == [g \in Groups |-> group[g].list]
  <1> SUFFICES ASSUME ListInv, [ListNext]_listVars
               PROVE  Register!RegNext \/ reg' = reg
    OBVIOUS
  <1> USE DEF ListInv
  <1>1. CASE UNCHANGED group
    BY <1>1
  <1>2. ASSUME NEW g \in Groups, NEW S \in SUBSET Components, EditSpec(g, S)
        PROVE  reg' = reg
    <2> DEFINE new == [group[g] EXCEPT !.spec = S]
    <2>1. new \in ComponentGroups /\ new.list = group[g].list
      BY Zenon DEF ComponentGroups, ListTypeOK
    <2>2. NewVersion("user", g, new)
      BY <1>2 DEF EditSpec
    <2> HIDE DEF new
    <2>3. \A h \in Groups : group'[h].list = group[h].list
      BY <2>1, <2>2, NewVersionKeeps, ZenonT(30)
    <2> QED BY <2>3
  <1>3. ASSUME NEW g \in Groups, Align(g)
        PROVE  Register!Realign(g)
    <2> DEFINE cg == view["align"][g]
    <2>1. cg \in ComponentGroups /\ "align" \in Writers
      BY DEF ListTypeOK, Writers
    <2>2. cg = group[g] /\ reg' = [reg EXCEPT ![g] = AlignedList(cg)]
      BY <2>1, <1>3, AlignedListType, RegisterPatched DEF Align
    <2>3. reg[g] = cg.list /\ cg.spec \in SUBSET Components
      BY <2>1, <2>2 DEF ComponentGroups
    <2>4. reg' = [reg EXCEPT ![g] = [c \in cg.spec |-> IF c \in DOMAIN reg[g] THEN reg[g][c] ELSE Register!Blank]]
      BY <2>2, <2>3 DEF AlignedList, Blank, Register!Blank
    <2> QED BY <2>3, <2>4, Zenon DEF Register!Realign
  <1>4. ASSUME NEW g \in Groups, NEW b \in Builds, PromoteBuild(b, g)
        PROVE  \E c \in Components : Register!Promote(g, c)
    <2> DEFINE cg == view["build"][g]
               c == BuildOf[b]
               e == [image |-> b, time |-> start[b]]
    <2>1. cg \in ComponentGroups /\ "build" \in Writers
      BY DEF ListTypeOK, Writers
    <2>2. cg = group[g] /\ reg' = [reg EXCEPT ![g] = [cg.list EXCEPT ![c] = e]]
      BY <2>1, <1>4, PromotedListType, RegisterPatched DEF PromoteBuild, UpdateGCLEntry
    <2>3. reg[g] = cg.list
      BY <2>2
    <2>4. c \in DOMAIN reg[g] /\ reg[g][c].time <= start[b]
      BY <2>1, <2>3, <1>4, PromotedListType DEF PromoteBuild, UpdateGCLEntry
    <2>5. reg' = [reg EXCEPT ![g][c] = e]
      BY <2>2, <2>3
    <2>6. b \in Images /\ start[b] \in 1 .. Latest /\ c \in Components
      BY ListAssumption DEF Images, ListTypeOK
    <2> HIDE DEF reg, c
    <2>7. Register!Promote(g, c)
      BY <2>4, <2>5, <2>6, Zenon DEF Register!Promote, reg
    <2> QED BY <2>6, <2>7
  <1>5. ASSUME NEW g \in Groups, NEW o \in Overrides, NEW S \in SUBSET Components, OverrideList(o, g, S)
        PROVE  Register!Override(g)
    <2> DEFINE cg == view["override"][g]
               f == [c \in DOMAIN cg.list |-> IF c \in S THEN o ELSE cg.list[c].image]
    <2>1. cg \in ComponentGroups /\ "override" \in Writers
      BY DEF ListTypeOK, Writers
    <2>2. cg = group[g] /\ reg' = [reg EXCEPT ![g] = OverriddenList(cg, o, S)]
      BY <2>1, <1>5, OverriddenListType, RegisterPatched DEF OverrideList
    <2>3. reg[g] = cg.list
      BY <2>2
    <2>4. \A c \in DOMAIN cg.list : cg.list[c] \in ComponentState
      BY <2>1, ListDomain DEF ComponentGroups
    <2>5. f \in [DOMAIN reg[g] -> Images \cup {NoImage}]
      BY <2>3, <2>4 DEF ComponentState, Images
    <2>6. \A c \in DOMAIN cg.list : cg.list[c] = [image |-> cg.list[c].image, time |-> cg.list[c].time]
      BY <2>4, ZenonT(30) DEF ComponentState
    <2>7. OverriddenList(cg, o, S) = [c \in DOMAIN cg.list |-> [image |-> f[c], time |-> cg.list[c].time]]
      BY <2>6, ZenonT(30) DEF OverriddenList
    <2>8. reg' = [reg EXCEPT ![g] = [c \in DOMAIN reg[g] |-> [image |-> f[c], time |-> reg[g][c].time]]]
      BY <2>2, <2>3, <2>7
    <2> HIDE DEF f
    <2> QED BY <2>5, <2>8, Zenon DEF Register!Override
  <1> QED BY <1>1, <1>2, <1>3, <1>4, <1>5 DEF ListNext, listVars, Restart, Refresh, Register!RegNext
-----------------------------------------------------------------------------
(* Types of the build controller's state *)

(* A worker without a reconcile has the type of one.                       *)
LEMMA IdleType ==
  /\ Idle \in Reconciles /\ Idle.pc = "idle" /\ Idle.todo \subseteq Idle.owners
  /\ NewPipelineRun \in PipelineRuns /\ SignedPipelineRun \in PipelineRuns
  /\ NoPipelineRun \in PipelineRuns /\ NewComponent \in Candidate
  <1>1. NewComponent \in Candidate
    BY ListAssumption DEF NewComponent, Candidate
  <1>2. NewPipelineRun \in PipelineRuns
    BY DEF NewPipelineRun, PipelineRuns
  <1>3. SignedPipelineRun \in PipelineRuns /\ NoPipelineRun \in PipelineRuns
    BY <1>2, Zenon DEF SignedPipelineRun, NoPipelineRun, PipelineRuns
  <1> QED BY <1>1, <1>2, <1>3 DEF Idle, Reconciles, Steps, Errors, Owners

(* An update of a PipelineRun changes that PipelineRun and may queue it.   *)
LEMMA UpdateType ==
  ASSUME TypeOK, NEW b \in Builds, NEW new \in PipelineRuns, NEW again, Update(b, new, again)
  PROVE  /\ plr' \in [Builds -> PipelineRuns] /\ queue' \subseteq Builds
         /\ plr'[b] = new /\ \A a \in Builds : a # b => plr'[a] = plr[a]
  BY DEF Update, TypeOK

(* The end of a reconcile queues its build or nothing.                     *)
LEMMA ReturnType ==
  ASSUME TypeOK, wk.pc # "idle", NEW again, Return(again)
  PROVE  /\ wk' \in Reconciles /\ wk'.todo \subseteq wk'.owners /\ wk'.pc = "idle"
         /\ queue' \subseteq Builds
  BY IdleType DEF Return, TypeOK

(* A disturbance is taken from the budget.                                 *)
LEMMA DisturbType ==
  ASSUME TypeOK, NEW d \in Disturbances, Disturb(d)
  PROVE  left' \in [Disturbances -> Nat]
  BY DEF Disturb, TypeOK

(* The groups of a build are among the owners of Snapshots.                *)
LEMMA OwnersType == ASSUME NEW b PROVE OwnersOf(b) \subseteq Owners
  BY DEF OwnersOf, Owners

(* A patch of the PipelineRun by the reconcile.                            *)
LEMMA AnnotateType ==
  ASSUME TypeOK, wk.pc # "idle", NEW new \in PipelineRuns, NEW pc \in Steps, Annotate(new, pc)
  PROVE  TypeOK'
  <1>1. plr' \in [Builds -> PipelineRuns] /\ queue' \subseteq Builds
    BY UpdateType, Zenon DEF Annotate, TypeOK
  <1>2. wk' \in Reconciles /\ wk'.todo \subseteq wk'.owners /\ wk'.b \in Builds
    BY Zenon DEF Annotate, TypeOK, Reconciles
  <1> QED BY <1>1, <1>2 DEF Annotate, TypeOK, ListTypeOK, listVars

(* Every way to end a reconcile early.                                     *)
LEMMA ReturnsType ==
  ASSUME TypeOK, wk.pc # "idle"
  PROVE  /\ FailAndReturn => TypeOK'
         /\ \A again \in BOOLEAN : NotFound(again) => TypeOK'
         /\ FailToFinal => TypeOK'
         /\ GoneToFinal => TypeOK'
  <1>1. ASSUME FailAndReturn PROVE TypeOK'
    <2>1. left' \in [Disturbances -> Nat]
      BY <1>1, DisturbType, ZenonT(30) DEF FailAndReturn, Disturbances
    <2> QED BY <1>1, <2>1, ReturnType, Zenon DEF FailAndReturn, TypeOK, ListTypeOK, listVars
  <1>2. ASSUME NEW again \in BOOLEAN, NotFound(again) PROVE TypeOK'
    BY <1>2, ReturnType DEF NotFound, TypeOK, ListTypeOK, listVars
  <1>3. ASSUME NEW remove \in BOOLEAN, ToFinal(remove, "api")
        PROVE  wk' \in Reconciles /\ wk'.todo \subseteq wk'.owners /\ wk'.b \in Builds
    BY <1>3, ZenonT(30) DEF ToFinal, TypeOK, Reconciles, Steps, Errors
  <1>4. ASSUME FailToFinal PROVE TypeOK'
    <2>1. left' \in [Disturbances -> Nat]
      BY <1>4, DisturbType DEF FailToFinal, Disturbances
    <2>2. wk.remove \in BOOLEAN
      BY ZenonT(30) DEF TypeOK, Reconciles
    <2> QED BY <1>3, <1>4, <2>1, <2>2 DEF FailToFinal, TypeOK, ListTypeOK, listVars
  <1>5. ASSUME GoneToFinal PROVE TypeOK'
    <2>1. wk.remove \in BOOLEAN
      BY DEF TypeOK, Reconciles
    <2> QED BY <1>3, <1>5, <2>1, Zenon DEF GoneToFinal, TypeOK, ListTypeOK, listVars
  <1> QED BY <1>1, <1>2, <1>4, <1>5

(* The steps of the writers of the lists, who leave the specs alone.       *)
ListWrites ==
  \/ Restart
  \/ \E g \in Groups :
    \/ \E w \in Writers : Refresh(w, g)
    \/ Align(g)
    \/ \E b \in Builds : PromoteBuild(b, g)
    \/ \E o \in Overrides, S \in SUBSET Components : OverrideList(o, g, S)

(* Every step of the build controller and its environment is a step of the *)
(* three writers of the lists or an edit, or leaves the lists alone.       *)
LEMMA WritesCompose ==
  ASSUME TypeOK, [BuildNext]_vars
  PROVE  ListWrites \/ Edits \/ UNCHANGED listVars
  <1>1. CASE UNCHANGED vars
    BY <1>1 DEF vars
  <1>2. CASE Step
    <2>1. ASSUME NEW g \in Groups, PromoteInGroup(g) PROVE ListWrites \/ UNCHANGED listVars
      <3>1. PromoteBuild(wk.b, g) \/ UNCHANGED listVars
        BY <2>1, ZenonT(30) DEF PromoteInGroup
      <3>2. wk.b \in Builds
        BY <2>1 DEF PromoteInGroup, TypeOK
      <3> QED BY <3>1, <3>2 DEF ListWrites
    <2>2. ASSUME NEW g \in Owners, AdoptExisting(g) \/ CreateSnapshot(g) PROVE UNCHANGED listVars
      BY <2>2, Zenon DEF AdoptExisting, CreateSnapshot, FailToFinal
    <2>3. CASE AddFinalizer \/ FinalAnnotate \/ RemoveFinalizer \/ MarkAdded
      BY <2>3, Zenon DEF AddFinalizer, FinalAnnotate, RemoveFinalizer, MarkAdded, Annotate, NotFound,
                  FailAndReturn
    <2>4. CASE PromoteNowhere \/ PromoteImage \/ PromoteTime \/ Decide
      BY <2>4, Zenon DEF PromoteNowhere, PromoteImage, PromoteTime, Decide, FailAndReturn
    <2>5. CASE AnnotateSingle \/ AppendName
      BY <2>5, Zenon DEF AnnotateSingle, AppendName, Annotate, GoneToFinal, FailToFinal
    <2> QED BY <1>2, <2>1, <2>2, <2>3, <2>4, <2>5 DEF Step
  <1>3. ASSUME NEW b \in Builds, Begin(b) PROVE UNCHANGED listVars
    BY <1>3 DEF Begin
  <1>4. ASSUME NEW o \in Overrides, OverrideGroup(o) PROVE ListWrites
    <2>1. OverrideOf[o].group \in Groups /\ OverrideOf[o].comps \in SUBSET Components
      BY BuildAssumption
    <2> QED BY <1>4, <2>1 DEF OverrideGroup, ListWrites
  <1>5. ASSUME NEW o \in Overrides, OverrideBegin(o) \/ OverrideTime(o) \/ OverrideMark(o)
        PROVE  UNCHANGED listVars
    BY <1>5 DEF OverrideBegin, OverrideTime, OverrideMark, OverrideFails
  <1>6. ASSUME NEW o \in Overrides, NEW c \in Components, OverrideImage(o, c)
        PROVE  UNCHANGED listVars
    BY <1>6 DEF OverrideImage, OverrideFails
  <1>7. CASE Lists
    BY <1>7 DEF Lists, ListWrites
  <1>8. CASE Cluster
    <2>1. ASSUME NEW b \in Builds, EndBuild(b) \/ SignBuild(b) \/ DeleteBuild(b)
          PROVE  UNCHANGED listVars
      BY <2>1, ZenonT(30) DEF EndBuild, SignBuild, DeleteBuild
    <2>2. CASE Crash
      BY <2>2 DEF Crash, ListWrites
    <2> QED BY <1>8, <2>1, <2>2 DEF Cluster, DeleteGroup, RefreshComponent
  <1> QED BY <1>1, <1>2, <1>3, <1>4, <1>5, <1>6, <1>7, <1>8 DEF BuildNext, Work, Writes

(* Every step of the composed system is a step of the lists' own module or *)
(* leaves the lists alone, so that what is proved of the lists carries over.*)
LEMMA ListsCompose ==
  ASSUME TypeOK, [BuildNext]_vars
  PROVE  [ListNext]_listVars
  <1>1. ListWrites => ListNext
    BY DEF ListWrites, ListNext
  <1>2. Edits => ListNext
    BY DEF Edits, ListNext
  <1> QED BY <1>1, <1>2, WritesCompose

(* The types outside the lists.                                            *)
LEMMA StepType ==
  ASSUME TypeOK, ListTypeOK', Step
  PROVE  TypeOK'
  <1>a. wk.pc # "idle" /\ wk.b \in Builds /\ plr[wk.b] \in PipelineRuns
    BY Zenon DEF Step, TypeOK, AddFinalizer, PromoteNowhere, PromoteImage, PromoteTime, MarkAdded,
           PromoteInGroup, Decide, AdoptExisting, CreateSnapshot, AnnotateSingle, AppendName,
           FinalAnnotate, RemoveFinalizer
  <1>1. CASE AddFinalizer
    <2> DEFINE p == plr[wk.b]
               new == IF p.deleting THEN p ELSE [p EXCEPT !.finalizer = TRUE]
               pc == AfterFinalize(wk.b, new, wk.last)
    <2>1. new \in PipelineRuns
      BY <1>a, ZenonT(30) DEF PipelineRuns
    <2>2. pc \in Steps
      BY DEF AfterFinalize, Steps
    <2>3. Annotate(new, pc) \/ NotFound(FALSE) \/ FailAndReturn
      BY <1>1, Zenon DEF AddFinalizer
    <2> HIDE DEF new, pc
    <2> QED BY <1>a, <2>1, <2>2, <2>3, AnnotateType, ReturnsType, Zenon
  <1>2. CASE PromoteNowhere
    BY <1>2, <1>a, Zenon DEF PromoteNowhere, Goto, TypeOK, Reconciles, Steps
  <1>3. ASSUME NEW new \in Candidate, WithComponent(BuildOf[wk.b], new)
        PROVE  comp' \in [Components -> Candidate] /\ compView' \in [Components -> Candidate]
    BY <1>3, <1>a, ListAssumption DEF WithComponent, TypeOK
  <1>4. CASE PromoteImage
    <2> DEFINE c == BuildOf[wk.b]
               new == [comp[c] EXCEPT !.image = wk.b]
    <2>1. new \in Candidate
      <3>1. comp[c] \in Candidate
        BY <1>a, ListAssumption DEF TypeOK
      <3> QED BY <1>a, <3>1 DEF Candidate, Images
    <2>2. FailAndReturn \/ (WithComponent(c, new) /\ Goto("time")
             /\ UNCHANGED <<listVars, model, about, edited, plr, snaps, over, gone, queue, left>>)
      BY <1>4 DEF PromoteImage
    <2> HIDE DEF new
    <2> QED BY <1>a, <1>3, <2>1, <2>2, ReturnsType, ZenonT(30) DEF Goto, TypeOK, Reconciles, Steps
  <1>5. CASE PromoteTime
    <2> DEFINE c == BuildOf[wk.b]
               new == [comp[c] EXCEPT !.built = start[wk.b]]
    <2>1. start[wk.b] \in 0 .. Latest + 1
      BY <1>a, ListAssumption DEF TypeOK, ListTypeOK
    <2>2. new \in Candidate
      <3>1. comp[c] \in Candidate
        BY <1>a, ListAssumption DEF TypeOK
      <3> QED BY <2>1, <3>1 DEF Candidate
    <2>3. FailAndReturn \/ (WithComponent(c, new) /\ Goto("mark")
             /\ UNCHANGED <<listVars, model, about, edited, plr, snaps, over, gone, queue, left>>)
      BY <1>5 DEF PromoteTime
    <2> HIDE DEF new
    <2> QED BY <1>a, <1>3, <2>2, <2>3, ReturnsType, ZenonT(30) DEF Goto, TypeOK, Reconciles, Steps
  <1>6. CASE MarkAdded
    <2>1. [plr[wk.b] EXCEPT !.added = IF wk.err = "none" THEN "true" ELSE "false"] \in PipelineRuns
      BY <1>a DEF PipelineRuns
    <2>2. ASSUME Return(TRUE), UNCHANGED <<listVars, model, about, edited, plr, snaps, comp,
                                           compView, over, gone, left>>
          PROVE  TypeOK'
      BY <1>a, <2>2, ReturnType, ZenonT(30) DEF TypeOK
    <2> QED BY <1>6, <1>a, <2>1, <2>2, AnnotateType, ReturnsType, Zenon DEF MarkAdded, Steps
  <1>7. ASSUME NEW g \in Groups, PromoteInGroup(g) PROVE TypeOK'
    <2>1. ASSUME NEW err \in Errors, PromotedOne(g, err)
          PROVE  wk' \in Reconciles /\ wk'.todo \subseteq wk'.owners /\ wk'.b \in Builds
      BY <2>1, <1>a, ZenonT(30) DEF PromotedOne, JoinErrors, TypeOK, Reconciles, Steps, Errors
    <2>2. \E err \in Errors : PromotedOne(g, err)
      BY <1>7, ZenonT(30) DEF PromoteInGroup, Errors
    <2>3. left' \in [Disturbances -> Nat]
      BY <1>7, DisturbType, ZenonT(30) DEF PromoteInGroup, Disturbances, TypeOK
    <2>4. UNCHANGED <<model, about, edited, plr, snaps, comp, compView, over, gone, queue>>
      BY <1>7, Zenon DEF PromoteInGroup
    <2> QED BY <2>1, <2>2, <2>3, <2>4 DEF TypeOK
  <1>8. CASE Decide
    <2>1. ASSUME NEW remove \in BOOLEAN, NEW err \in Errors, ToFinal(remove, err)
          PROVE  wk' \in Reconciles /\ wk'.todo \subseteq wk'.owners /\ wk'.b \in Builds
      BY <2>1, <1>a, Zenon DEF ToFinal, TypeOK, Reconciles, Steps
    <2>2. ASSUME NEW pc \in Steps,
                 wk' = [wk EXCEPT !.pc = pc, !.todo = wk.owners, !.err = "none"]
          PROVE  wk' \in Reconciles /\ wk'.todo \subseteq wk'.owners /\ wk'.b \in Builds
      BY <2>2, <1>a, Zenon DEF TypeOK, Reconciles, Errors
    <2>3. (HasPipelineRunFinished(wk.copy) \/ wk.copy.deleting) \in BOOLEAN
      BY DEF TypeOK, Reconciles, PipelineRuns, HasPipelineRunFinished
    <2>4. \/ \E remove \in BOOLEAN, err \in Errors : ToFinal(remove, err)
          \/ \E pc \in Steps : wk' = [wk EXCEPT !.pc = pc, !.todo = wk.owners, !.err = "none"]
      BY <1>8, <2>3, Zenon DEF Decide, Errors, Steps
    <2> QED BY <1>8, <1>a, <2>1, <2>2, <2>4, Zenon DEF Decide, TypeOK
  <1>9. ASSUME NEW g \in Owners, AdoptExisting(g) PROVE TypeOK'
    <2>1. ASSUME NEW pc \in Steps,
                 wk' = [wk EXCEPT !.todo = @ \ {g}, !.now = g, !.remove = TRUE, !.pc = pc],
                 UNCHANGED <<listVars, model, about, edited, plr, snaps, comp, compView, over,
                             gone, queue, left>>
          PROVE  TypeOK'
      BY <2>1, <1>a, Zenon DEF TypeOK, Reconciles
    <2> QED BY <1>9, <1>a, <2>1, ReturnsType, Zenon DEF AdoptExisting, Steps
  <1>10. ASSUME NEW g \in Owners, CreateSnapshot(g) PROVE TypeOK'
    <2>1. ASSUME about[wk.b].image = "ok",
                 snaps' = [snaps EXCEPT ![wk.b][g] = IF @ < MaxSnaps THEN @ + 1 ELSE @],
                 wk' = [wk EXCEPT !.todo = @ \ {g}, !.now = g, !.pc = "annotate"],
                 UNCHANGED <<listVars, model, about, edited, plr, comp, compView, over, gone,
                             queue, left>>
          PROVE  TypeOK'
      <3>1. snaps' \in [Builds -> [Owners -> 0 .. MaxSnaps]]
        BY <1>a, <2>1, BuildAssumption DEF TypeOK
      <3> QED BY <3>1, <2>1, <1>a, ZenonT(30) DEF TypeOK, Reconciles, Steps
    <2>2. ASSUME ToFinal(TRUE, "none"),
                 \/ Update(wk.b, [plr[wk.b] EXCEPT !.status = "failed"], FALSE)
                 \/ UNCHANGED <<plr, queue>>,
                 UNCHANGED <<listVars, model, about, edited, snaps, comp, compView, over, gone,
                             left>>
          PROVE  TypeOK'
      <3>1. [plr[wk.b] EXCEPT !.status = "failed"] \in PipelineRuns
        BY <1>a DEF PipelineRuns
      <3>2. plr' \in [Builds -> PipelineRuns] /\ queue' \subseteq Builds
        BY <1>a, <2>2, <3>1, UpdateType, Zenon DEF TypeOK
      <3> QED BY <1>a, <2>2, <3>2, Zenon DEF ToFinal, TypeOK, Reconciles, Steps, Errors
    <2>3. ASSUME Disturb("quota"), ToFinal(TRUE, "plain"),
                 UNCHANGED <<listVars, model, about, edited, plr, snaps, comp, compView, over,
                             gone, queue>>
          PROVE  TypeOK'
      <3>1. left' \in [Disturbances -> Nat]
        BY <2>3, DisturbType DEF Disturbances
      <3> QED BY <1>a, <2>3, <3>1, Zenon DEF ToFinal, TypeOK, Reconciles, Steps, Errors
    <2> QED BY <1>10, <1>a, <2>1, <2>2, <2>3, ReturnsType, Zenon DEF CreateSnapshot
  <1>11. CASE AnnotateSingle
    <2>1. [plr[wk.b] EXCEPT !.single = TRUE] \in PipelineRuns
      BY <1>a, Zenon DEF PipelineRuns
    <2> QED BY <1>11, <1>a, <2>1, AnnotateType, ReturnsType DEF AnnotateSingle, Steps
  <1>12. CASE AppendName
    <2> DEFINE new == [plr[wk.b] EXCEPT !.names = @ \cup {wk.now}]
    <2>1. new \in PipelineRuns
      BY <1>a, ZenonT(30) DEF TypeOK, Reconciles, PipelineRuns
    <2>2. ASSUME Update(wk.b, new, FALSE),
                 wk' = [wk EXCEPT !.copy = new, !.pc = AfterAnnotate, !.remove = @ \/ wk.todo = {}],
                 UNCHANGED <<listVars, model, about, edited, snaps, comp, compView, over, gone,
                             left>>
          PROVE  TypeOK'
      <3> HIDE DEF new
      <3>1. plr' \in [Builds -> PipelineRuns] /\ queue' \subseteq Builds
        BY <1>a, <2>1, <2>2, UpdateType, Zenon
      <3>2. AfterAnnotate \in Steps
        BY DEF AfterAnnotate, Steps
      <3>3. wk' \in Reconciles /\ wk'.todo \subseteq wk'.owners /\ wk'.b \in Builds
        BY <1>a, <2>1, <2>2, <3>2, Zenon DEF TypeOK, Reconciles
      <3> QED BY <2>2, <3>1, <3>3 DEF TypeOK
    <2> QED BY <1>12, <1>a, <2>2, ReturnsType, Zenon DEF AppendName
  <1>13. CASE FinalAnnotate
    <2> DEFINE p == plr[wk.b]
               new == IF p.deleting THEN p ELSE [p EXCEPT !.status = FinalStatus(p)]
    <2>1. new \in PipelineRuns
      BY <1>a, ZenonT(30) DEF PipelineRuns, FinalStatus
    <2>2. ASSUME Update(wk.b, new, wk.err # "none"), wk' = Idle,
                 UNCHANGED <<listVars, model, about, edited, snaps, comp, compView, over, gone,
                             left>>
          PROVE  TypeOK'
      <3> HIDE DEF new
      <3> QED BY <1>a, <2>1, <2>2, UpdateType, IdleType DEF TypeOK
    <2>3. Annotate(new, "release") => TypeOK'
      <3> HIDE DEF new
      <3> QED BY <1>a, <2>1, AnnotateType DEF Steps
    <2> QED BY <1>13, <1>a, <2>2, <2>3, ReturnsType, Zenon DEF FinalAnnotate
  <1>14. CASE RemoveFinalizer
    <2>1. Released(plr[wk.b]) \in PipelineRuns
      BY <1>a, ZenonT(30) DEF PipelineRuns, Released
    <2>2. ASSUME Update(wk.b, Released(plr[wk.b]), wk.err # "none"), wk' = Idle,
                 UNCHANGED <<listVars, model, about, edited, snaps, comp, compView, over, gone,
                             left>>
          PROVE  TypeOK'
      BY <1>a, <2>1, <2>2, UpdateType, IdleType DEF TypeOK
    <2> QED BY <1>14, <1>a, <2>2, ReturnsType, Zenon DEF RemoveFinalizer
  <1> QED BY <1>1, <1>2, <1>4, <1>5, <1>6, <1>7, <1>8, <1>9, <1>10, <1>11, <1>12, <1>13, <1>14
          DEF Step

(* A reconcile starts with the copy of the PipelineRun that the controller *)
(* was handed, and keeps the types.                                        *)
LEMMA BeginType ==
  ASSUME TypeOK, ListTypeOK', NEW b \in Builds, Begin(b)
  PROVE  TypeOK'
  <1>1. compView[BuildOf[b]] \in Candidate /\ plr[b] \in PipelineRuns
    BY ListAssumption DEF TypeOK
  <1>2. AfterFinalize(b, plr[b], compView[BuildOf[b]]) \in Steps
    BY DEF AfterFinalize, Steps
  <1>3. wk' \in Reconciles /\ wk'.todo \subseteq wk'.owners /\ (wk'.pc # "idle" => wk'.b \in Builds)
    <2>1. ASSUME NEW pc \in Steps,
                 wk' = [Idle EXCEPT !.pc = pc, !.b = b, !.copy = plr[b],
                          !.last = compView[BuildOf[b]],
                          !.owners = OwnersOf(b), !.todo = OwnersOf(b)]
          PROVE  wk' \in Reconciles /\ wk'.todo \subseteq wk'.owners /\ wk'.b \in Builds
      BY <2>1, <1>1, IdleType, OwnersType, Zenon DEF Reconciles
    <2> QED BY <1>2, <2>1, IdleType, ZenonT(30) DEF Begin, Steps
  <1> QED BY <1>3, ZenonT(30) DEF Begin, TypeOK

(* The override operation of the snapshot controller.                      *)
LEMMA WritesType ==
  ASSUME TypeOK, ListTypeOK', Writes
  PROVE  TypeOK'
  <1> DEFINE Overs == [pc: {"new", "apply", "time", "mark", "done"},
                       todo: SUBSET Components, now: Components \cup {NoImage}]
             OverOK == /\ over' \in [Overrides -> Overs]
                       /\ \A o \in Overrides : over'[o].pc = "time" => over'[o].now \in Components
             Others == UNCHANGED <<model, about, edited, plr, snaps, gone, queue, wk>>
  <1>1. ASSUME NEW o \in Overrides, NEW new \in Overs, new.pc = "time" => new.now \in Components,
               over' = [over EXCEPT ![o] = new]
        PROVE  OverOK
    BY <1>1 DEF TypeOK
  <1>2. NewOverride \in Overs /\ NewOverride.pc # "time"
    BY DEF NewOverride
  <1>3. \A o \in Overrides : over[o] \in Overs /\ OverrideOf[o].comps \subseteq Components
    BY BuildAssumption, ZenonT(30) DEF TypeOK
  <1> HIDE DEF Overs, OverOK
  <1>4. ASSUME NEW o \in Overrides, OverrideFails(o), Others PROVE TypeOK'
    <2>1. left' \in [Disturbances -> Nat]
      BY <1>4, DisturbType DEF OverrideFails, Disturbances
    <2>2. OverOK
      BY <1>1, <1>2, <1>4, Zenon DEF OverrideFails
    <2> QED BY <1>4, <2>1, <2>2 DEF OverrideFails, OverOK, Overs, TypeOK
  <1>5. ASSUME NEW o \in Overrides, OverrideBegin(o) PROVE TypeOK'
    <2> DEFINE new == [over[o] EXCEPT !.pc = "apply", !.todo = OverrideOf[o].comps]
    <2>1. new \in Overs /\ new.pc # "time"
      BY <1>3, Zenon DEF Overs
    <2>2. over' = [over EXCEPT ![o] = new]
      BY <1>5, Zenon DEF OverrideBegin, TypeOK
    <2> HIDE DEF new
    <2>3. OverOK
      BY <1>1, <2>1, <2>2, Zenon
    <2> QED BY <1>5, <2>3 DEF OverrideBegin, OverOK, Overs, TypeOK
  <1>6. ASSUME NEW o \in Overrides, NEW pc \in {"apply", "mark", "done"},
               over' = [over EXCEPT ![o].pc = pc]
        PROVE  OverOK
    <2> DEFINE new == [over[o] EXCEPT !.pc = pc]
    <2>1. new \in Overs /\ new.pc # "time"
      BY <1>3 DEF Overs
    <2>2. over' = [over EXCEPT ![o] = new]
      BY <1>6 DEF TypeOK
    <2> HIDE DEF new
    <2> QED BY <1>1, <2>1, <2>2, Zenon
  <1>7. ASSUME NEW o \in Overrides, OverrideGroup(o) \/ OverrideMark(o) PROVE TypeOK'
    <2>1. CASE OverrideGroup(o)
      BY <2>1, <1>6, Zenon DEF OverrideGroup, OverOK, Overs, TypeOK
    <2>2. CASE OverrideMark(o)
      BY <2>2, <1>4, <1>6, ZenonT(30) DEF OverrideMark, OverOK, Overs, TypeOK
    <2> QED BY <1>7, <2>1, <2>2
  <1>8. ASSUME NEW c \in Components, NEW new \in Candidate, WithComponent(c, new)
        PROVE  comp' \in [Components -> Candidate] /\ compView' \in [Components -> Candidate]
    BY <1>8 DEF WithComponent, TypeOK
  <1>9. ASSUME NEW o \in Overrides, OverrideTime(o) PROVE TypeOK'
    <2> DEFINE c == over[o].now
               new == [comp[c] EXCEPT !.built = Latest + 1]
    <2>1. c \in Components
      BY <1>9 DEF OverrideTime, TypeOK
    <2>2. new \in Candidate
      <3>1. comp[c] \in Candidate
        BY <2>1, Zenon DEF TypeOK
      <3>2. Latest + 1 \in 0 .. Latest + 1
        BY ListAssumption
      <3> QED BY <3>1, <3>2, ZenonT(30) DEF Candidate
    <2>3. \/ OverrideFails(o) /\ Others
          \/ /\ WithComponent(c, new) /\ Others /\ UNCHANGED <<listVars, left>>
             /\ \E pc \in {"apply", "mark", "done"} : over' = [over EXCEPT ![o].pc = pc]
      BY <1>9, ZenonT(30) DEF OverrideTime
    <2> HIDE DEF c, new
    <2> QED BY <1>4, <1>6, <1>8, <2>1, <2>2, <2>3 DEF OverOK, Overs, TypeOK
  <1>10. ASSUME NEW o \in Overrides, NEW c \in Components, OverrideImage(o, c) PROVE TypeOK'
    <2> DEFINE new == [comp[c] EXCEPT !.image = o]
               ov == [pc |-> "time", todo |-> over[o].todo \ {c}, now |-> c]
    <2>1. new \in Candidate
      <3>1. comp[c] \in Candidate
        BY Zenon DEF TypeOK
      <3> QED BY <3>1, ZenonT(30) DEF Candidate, Images
    <2>2. ov \in Overs /\ ov.now \in Components
      BY <1>3, Zenon DEF Overs
    <2>3. \/ OverrideFails(o) /\ Others
          \/ /\ WithComponent(c, new) /\ Others /\ UNCHANGED <<listVars, left>>
             /\ over' = [over EXCEPT ![o] = ov]
      BY <1>10 DEF OverrideImage, TypeOK
    <2> HIDE DEF ov, new
    <2> QED BY <1>1, <1>4, <1>8, <2>1, <2>2, <2>3, Zenon DEF OverOK, Overs, TypeOK
  <1> QED BY <1>5, <1>7, <1>9, <1>10 DEF Writes

(* The cluster, the editing users and the informer caches keep the types.  *)
LEMMA ClusterType ==
  ASSUME TypeOK, ListTypeOK', Lists \/ Edits \/ Cluster
  PROVE  TypeOK'
  <1>1. CASE Lists
    <2>1. /\ model' = model /\ about' = about /\ plr' = plr /\ snaps' = snaps /\ comp' = comp
          /\ compView' = compView /\ over' = over /\ gone' = gone /\ queue' = queue /\ wk' = wk
          /\ edited' = edited /\ left' = left
      BY <1>1, ZenonT(30) DEF Lists, buildVars
    <2> QED BY <2>1, ZenonT(30) DEF TypeOK
  <1>2. CASE Edits
    <2>1. left' \in [Disturbances -> Nat]
      BY <1>2, DisturbType DEF Edits, Disturbances
    <2> QED BY <1>2, <2>1 DEF Edits, TypeOK
  <1>3. ASSUME NEW b \in Builds, EndBuild(b) \/ SignBuild(b) PROVE TypeOK'
    <2>1. \E new \in PipelineRuns : Update(b, new, FALSE)
      <3>1. plr[b] \in PipelineRuns
        BY DEF TypeOK
      <3>2. \A st \in {"succeeded", "failed"} : [plr[b] EXCEPT !.state = st] \in PipelineRuns
        BY <3>1 DEF PipelineRuns
      <3>3. [plr[b] EXCEPT !.signed = TRUE] \in PipelineRuns
        BY <3>1, Zenon DEF PipelineRuns
      <3> QED BY <1>3, <3>2, <3>3, Zenon DEF EndBuild, SignBuild
    <2>2. plr' \in [Builds -> PipelineRuns] /\ queue' \subseteq Builds
      BY <2>1, UpdateType, Zenon
    <2> QED BY <1>3, <2>2, Zenon DEF EndBuild, SignBuild, TypeOK
  <1>4. ASSUME NEW b \in Builds, DeleteBuild(b) PROVE TypeOK'
    <2> DEFINE p == [plr[b] EXCEPT !.deleting = TRUE]
               q == [p EXCEPT !.early = p.state = "running"]
               new == IF q.finalizer THEN q ELSE Released(q)
    <2>1. new \in PipelineRuns
      <3>1. plr[b] \in PipelineRuns
        BY DEF TypeOK
      <3>2. p \in PipelineRuns
        BY <3>1, Zenon DEF PipelineRuns
      <3> HIDE DEF p
      <3>3. q \in PipelineRuns
        BY <3>2, Zenon DEF PipelineRuns
      <3> HIDE DEF q
      <3> QED BY <3>3, ZenonT(30) DEF PipelineRuns, Released
    <2>2. Update(b, new, FALSE)
      BY <1>4, Zenon DEF DeleteBuild
    <2> HIDE DEF new
    <2>3. plr' \in [Builds -> PipelineRuns] /\ queue' \subseteq Builds
      BY <2>1, <2>2, UpdateType, Zenon
    <2>4. left' \in [Disturbances -> Nat]
      BY <1>4, DisturbType, ZenonT(30) DEF DeleteBuild, Disturbances
    <2> QED BY <1>4, <2>3, <2>4 DEF DeleteBuild, TypeOK
  <1>5. ASSUME NEW g \in Groups, DeleteGroup(g) PROVE TypeOK'
    <2>1. left' \in [Disturbances -> Nat]
      BY <1>5, DisturbType, ZenonT(30) DEF DeleteGroup, Disturbances
    <2> QED BY <1>5, <2>1 DEF DeleteGroup, TypeOK
  <1>6. ASSUME NEW c \in Components, RefreshComponent(c) PROVE TypeOK'
    BY <1>6, ZenonT(30) DEF RefreshComponent, TypeOK
  <1>7. CASE Crash
    <2>1. left' \in [Disturbances -> Nat]
      BY <1>7, DisturbType, ZenonT(30) DEF Crash, Disturbances
    <2> QED BY <1>7, <2>1, IdleType DEF Crash, NewOverride, TypeOK
  <1> QED BY <1>1, <1>2, <1>3, <1>4, <1>5, <1>6, <1>7, ZenonT(30) DEF Cluster

(* The type invariant, with the lock and the alignment of the lists, which *)
(* the steps of the build controller keep.                                 *)
BuildInv == TypeOK /\ ListInv

(* The types hold of new builds, lists and components, and the lists are   *)
(* aligned or still to be aligned.                                         *)
LEMMA BuildInitial == BuildInit => BuildInv
  <1> SUFFICES ASSUME BuildInit PROVE BuildInv
    OBVIOUS
  <1>1. ListInv
    BY ListInitial DEF BuildInit
  <1>2. comp \in [Components -> Candidate] /\ compView \in [Components -> Candidate]
    BY IdleType DEF BuildInit
  <1>3. snaps \in [Builds -> [Owners -> 0 .. MaxSnaps]]
    BY BuildAssumption DEF BuildInit
  <1>4. plr \in [Builds -> PipelineRuns]
    BY IdleType DEF BuildInit
  <1>5. left \in [Disturbances -> Nat]
    BY BuildAssumption DEF BuildInit
  <1>6. /\ over \in [Overrides -> [pc: {"new", "apply", "time", "mark", "done"},
                                   todo: SUBSET Components, now: Components \cup {NoImage}]]
        /\ \A o \in Overrides : over[o].pc = "time" => over[o].now \in Components
    <2> DEFINE Done == [NewOverride EXCEPT !.pc = "done"]
    <2>1. \A new \in {NewOverride, Done} :
            /\ new \in [pc: {"new", "apply", "time", "mark", "done"},
                        todo: SUBSET Components, now: Components \cup {NoImage}]
            /\ new.pc # "time"
      BY DEF NewOverride
    <2>2. over \in [Overrides -> {NewOverride, Done}]
      BY DEF BuildInit
    <2> HIDE DEF Done
    <2> QED BY <2>1, <2>2
  <1>7. /\ model \in Models /\ about \in [Builds -> Kinds] /\ gone \subseteq Groups
        /\ queue \subseteq Builds /\ edited \in BOOLEAN /\ wk = Idle
    BY Zenon DEF BuildInit
  <1> QED BY <1>1, <1>2, <1>3, <1>4, <1>5, <1>6, <1>7, IdleType DEF BuildInv, ListInv, TypeOK

(* Every step of the controllers and of the cluster keeps the types and the*)
(* invariant of the lists.                                                 *)
LEMMA BuildStep == BuildInv /\ [BuildNext]_vars => BuildInv'
  <1> SUFFICES ASSUME BuildInv, [BuildNext]_vars PROVE BuildInv'
    OBVIOUS
  <1>1. ListInv' /\ ListTypeOK'
    BY ListsCompose, ListStep, ZenonT(30) DEF BuildInv, ListInv
  <1>2. CASE UNCHANGED vars
    BY <1>1, <1>2 DEF vars, buildVars, BuildInv, TypeOK
  <1>3. CASE BuildNext
    <2>1. TypeOK'
      BY <1>1, <1>3, StepType, BeginType, WritesType, ClusterType DEF BuildNext, Work, BuildInv
    <2> QED BY <1>1, <2>1 DEF BuildInv
  <1> QED BY <1>2, <1>3

(* Every variable keeps its type, the lists keep their invariant, and the  *)
(* reconcile of the build pipeline controller always has a build, whatever *)
(* the constants, the order of the writers, the faults and the restarts.   *)
THEOREM BuildTypeCorrect == BuildSpec => []BuildInv
  <1>1. BuildInit => BuildInv
    BY BuildInitial
  <1>2. BuildInv /\ [BuildNext]_vars => BuildInv'
    BY BuildStep
  <1> QED BY <1>1, <1>2, PTL DEF BuildSpec

(* EnsureGCLAlignedWithSpecComponents: once a group is aligned its list    *)
(* has the components of its spec, for any number of groups, builds and    *)
(* override Snapshots and whatever the caches of the writers hold.         *)
THEOREM ListsStayAligned == BuildSpec => []AlignedWithSpec
  <1>1. BuildInv => AlignedWithSpec
    BY DEF BuildInv, ListInv
  <1> QED BY <1>1, BuildTypeCorrect, PTL

(* The lists with their three writers implement the register: promotions,  *)
(* overrides and alignments that race under optimistic locks look like     *)
(* atomic updates, and an older build never replaces a newer candidate.    *)
THEOREM ListsImplementRegister == BuildSpec => ImplementsRegister
  <1>1. BuildInit => Register!RegInit
    BY RegisterInitial DEF BuildInit
  <1>2. BuildInv /\ [BuildNext]_vars => [Register!RegNext]_[g \in Groups |-> group[g].list]
    BY ListsCompose, RegisterStep DEF BuildInv
  <1> QED BY <1>1, <1>2, BuildTypeCorrect, PTL DEF BuildSpec, ImplementsRegister, Register!RegSpec

(* The start times of the builds, and the times that the lists and the     *)
(* Components record, are numbers that the controllers may compare.        *)
LEMMA StartType ==
  ASSUME ListTypeOK
  PROVE  \A b \in Builds : start[b] \in Nat /\ start[b] <= Latest /\ BuildOf[b] \in Components
  BY ListAssumption DEF ListTypeOK

(* The groups and their copies in the build controller.                    *)
LEMMA GroupType ==
  ASSUME ListTypeOK
  PROVE  \A g \in Groups : group[g] \in ComponentGroups /\ view["build"][g] \in ComponentGroups
  BY DEF ListTypeOK, Writers

(* The promotion times in a list (LastPromotedBuildTime).                  *)
LEMMA EntryTimeType ==
  ASSUME NEW list \in CandidateLists
  PROVE  \A c \in DOMAIN list : list[c].time \in Nat
  BY ListAssumption, SMTT(20) DEF CandidateLists, ComponentState

(* The build time of the last promoted image of a Component.               *)
LEMMA BuiltType ==
  ASSUME TypeOK
  PROVE  \A c \in Components : comp[c].built \in Nat
  <1>1. comp \in [Components -> Candidate]
    BY ZenonT(30) DEF TypeOK
  <1>2. \A x \in Candidate : x.built \in Nat
    BY ListAssumption DEF Candidate
  <1> QED BY <1>1, <1>2, Zenon

(* Which patches of a build touch its finalizer or the mark that it was    *)
(* promoted.                                                               *)
LEMMA WhoPatches ==
  ASSUME TypeOK, BuildNext, NEW b \in Builds
  PROVE  \/ plr'[b].finalizer = plr[b].finalizer /\ plr'[b].added = plr[b].added
         \/ AddFinalizer /\ b = wk.b /\ plr'[b].finalizer /\ plr'[b].added = plr[b].added
         \/ MarkAdded /\ b = wk.b /\ plr'[b].finalizer = plr[b].finalizer
         \/ RemoveFinalizer /\ b = wk.b /\ plr'[b].added = plr[b].added
  <1> DEFINE Goal ==
               \/ plr'[b].finalizer = plr[b].finalizer /\ plr'[b].added = plr[b].added
               \/ AddFinalizer /\ b = wk.b /\ plr'[b].finalizer /\ plr'[b].added = plr[b].added
               \/ MarkAdded /\ b = wk.b /\ plr'[b].finalizer = plr[b].finalizer
               \/ RemoveFinalizer /\ b = wk.b /\ plr'[b].added = plr[b].added
  <1> SUFFICES Goal
    BY ZenonT(30)
  <1>1. ASSUME NEW c \in Builds, NEW new, NEW again, Update(c, new, again),
               new.finalizer = plr[c].finalizer, new.added = plr[c].added
        PROVE  Goal
    BY <1>1 DEF Update, TypeOK
  <1>2. ASSUME UNCHANGED plr PROVE Goal
    BY <1>2, ZenonT(30)
  <1> HIDE DEF Goal
  <1>3. \A c \in Builds : plr[c] \in PipelineRuns
    BY DEF TypeOK
  <1>4. CASE Step
    <2>a. wk.b \in Builds
      BY <1>4, Zenon DEF Step, TypeOK, AddFinalizer, PromoteNowhere, PromoteImage, PromoteTime, MarkAdded,
                  PromoteInGroup, Decide, AdoptExisting, CreateSnapshot, AnnotateSingle, AppendName,
                  FinalAnnotate, RemoveFinalizer
    <2> DEFINE p == plr[wk.b]
    <2>b. p \in PipelineRuns
      BY <2>a, <1>3, ZenonT(30)
    <2>1. CASE AddFinalizer
      <3> DEFINE new == IF p.deleting THEN p ELSE [p EXCEPT !.finalizer = TRUE]
      <3>1. new.added = p.added /\ (new.finalizer \/ new.finalizer = p.finalizer)
        BY <2>b, Zenon DEF PipelineRuns
      <3>2. UNCHANGED plr \/ plr' = [plr EXCEPT ![wk.b] = new]
        BY <2>1, ZenonT(30) DEF AddFinalizer, Annotate, Update, NotFound, FailAndReturn
      <3> HIDE DEF new
      <3> QED BY <1>2, <2>1, <2>a, <3>1, <3>2, Zenon DEF Goal, TypeOK
    <2>2. CASE MarkAdded
      <3> DEFINE new == [p EXCEPT !.added = IF wk.err = "none" THEN "true" ELSE "false"]
      <3>1. new.finalizer = p.finalizer
        BY <2>b DEF PipelineRuns
      <3>2. UNCHANGED plr \/ Update(wk.b, new, FALSE)
        BY <2>2, Zenon DEF MarkAdded, Annotate, NotFound, FailAndReturn
      <3> HIDE DEF new
      <3> QED BY <1>2, <2>2, <2>a, <3>1, <3>2 DEF Goal, Update, TypeOK
    <2>3. ASSUME NEW g \in Owners, CreateSnapshot(g) PROVE Goal
      <3> DEFINE new == [p EXCEPT !.status = "failed"]
      <3>1. new.finalizer = p.finalizer /\ new.added = p.added
        BY <2>b DEF PipelineRuns
      <3>2. UNCHANGED plr \/ Update(wk.b, new, FALSE)
        BY <2>3, Zenon DEF CreateSnapshot, FailToFinal
      <3> QED BY <1>1, <1>2, <2>a, <3>1, <3>2, Zenon
    <2>4. CASE AnnotateSingle
      <3> DEFINE new == [p EXCEPT !.single = TRUE]
      <3>1. new.finalizer = p.finalizer /\ new.added = p.added
        BY <2>b DEF PipelineRuns
      <3>2. UNCHANGED plr \/ Update(wk.b, new, FALSE)
        BY <2>4, Zenon DEF AnnotateSingle, Annotate, GoneToFinal, FailToFinal
      <3> QED BY <1>1, <1>2, <2>a, <3>1, <3>2, Zenon
    <2>5. CASE AppendName
      <3> DEFINE new == [p EXCEPT !.names = @ \cup {wk.now}]
      <3>1. new.finalizer = p.finalizer /\ new.added = p.added
        BY <2>b DEF PipelineRuns
      <3>2. UNCHANGED plr \/ Update(wk.b, new, FALSE)
        BY <2>5, Zenon DEF AppendName, GoneToFinal, FailToFinal
      <3> QED BY <1>1, <1>2, <2>a, <3>1, <3>2, Zenon
    <2>6. CASE FinalAnnotate
      <3> DEFINE new == IF p.deleting THEN p ELSE [p EXCEPT !.status = FinalStatus(p)]
      <3>1. new.finalizer = p.finalizer /\ new.added = p.added
        BY <2>b DEF PipelineRuns
      <3>2. UNCHANGED plr \/ Update(wk.b, new, FALSE) \/ Update(wk.b, new, wk.err # "none")
        BY <2>6, ZenonT(30) DEF FinalAnnotate, Annotate, NotFound, FailAndReturn
      <3> HIDE DEF new
      <3> QED BY <1>1, <1>2, <2>a, <3>1, <3>2, Zenon
    <2>7. CASE RemoveFinalizer
      <3>1. Released(p).added = p.added
        BY <2>b DEF PipelineRuns, Released
      <3>2. UNCHANGED plr \/ plr' = [plr EXCEPT ![wk.b] = Released(p)]
        BY <2>7, Zenon DEF RemoveFinalizer, Update, NotFound, FailAndReturn
      <3> QED BY <1>2, <2>7, <2>a, <3>1, <3>2, ZenonT(30) DEF Goal, TypeOK
    <2>8. CASE PromoteNowhere \/ PromoteImage \/ PromoteTime \/ Decide
      BY <1>2, <2>8, Zenon DEF PromoteNowhere, PromoteImage, PromoteTime, Decide, FailAndReturn
    <2>9. ASSUME NEW g \in Owners, AdoptExisting(g) PROVE Goal
      BY <1>2, <2>9, ZenonT(30) DEF AdoptExisting, FailToFinal
    <2>10. ASSUME NEW g \in Groups, PromoteInGroup(g) PROVE Goal
      BY <1>2, <2>10, Zenon DEF PromoteInGroup
    <2> QED BY <1>4, <2>1, <2>2, <2>3, <2>4, <2>5, <2>6, <2>7, <2>8, <2>9, <2>10, ZenonT(30) DEF Step
  <1>5. ASSUME NEW c \in Builds, Begin(c) PROVE Goal
    BY <1>2, <1>5 DEF Begin
  <1>6. CASE Writes \/ Lists \/ Edits
    BY <1>2, <1>6, ZenonT(30) DEF Writes, OverrideBegin, OverrideGroup, OverrideTime, OverrideMark, OverrideImage,
                Lists, Edits, buildVars
  <1>7. ASSUME NEW c \in Builds, EndBuild(c) \/ SignBuild(c) PROVE Goal
    <2>1. /\ \A st : LET p == [plr[c] EXCEPT !.state = st]
                     IN  p.finalizer = plr[c].finalizer /\ p.added = plr[c].added
          /\ LET p == [plr[c] EXCEPT !.signed = TRUE]
             IN  p.finalizer = plr[c].finalizer /\ p.added = plr[c].added
      BY <1>3 DEF PipelineRuns
    <2> QED BY <1>1, <1>7, <2>1, Zenon DEF EndBuild, SignBuild
  <1>8. ASSUME NEW c \in Builds, DeleteBuild(c) PROVE Goal
    <2> DEFINE p == [plr[c] EXCEPT !.deleting = TRUE]
               q == [p EXCEPT !.early = p.state = "running"]
               new == IF q.finalizer THEN q ELSE Released(q)
    <2>1. q \in PipelineRuns /\ q.finalizer = plr[c].finalizer /\ q.added = plr[c].added
      <3>1. p \in PipelineRuns /\ p.finalizer = plr[c].finalizer /\ p.added = plr[c].added
        BY <1>3, ZenonT(30) DEF PipelineRuns
      <3> HIDE DEF p
      <3> QED BY <3>1, Zenon DEF PipelineRuns
    <2>2. Update(c, new, FALSE)
      BY <1>8, Zenon DEF DeleteBuild
    <2> HIDE DEF q
    <2>3. new.finalizer = plr[c].finalizer /\ new.added = plr[c].added
      BY <1>3, <2>1, Zenon DEF Released, PipelineRuns
    <2> QED BY <1>1, <2>2, <2>3, Zenon
  <1>9. CASE \/ \E g \in Groups : DeleteGroup(g)
             \/ \E c \in Components : RefreshComponent(c)
             \/ Crash
    BY <1>2, <1>9 DEF DeleteGroup, RefreshComponent, Crash
  <1> QED BY <1>4, <1>5, <1>6, <1>7, <1>8, <1>9, ZenonT(30) DEF BuildNext, Work, Cluster
-----------------------------------------------------------------------------
(* What a step leaves alone *)

(* Without edits the specs are what they were, in every copy.              *)
SpecsAgree == \A w \in Writers, g \in Groups : view[w][g].spec = group[g].spec

(* A patch of a list leaves the specs alone.                               *)
LEMMA PatchKeepsSpecs ==
  ASSUME ListTypeOK, SpecsAgree, NEW w \in Writers, NEW g \in Groups, NEW list, PatchList(w, g, list)
  PROVE  SpecsAgree' /\ \A h \in Groups : group'[h].spec = group[h].spec
  <1>1. CASE UNCHANGED <<group, view, fresh>>
    BY <1>1, ZenonT(30) DEF SpecsAgree
  <1>2. CASE NewVersion(w, g, [group[g] EXCEPT !.list = list])
    <2> DEFINE new == [group[g] EXCEPT !.list = list]
    <2>1. new.spec = group[g].spec
      BY DEF ListTypeOK, ComponentGroups
    <2>2. NewVersion(w, g, new)
      BY <1>2
    <2> HIDE DEF new
    <2>3. \A h \in Groups : group'[h] = IF h = g THEN new ELSE group[h]
      BY <2>2 DEF NewVersion, ListTypeOK
    <2>4. \A v \in Writers, h \in Groups : view'[v][h] = IF v = w /\ h = g THEN new ELSE view[v][h]
      BY <2>2 DEF NewVersion, ListTypeOK
    <2> QED BY <2>1, <2>3, <2>4, SMTT(30) DEF SpecsAgree
  <1> QED BY <1>1, <1>2, SMTT(30) DEF PatchList

(* While nobody edits a ComponentGroup, its spec and every copy of it stay *)
(* what they are.                                                          *)
LEMMA SpecsKept ==
  ASSUME BuildInv, SpecsAgree, [BuildNext]_vars, ~edited'
  PROVE  SpecsAgree' /\ \A g \in Groups : group'[g].spec = group[g].spec
  <1> DEFINE Goal == SpecsAgree' /\ \A g \in Groups : group'[g].spec = group[g].spec
  <1> SUFFICES Goal
    BY ZenonT(30)
  <1>a. TypeOK /\ ListTypeOK
    BY DEF BuildInv, TypeOK
  <1>1. ASSUME UNCHANGED listVars PROVE Goal
    BY <1>1 DEF listVars, SpecsAgree
  <1>2. CASE Restart
    <2>1. view' = [w \in Writers |-> group] /\ group' = group
      BY <1>2 DEF Restart
    <2> QED BY <2>1 DEF SpecsAgree
  <1>3. ASSUME NEW g \in Groups, NEW w \in Writers, Refresh(w, g) PROVE Goal
    BY <1>3, <1>a, ZenonT(30) DEF Refresh, SpecsAgree, ListTypeOK
  <1>4. ASSUME NEW g \in Groups, NEW w \in Writers, NEW list, PatchList(w, g, list) PROVE Goal
    BY <1>4, <1>a, PatchKeepsSpecs
  <1>5. ~Edits
    BY DEF Edits
  <1> HIDE DEF Goal
  <1> QED BY <1>1, <1>2, <1>3, <1>4, <1>5, <1>a, WritesCompose, ZenonT(30)
          DEF ListWrites, Align, PromoteBuild, UpdateGCLEntry, OverrideList, Writers

(* The setting of the builds does not change, and groups do not come back. *)
LEMMA SettingKept ==
  ASSUME [BuildNext]_vars
  PROVE  UNCHANGED <<model, about>> /\ gone \subseteq gone' /\ edited' \in {edited, TRUE}
  <1>1. CASE UNCHANGED vars
    BY <1>1 DEF vars, buildVars
  <1>2. CASE Step
    <2>1. CASE AddFinalizer \/ FinalAnnotate \/ RemoveFinalizer \/ MarkAdded
      BY <2>1, Zenon DEF AddFinalizer, FinalAnnotate, RemoveFinalizer, MarkAdded, Annotate, NotFound,
                  FailAndReturn
    <2>2. CASE PromoteNowhere \/ PromoteImage \/ PromoteTime \/ Decide
      BY <2>2, Zenon DEF PromoteNowhere, PromoteImage, PromoteTime, Decide, FailAndReturn
    <2>3. CASE AnnotateSingle \/ AppendName
      BY <2>3, Zenon DEF AnnotateSingle, AppendName, Annotate, GoneToFinal, FailToFinal
    <2>4. ASSUME NEW g \in Owners, AdoptExisting(g) \/ CreateSnapshot(g)
          PROVE  UNCHANGED <<model, about, gone, edited>>
      BY <2>4, ZenonT(30) DEF AdoptExisting, CreateSnapshot, FailToFinal
    <2>5. ASSUME NEW g \in Groups, PromoteInGroup(g)
          PROVE  UNCHANGED <<model, about, gone, edited>>
      BY <2>5 DEF PromoteInGroup
    <2> QED BY <1>2, <2>1, <2>2, <2>3, <2>4, <2>5, ZenonT(30) DEF Step
  <1>3. ASSUME NEW b \in Builds, Begin(b) PROVE UNCHANGED <<model, about, gone, edited>>
    BY <1>3 DEF Begin
  <1>4. CASE Writes \/ Lists
    BY <1>4, Zenon DEF Writes, OverrideBegin, OverrideGroup, OverrideTime, OverrideMark, OverrideImage,
                Lists, buildVars
  <1>5. CASE Edits
    BY <1>5 DEF Edits
  <1>6. CASE Cluster
    BY <1>6, ZenonT(30) DEF Cluster, EndBuild, SignBuild, DeleteBuild, DeleteGroup, RefreshComponent, Crash
  <1> QED BY <1>1, <1>2, <1>3, <1>4, <1>5, <1>6, ZenonT(30) DEF BuildNext, Work

(* So the owners of a build stay the same.                                 *)
LEMMA OwnersKept ==
  ASSUME BuildInv, SpecsAgree, [BuildNext]_vars, ~edited'
  PROVE  /\ gone \subseteq gone' /\ ~edited
         /\ \A b \in Builds : OwnersOf(b)' = {g \in OwnersOf(b) : g \notin gone'}
  <1>1. /\ \A g \in Groups : view'["build"][g].spec = view["build"][g].spec
    BY SpecsKept DEF SpecsAgree, Writers
  <1>2. UNCHANGED model /\ gone \subseteq gone' /\ ~edited
    BY SettingKept, ZenonT(30) DEF BuildInv, TypeOK
  <1>3. gone' \subseteq Groups /\ App \notin Groups
    BY BuildStep, BuildAssumption DEF BuildInv, TypeOK
  <1> QED BY <1>1, <1>2, <1>3, ZenonT(30) DEF OwnersOf

(* Other actors leave the reconcile in flight and the Snapshots alone; a   *)
(* restart ends it.                                                        *)
LEMMA OthersApart ==
  ASSUME Writes \/ Lists \/ Edits \/ Cluster
  PROVE  UNCHANGED snaps /\ (UNCHANGED wk \/ (wk' = Idle /\ Crash))
  <1>1. CASE Writes \/ Lists \/ Edits
    BY <1>1, Zenon DEF Writes, OverrideBegin, OverrideGroup, OverrideTime, OverrideMark, OverrideImage,
                Lists, Edits, buildVars
  <1>2. CASE Cluster
    BY <1>2, Zenon DEF Cluster, EndBuild, SignBuild, DeleteBuild, DeleteGroup, RefreshComponent, Crash
  <1> QED BY <1>1, <1>2
=============================================================================
