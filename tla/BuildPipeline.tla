---------------------------- MODULE BuildPipeline ----------------------------
(***************************************************************************)
(* The build pipeline controller: a build PipelineRun gets a finalizer,    *)
(* its image is promoted to the Global Candidate Lists when it is a push   *)
(* build that succeeded and was signed, and a Snapshot is created for each *)
(* ComponentGroup (or for the Application) of its component; then the      *)
(* finalizer is removed.  The override operation of the snapshot           *)
(* controller and the componentgroup controller write the same lists.      *)
(*                                                                         *)
(* One reconcile is a sequence of steps, each one call to the API server.  *)
(* It works on the copy of the PipelineRun it read; a patch refreshes the  *)
(* copy.  The operations on pull request groups, reports and nudges have   *)
(* modules of their own; none of them touches the state used here.         *)
(***************************************************************************)
EXTENDS CandidateList

CONSTANTS
  Models,      \* subset of {"componentgroup", "application"}
  Kinds,       \* the builds considered: [event, image]
  OverrideOf,  \* the group and the components of an override Snapshot
  CacheLag,    \* may the informer cache of Components lag?
  MaxSnaps,    \* Snapshots of one build and group are counted up to this bound
  Budgets      \* how often each kind of disturbance may happen

App == "application"   \* the only owner of Snapshots in the Application model
Owners == Groups \cup {App}

Disturbances == {"fault", "crash", "quota", "gone", "delete", "edit"}

ASSUME BuildAssumption ==
  /\ IsFiniteSet(Groups) /\ App \notin Groups
  /\ Models \subseteq {"componentgroup", "application"}
  /\ Kinds \subseteq [event: {"push", "pull"}, image: {"ok", "bad", "missing"}]
  /\ \A o \in Overrides : /\ OverrideOf[o].group \in Groups
                          /\ OverrideOf[o].comps \subseteq Components
  /\ CacheLag \in BOOLEAN
  /\ MaxSnaps \in Nat /\ MaxSnaps >= 2
  /\ Budgets \subseteq [Disturbances -> Nat]

VARIABLES
  model,     \* which model the component of the builds belongs to
  about,     \* the kind of each build (never changes)
  plr,       \* the build PipelineRuns
  snaps,     \* how many Snapshots exist for a build and an owner
  comp,      \* the Components: candidate image and lastbuilttime annotation
  compView,  \* the Components in the informer cache
  over,      \* the override Snapshots: not yet applied, applied, marked
  gone,      \* ComponentGroups that were deleted
  queue,     \* the work queue
  wk,        \* the reconcile in flight
  edited,    \* history: has a group been edited?
  left       \* the disturbances that may still happen

buildVars == <<model, about, plr, snaps, comp, compView, over, gone, queue, wk, edited, left>>
vars == <<listVars, buildVars>>

-----------------------------------------------------------------------------
(* Build PipelineRuns *)

PipelineRuns ==
  [state: {"running", "succeeded", "failed", "gone"},
   signed: BOOLEAN,                       \* by Tekton Chains
   deleting: BOOLEAN, finalizer: BOOLEAN,
   early: BOOLEAN,                        \* history: deleted while it ran
   added: {"none", "true", "false"},      \* the annotation on promotion
   names: SUBSET Owners,                  \* SnapshotNamesLabel
   single: BOOLEAN,                       \* SnapshotNameLabel
   status: {"none", "success", "failed"}] \* create-snapshot-status

NewPipelineRun ==
  [state |-> "running", signed |-> FALSE, deleting |-> FALSE,
   finalizer |-> FALSE, early |-> FALSE, added |-> "none", names |-> {}, single |-> FALSE,
   status |-> "none"]

(* One that ended before the service saw it, and one that does not exist.  *)
SignedPipelineRun == [NewPipelineRun EXCEPT !.state = "succeeded", !.signed = TRUE]
NoPipelineRun == [NewPipelineRun EXCEPT !.state = "gone"]

HasPipelineRunSucceeded(p) == p.state = "succeeded"
HasPipelineRunFinished(p) == p.state \in {"succeeded", "failed"}

MutantWakeOnDeleteOnly(old, new) == ~old.deleting /\ new.deleting

(* The predicates on updates of build PipelineRuns.                        *)
Wakes(old, new) ==
  \/ HasPipelineRunSucceeded(new) /\ new.signed /\ ~new.single
  \/ new.state = "failed"
  \/ ~old.deleting /\ new.deleting

(* The PipelineRun after its finalizer is removed.                         *)
Released(p) ==
  [p EXCEPT !.finalizer = FALSE, !.state = IF p.deleting THEN "gone" ELSE @]

(* A change of PipelineRun b, and the event it causes; again: requeue b.   *)
Update(b, new, again) ==
  /\ plr' = [plr EXCEPT ![b] = new]
  /\ queue' = IF again \/ (new # plr[b] /\ new.state # "gone" /\ Wakes(plr[b], new))
              THEN queue \cup {b} ELSE queue

Disturb(d) ==
  /\ left[d] > 0
  /\ left' = [left EXCEPT ![d] = @ - 1]

-----------------------------------------------------------------------------
(* The reconcile in flight.  copy and last are the PipelineRun and the     *)
(* Component as read, owners the groups loaded at the start, todo those    *)
(* that the current loop has not served and now the one it serves.         *)
NewComponent == [image |-> NoImage, built |-> 0]

Steps == {"idle", "finalize", "promote", "time", "mark", "decide", "existing",
          "create", "annotate", "append", "final", "release"}

Errors == {"none", "plain", "api", "gone", "unsigned"}

Idle == [pc |-> "idle", b |-> NoImage, copy |-> NewPipelineRun,
         last |-> NewComponent, owners |-> {}, todo |-> {}, now |-> App,
         err |-> "none", remove |-> FALSE]

Goto(pc) == wk' = [wk EXCEPT !.pc = pc]

(* The reconcile ends; with an error it is requeued.                       *)
Return(again) ==
  /\ wk' = Idle
  /\ queue' = IF again THEN queue \cup {wk.b} ELSE queue

(* An API call fails and the operation returns RequeueWithError.           *)
FailAndReturn ==
  /\ Disturb("fault")
  /\ Return(TRUE)
  /\ UNCHANGED <<listVars, model, about, edited, plr, snaps, comp, compView, over, gone>>

-----------------------------------------------------------------------------
(* Global Candidate List *)

IsPush(b) == about[b].event = "push"

(* isBuildPLROlderThanLastBuild, with the Component as read at the start.  *)
IsBuildPLROlderThanLastBuild(b, c) == start[b] < c.built

ShouldUpdateGlobalCandidateList(b, p, c) ==
  /\ IsPush(b)
  /\ HasPipelineRunSucceeded(p)
  /\ p.signed
  /\ p.added # "true"
  /\ ~(model = "application" /\ IsBuildPLROlderThanLastBuild(b, c))

(* Where the reconcile goes after EnsurePipelineIsFinalized.               *)
AfterFinalize(b, p, c) ==
  IF ~ShouldUpdateGlobalCandidateList(b, p, c) THEN "decide"
  ELSE IF about[b].image = "missing" THEN "mark" ELSE "promote"

(* GetComponentGroupsForComponentVersion, from the informer cache.         *)
OwnersOf(b) ==
  IF model = "application" THEN {App}
  ELSE {g \in Groups \ gone : BuildOf[b] \in view["build"][g].spec}

(* A new-model PipelineRun is skipped and one without a component label is *)
(* refused before this point; the builds here belong to a component.       *)
Begin(b) ==
  LET c == compView[BuildOf[b]]
      p == plr[b]
  IN  /\ wk.pc = "idle" /\ b \in queue
      /\ queue' = queue \ {b}
      /\ wk' = IF p.state = "gone" THEN Idle
               ELSE [Idle EXCEPT
                 !.pc = IF HasPipelineRunFinished(p) \/ p.finalizer \/ p.deleting
                        THEN AfterFinalize(b, p, c) ELSE "finalize",
                 !.b = b, !.copy = p, !.last = c,
                 !.owners = OwnersOf(b), !.todo = OwnersOf(b)]
      /\ UNCHANGED <<listVars, model, about, edited, plr, snaps, comp, compView, over, gone, left>>

(* A patch of the PipelineRun in the current step, and where to go next.   *)
Annotate(new, pc) ==
  /\ plr[wk.b].state # "gone"
  /\ Update(wk.b, new, FALSE)
  /\ wk' = [wk EXCEPT !.copy = new, !.pc = pc]
  /\ UNCHANGED <<listVars, model, about, edited, snaps, comp, compView, over, gone, left>>

(* The PipelineRun is gone: the call returns NotFound.                     *)
NotFound(again) ==
  /\ plr[wk.b].state = "gone"
  /\ Return(again)
  /\ UNCHANGED <<listVars, model, about, edited, plr, snaps, comp, compView, over, gone, left>>

(* EnsurePipelineIsFinalized: the PipelineRun is read again, and checked   *)
(* again, before the patch.                                                *)
AddFinalizer ==
  LET p == plr[wk.b]
      new == IF p.deleting THEN p ELSE [p EXCEPT !.finalizer = TRUE]
  IN  /\ wk.pc = "finalize"
      /\ \/ Annotate(new, AfterFinalize(wk.b, new, wk.last))
         \/ NotFound(FALSE)
         \/ FailAndReturn

-----------------------------------------------------------------------------
(* EnsureGlobalCandidateImageUpdated *)

(* errors.Join, as HandleLoaderError reads it: the first error of the API  *)
(* server decides, and only NotFound is not requeued.                      *)
JoinErrors(old, new) == IF old \in {"api", "gone"} \/ new = "none" THEN old ELSE new

PromotedOne(g, err) ==
  wk' = [wk EXCEPT !.todo = @ \ {g}, !.err = JoinErrors(@, err),
                   !.pc = IF wk.todo = {g} THEN "mark" ELSE "promote"]

(* UpdateGCLForBuildPLR: every group is tried, whatever happens to others. *)
(* RetryOnConflict reads again, and gives up after five conflicts.         *)
PromoteInGroup(g) ==
  LET cg == view["build"][g]
      outcome == EntryOutcome(cg, wk.b)
  IN  /\ wk.pc = "promote" /\ model = "componentgroup" /\ g \in wk.todo
      /\ \/ /\ g \in gone
            /\ PromotedOne(g, "gone")
            /\ UNCHANGED <<listVars, left>>
         \/ /\ g \notin gone /\ outcome = "notfound"
            /\ PromotedOne(g, "plain")
            /\ UNCHANGED <<listVars, left>>
         \/ /\ g \notin gone /\ outcome = "refused"
            /\ PromotedOne(g, "none")
            /\ UNCHANGED <<listVars, left>>
         \/ /\ g \notin gone
            /\ PromoteBuild(wk.b, g)
            /\ PromotedOne(g, "none")
            /\ UNCHANGED left
         \/ /\ g \notin gone /\ outcome = "promoted" /\ ~Current("build", g)
            /\ PromotedOne(g, "api")
            /\ UNCHANGED <<listVars, left>>
         \/ /\ Disturb("fault")
            /\ PromotedOne(g, "api")
            /\ UNCHANGED listVars
      /\ UNCHANGED <<model, about, edited, plr, snaps, comp, compView, over, gone, queue>>

(* No group uses the component: there is nothing to promote.               *)
PromoteNowhere ==
  /\ wk.pc = "promote" /\ wk.todo = {}
  /\ Goto("mark")
  /\ UNCHANGED <<listVars, model, about, edited, plr, snaps, comp, compView, over, gone, queue, left>>

WithComponent(c, new) ==
  /\ comp' = [comp EXCEPT ![c] = new]
  /\ compView' = IF CacheLag THEN compView ELSE comp'

(* UpdateComponentImageAndSource: two patches without a lock.              *)
PromoteImage ==
  LET c == BuildOf[wk.b]
  IN  /\ wk.pc = "promote" /\ model = "application"
      /\ \/ /\ WithComponent(c, [comp[c] EXCEPT !.image = wk.b])
            /\ Goto("time")
            /\ UNCHANGED <<listVars, model, about, edited, plr, snaps, over, gone, queue, left>>
         \/ FailAndReturn

PromoteTime ==
  LET c == BuildOf[wk.b]
  IN  /\ wk.pc = "time"
      /\ \/ /\ WithComponent(c, [comp[c] EXCEPT !.built = start[wk.b]])
            /\ Goto("mark")
            /\ UNCHANGED <<listVars, model, about, edited, plr, snaps, over, gone, queue, left>>
         \/ FailAndReturn

MutantMarkGivesUp ==
  /\ wk.pc = "mark"
  /\ \/ /\ wk.err = "none"
        /\ Annotate([plr[wk.b] EXCEPT !.added = "true"], "decide")
     \/ /\ wk.err # "none"
        /\ Goto("decide")
        /\ UNCHANGED <<listVars, model, about, edited, plr, snaps, comp, compView, over, gone, queue, left>>
     \/ NotFound(TRUE)
     \/ FailAndReturn

(* MarkBuildPLRAsAddedToGlobalCandidateList.                               *)
MarkAdded ==
  /\ wk.pc = "mark"
  /\ \/ /\ wk.err \in {"none", "gone"}
        /\ Annotate([plr[wk.b] EXCEPT
                      !.added = IF wk.err = "none" THEN "true" ELSE "false"], "decide")
     \/ /\ wk.err \in {"plain", "api"}
        /\ Return(TRUE)
        /\ UNCHANGED <<listVars, model, about, edited, plr, snaps, comp, compView, over, gone, left>>
     \/ NotFound(TRUE)
     \/ FailAndReturn

-----------------------------------------------------------------------------
(* EnsureSnapshotExists and EnsureSnapshotExistsApplication, which differ  *)
(* in the annotation that ends them: SnapshotNamesLabel, which one served  *)
(* group sets, and SnapshotNameLabel.                                      *)
AlreadyAnnotated(p) ==
  IF model = "application" THEN p.single ELSE p.names # {}

MutantNeverListed == FALSE

AllHaveSnapshots == \A g \in wk.owners : snaps[wk.b][g] > 0

ToFinal(remove, err) ==
  wk' = [wk EXCEPT !.pc = "final", !.remove = remove, !.err = err]

MutantDecideUnfinishedRemovable ==
  LET p == wk.copy
  IN  /\ wk.pc = "decide"
      /\ \/ ~HasPipelineRunSucceeded(p) /\ ToFinal(TRUE, "none")
         \/ /\ HasPipelineRunSucceeded(p) /\ ~p.signed
            /\ ToFinal(TRUE, "unsigned")
         \/ /\ HasPipelineRunSucceeded(p) /\ p.signed /\ AlreadyAnnotated(p)
            /\ ToFinal(TRUE, "none")
         \/ /\ HasPipelineRunSucceeded(p) /\ p.signed /\ ~AlreadyAnnotated(p)
            /\ wk' = [wk EXCEPT
                        !.pc = IF wk.owners = {} THEN "final"
                               ELSE IF AllHaveSnapshots THEN "existing" ELSE "create",
                        !.todo = wk.owners, !.err = "none"]
      /\ UNCHANGED <<listVars, model, about, edited, plr, snaps, comp, compView, over, gone, queue, left>>

(* Up to the first call.  An unsigned build is requeued, with an error     *)
(* that is recorded only after ChainsSignedCheckTimeout.  For a component  *)
(* that no group uses, allComponentGroupsHaveSnapshots holds of the empty  *)
(* map, and nothing ever sets canRemoveFinalizer.                          *)
Decide ==
  LET p == wk.copy
      ready == HasPipelineRunSucceeded(p) /\ p.signed
  IN  /\ wk.pc = "decide"
      /\ \/ /\ ~HasPipelineRunSucceeded(p)
            /\ ToFinal(HasPipelineRunFinished(p) \/ p.deleting, "none")
         \/ /\ HasPipelineRunSucceeded(p) /\ ~p.signed
            /\ \E err \in {"unsigned", "plain"} : ToFinal(FALSE, err)
         \/ ready /\ AlreadyAnnotated(p) /\ ToFinal(TRUE, "none")
         \/ /\ ready /\ ~AlreadyAnnotated(p)
            /\ wk' = [wk EXCEPT
                        !.pc = IF wk.owners = {} THEN "final"
                               ELSE IF AllHaveSnapshots THEN "existing" ELSE "create",
                        !.todo = wk.owners, !.err = "none"]
      /\ UNCHANGED <<listVars, model, about, edited, plr, snaps, comp, compView, over, gone, queue, left>>

(* An API call fails inside the operation: its deferred function still     *)
(* writes the final information.                                           *)
FailToFinal ==
  /\ Disturb("fault")
  /\ ToFinal(wk.remove, "api")
  /\ UNCHANGED <<listVars, model, about, edited, plr, snaps, comp, compView, over, gone, queue>>

GoneToFinal ==
  /\ plr[wk.b].state = "gone"
  /\ ToFinal(wk.remove, "api")
  /\ UNCHANGED <<listVars, model, about, edited, plr, snaps, comp, compView, over, gone, queue, left>>

(* ensureBuildPLRSWithSnapshotAnnotation for one owner: annotate the build *)
(* with its only Snapshot; more than one is only logged.                   *)
AdoptExisting(g) ==
  /\ wk.pc = "existing" /\ g \in wk.todo
  /\ \/ /\ wk' = [wk EXCEPT !.todo = @ \ {g}, !.now = g, !.remove = TRUE,
                            !.pc = IF snaps[wk.b][g] = 1 THEN "annotate"
                                   ELSE IF wk.todo = {g} THEN "final" ELSE "existing"]
        /\ UNCHANGED <<listVars, model, about, edited, plr, snaps, comp, compView, over, gone, queue, left>>
     \/ FailToFinal

(* PrepareSnapshotForPipelineRun and CreateSnapshotWithCollisionHandling   *)
(* for one owner.  A build without an image or with an invalid digest is   *)
(* refused for good; so is a Snapshot over quota (Forbidden), except that  *)
(* the reconcile is requeued.                                              *)
CreateSnapshot(g) ==
  /\ wk.pc = "create" /\ g \in wk.todo
  /\ \/ /\ about[wk.b].image = "ok"
        /\ snaps' = [snaps EXCEPT ![wk.b][g] = IF @ < MaxSnaps THEN @ + 1 ELSE @]
        /\ wk' = [wk EXCEPT !.todo = @ \ {g}, !.now = g, !.pc = "annotate"]
        /\ UNCHANGED <<listVars, model, about, edited, plr, comp, compView, over, gone, queue, left>>
     \/ /\ about[wk.b].image # "ok"
        /\ ToFinal(TRUE, "none")
        /\ \/ plr[wk.b].state # "gone" /\ Update(wk.b, [plr[wk.b] EXCEPT !.status = "failed"], FALSE)
           \/ plr[wk.b].state = "gone" /\ UNCHANGED <<plr, queue>>
        /\ UNCHANGED <<listVars, model, about, edited, snaps, comp, compView, over, gone, left>>
     \/ /\ about[wk.b].image = "ok"
        /\ Disturb("quota")
        /\ ToFinal(TRUE, "plain")
        /\ UNCHANGED <<listVars, model, about, edited, plr, snaps, comp, compView, over, gone, queue>>
     \/ FailToFinal

(* Where the loops go once the build is annotated with a Snapshot of the   *)
(* owner wk.now.  canRemoveFinalizer is set after the last created one.    *)
AfterAnnotate ==
  IF wk.todo # {} THEN IF wk.remove THEN "existing" ELSE "create" ELSE "final"

(* annotateBuildPipelineRunWithSnapshot: SnapshotNameLabel in the          *)
(* Application model only, then the name is appended to SnapshotNamesLabel.*)
AnnotateSingle ==
  /\ wk.pc = "annotate" /\ model = "application"
  /\ \/ Annotate([plr[wk.b] EXCEPT !.single = TRUE], "append")
     \/ GoneToFinal
     \/ FailToFinal

AppendName ==
  LET new == [plr[wk.b] EXCEPT !.names = @ \cup {wk.now}]
  IN  /\ wk.pc = IF model = "application" THEN "append" ELSE "annotate"
      /\ \/ /\ plr[wk.b].state # "gone"
            /\ Update(wk.b, new, FALSE)
            /\ wk' = [wk EXCEPT !.copy = new, !.pc = AfterAnnotate,
                                !.remove = @ \/ wk.todo = {}]
            /\ UNCHANGED <<listVars, model, about, edited, snaps, comp, compView, over, gone, left>>
         \/ GoneToFinal
         \/ FailToFinal

FinalStatus(p) ==
  IF wk.err \in {"plain", "api"} THEN "failed"
  ELSE IF p.single THEN "success" ELSE p.status

(* updateBuildPipelineRunWithFinalInfo: create-snapshot-status, unless the *)
(* PipelineRun is being deleted, then the finalizer.  In the group model   *)
(* nothing sets SnapshotNameLabel, so success is never recorded.           *)
FinalAnnotate ==
  LET p == plr[wk.b]
      new == IF p.deleting THEN p ELSE [p EXCEPT !.status = FinalStatus(p)]
  IN  /\ wk.pc = "final"
      /\ \/ wk.remove /\ Annotate(new, "release")
         \/ /\ ~wk.remove /\ p.state # "gone"
            /\ Update(wk.b, new, wk.err # "none")
            /\ wk' = Idle
            /\ UNCHANGED <<listVars, model, about, edited, snaps, comp, compView, over, gone, left>>
         \/ NotFound(FALSE)
         \/ FailAndReturn

RemoveFinalizer ==
  /\ wk.pc = "release"
  /\ \/ /\ plr[wk.b].state # "gone"
        /\ Update(wk.b, Released(plr[wk.b]), wk.err # "none")
        /\ wk' = Idle
        /\ UNCHANGED <<listVars, model, about, edited, snaps, comp, compView, over, gone, left>>
     \/ NotFound(FALSE)
     \/ FailAndReturn

-----------------------------------------------------------------------------
(* EnsureGlobalCandidateImageUpdated of the snapshot controller, for an    *)
(* override Snapshot: one patch of a list, or two patches of each          *)
(* Component, then the mark.  A failed call, or a restart, starts it again.*)
NewOverride == [pc |-> "new", todo |-> {}, now |-> NoImage]

(* shouldUpdateGlobalCandidateList: not marked yet.                        *)
OverrideBegin(o) ==
  /\ over[o].pc = "new"
  /\ over' = [over EXCEPT ![o].pc = "apply", ![o].todo = OverrideOf[o].comps]
  /\ UNCHANGED <<listVars, model, about, edited, plr, snaps, comp, compView, gone, queue, wk, left>>

OverrideFails(o) ==
  /\ Disturb("fault")
  /\ over' = [over EXCEPT ![o] = NewOverride]
  /\ UNCHANGED <<listVars, comp, compView>>

OverrideGroup(o) ==
  /\ over[o].pc = "apply" /\ model = "componentgroup"
  /\ OverrideList(o, OverrideOf[o].group, OverrideOf[o].comps)
  /\ over' = [over EXCEPT ![o].pc = "mark"]
  /\ UNCHANGED <<model, about, edited, plr, snaps, comp, compView, gone, queue, wk, left>>

(* updateGCLForOverrideSnapshot: the time is that of the update, which is  *)
(* after every build has started.                                          *)
OverrideImage(o, c) ==
  /\ model = "application" /\ over[o].pc = "apply" /\ c \in over[o].todo
  /\ \/ /\ WithComponent(c, [comp[c] EXCEPT !.image = o])
        /\ over' = [over EXCEPT ![o] = [pc |-> "time", todo |-> @.todo \ {c}, now |-> c]]
        /\ UNCHANGED <<listVars, left>>
     \/ OverrideFails(o)
  /\ UNCHANGED <<model, about, edited, plr, snaps, gone, queue, wk>>

OverrideTime(o) ==
  LET c == over[o].now
  IN  /\ over[o].pc = "time"
      /\ \/ /\ WithComponent(c, [comp[c] EXCEPT !.built = Latest + 1])
            /\ over' = [over EXCEPT ![o].pc = IF over[o].todo = {} THEN "mark" ELSE "apply"]
            /\ UNCHANGED <<listVars, left>>
         \/ OverrideFails(o)
      /\ UNCHANGED <<model, about, edited, plr, snaps, gone, queue, wk>>

OverrideMark(o) ==
  /\ over[o].pc = "mark"
  /\ \/ /\ over' = [over EXCEPT ![o].pc = "done"]
        /\ UNCHANGED <<listVars, comp, compView, left>>
     \/ OverrideFails(o)
  /\ UNCHANGED <<model, about, edited, plr, snaps, gone, queue, wk>>

-----------------------------------------------------------------------------
(* The cluster *)

(* Tekton ends a build; Chains signs a build that succeeded.               *)
EndBuild(b) ==
  /\ plr[b].state = "running"
  /\ \E st \in {"succeeded", "failed"} :
       Update(b, [plr[b] EXCEPT !.state = st], FALSE)
  /\ UNCHANGED <<listVars, model, about, edited, snaps, comp, compView, over, gone, wk, left>>

SignBuild(b) ==
  /\ HasPipelineRunSucceeded(plr[b]) /\ ~plr[b].signed
  /\ Update(b, [plr[b] EXCEPT !.signed = TRUE], FALSE)
  /\ UNCHANGED <<listVars, model, about, edited, snaps, comp, compView, over, gone, wk, left>>

(* A user, or the pruner, deletes a build.                                 *)
DeleteBuild(b) ==
  /\ plr[b].state # "gone" /\ ~plr[b].deleting
  /\ Disturb("delete")
  /\ LET p == [plr[b] EXCEPT !.deleting = TRUE]
         q == [p EXCEPT !.early = p.state = "running"]
     IN  Update(b, IF q.finalizer THEN q ELSE Released(q), FALSE)
  /\ UNCHANGED <<listVars, model, about, edited, snaps, comp, compView, over, gone, wk>>

DeleteGroup(g) ==
  /\ g \notin gone
  /\ Disturb("gone")
  /\ gone' = gone \cup {g}
  /\ UNCHANGED <<listVars, model, about, edited, plr, snaps, comp, compView, over, queue, wk>>

RefreshComponent(c) ==
  /\ compView[c] # comp[c]
  /\ compView' = [compView EXCEPT ![c] = comp[c]]
  /\ UNCHANGED <<listVars, model, about, edited, plr, snaps, comp, over, gone, queue, wk, left>>

(* The service restarts: the reconciles in flight are lost, the caches are *)
(* filled again and every object is queued by its Create event.            *)
Crash ==
  /\ Disturb("crash")
  /\ wk' = Idle
  /\ queue' = {b \in Builds : plr[b].state # "gone"}
  /\ over' = [o \in Overrides |->
                 IF over[o].pc = "done" THEN over[o] ELSE NewOverride]
  /\ Restart
  /\ compView' = comp
  /\ UNCHANGED <<model, about, edited, plr, snaps, comp, gone>>

-----------------------------------------------------------------------------
BuildInit ==
  /\ ListInit
  /\ model \in Models
  /\ about \in [Builds -> Kinds]
  /\ plr \in [Builds -> {NewPipelineRun, SignedPipelineRun, NoPipelineRun}]
  /\ queue = {b \in Builds : plr[b].state # "gone"}
  /\ snaps = [b \in Builds |-> [g \in Owners |-> 0]]
  /\ comp = [c \in Components |-> NewComponent]
  /\ compView = comp
  /\ over \in [Overrides -> {NewOverride, [NewOverride EXCEPT !.pc = "done"]}]
  /\ gone = {}
  /\ wk = Idle
  /\ edited = FALSE
  /\ left \in Budgets

(* The step of the reconcile in flight.                                    *)
Step ==
  \/ AddFinalizer
  \/ PromoteNowhere \/ PromoteImage \/ PromoteTime \/ MarkAdded
  \/ \E g \in Groups : PromoteInGroup(g)
  \/ Decide
  \/ \E g \in Owners : AdoptExisting(g) \/ CreateSnapshot(g)
  \/ AnnotateSingle \/ AppendName
  \/ FinalAnnotate \/ RemoveFinalizer

Work == Step \/ \E b \in Builds : Begin(b)

Writes ==
  \E o \in Overrides :
    \/ OverrideBegin(o) \/ OverrideGroup(o) \/ OverrideTime(o) \/ OverrideMark(o)
    \/ \E c \in Components : OverrideImage(o, c)

(* A writer reads a group when it has something to do with it.             *)
Reads(w, g) ==
  \/ w = "build" /\ (wk.pc = "promote" \/ (wk.pc = "idle" /\ queue # {}))
  \/ w = "align" /\ g \in toAlign
  \/ w = "override" /\ \E o \in Overrides : over[o].pc = "apply" /\ OverrideOf[o].group = g

Lists ==
  /\ \E g \in Groups :
       \/ \E w \in Writers : Reads(w, g) /\ Refresh(w, g)
       \/ Align(g)
  /\ UNCHANGED buildVars

Edits ==
  /\ \E g \in Groups, S \in SUBSET Components : EditSpec(g, S)
  /\ Disturb("edit")
  /\ edited' = TRUE
  /\ UNCHANGED <<model, about, plr, snaps, comp, compView, over, gone, queue, wk>>

Cluster ==
  \/ \E b \in Builds : EndBuild(b) \/ SignBuild(b) \/ DeleteBuild(b)
  \/ \E g \in Groups : DeleteGroup(g)
  \/ \E c \in Components : RefreshComponent(c)
  \/ Crash

BuildNext == Work \/ Writes \/ Lists \/ Edits \/ Cluster

BuildSpec == BuildInit /\ [][BuildNext]_vars

(* The work queue is served, the caches catch up and Chains signs builds.  *)
BuildFairness ==
  /\ WF_vars(Step)
  /\ \A b \in Builds : SF_vars(Begin(b)) /\ WF_vars(SignBuild(b))
  /\ \A g \in Groups :
       /\ WF_vars(Align(g) /\ UNCHANGED buildVars)
       /\ \A w \in {"build", "align"} :
            SF_vars(Reads(w, g) /\ Refresh(w, g) /\ UNCHANGED buildVars)

-----------------------------------------------------------------------------
Candidate == [image: Images \cup {NoImage}, built: 0 .. Latest + 1]

Reconciles ==
  [pc: Steps, b: Builds \cup {NoImage}, copy: PipelineRuns, last: Candidate,
   owners: SUBSET Owners, todo: SUBSET Owners, now: Owners, err: Errors, remove: BOOLEAN]

TypeOK ==
  /\ ListTypeOK
  /\ model \in Models
  /\ about \in [Builds -> Kinds]
  /\ plr \in [Builds -> PipelineRuns]
  /\ snaps \in [Builds -> [Owners -> 0 .. MaxSnaps]]
  /\ comp \in [Components -> Candidate] /\ compView \in [Components -> Candidate]
  /\ over \in [Overrides -> [pc: {"new", "apply", "time", "mark", "done"},
                             todo: SUBSET Components, now: Components \cup {NoImage}]]
  /\ \A o \in Overrides : over[o].pc = "time" => over[o].now \in Components
  /\ gone \subseteq Groups
  /\ queue \subseteq Builds
  /\ wk \in Reconciles /\ wk.todo \subseteq wk.owners
  /\ wk.pc # "idle" => wk.b \in Builds
  /\ edited \in BOOLEAN /\ left \in [Disturbances -> Nat]

(* A build that one group, or the application, owns alone.                 *)
LoneOwner(b) == \E g \in Owners : OwnersOf(b) = {g}

(* A build of a single owner gets at most one Snapshot, although reconciles*)
(* of it fail or are cut short between the creation of the Snapshot and    *)
(* the annotation that records it (EnsureSnapshotExists lists the          *)
(* Snapshots of the build before it creates one).                          *)
OneSnapshot ==
  (~edited /\ gone = {}) =>
    \A b \in Builds : LoneOwner(b) => \A g \in Owners : snaps[b][g] <= 1

(* The step in which the finalizer is removed from a build that succeeded  *)
(* and was not deleted while it ran.                                       *)
ReleasesSucceeded(b) ==
  /\ plr[b].finalizer /\ ~plr'[b].finalizer
  /\ HasPipelineRunSucceeded(plr[b]) /\ ~plr[b].early

(* The finalizer protects the output of a build: whatever fails, it is     *)
(* removed from a build that succeeded only when the build is signed and   *)
(* has a Snapshot, or its failure is recorded (which is left out when a    *)
(* Snapshot over quota belongs to a build that is being deleted).          *)
FinalizerGuardsOutput ==
  [][\A b \in Builds : ReleasesSucceeded(b) =>
       /\ plr[b].signed
       /\ \/ plr[b].status = "failed"
          \/ wk.err # "none"      \* over quota
          \/ \E g \in Owners : snaps[b][g] > 0]_vars

(* A build that succeeded, was signed and promoted without an error.       *)
Promoted(b) ==
  plr[b].added = "true" /\ about[b].image # "missing"

(* When everything is settled the candidate of a component is its newest   *)
(* promoted build, in every group and whatever the order in which builds   *)
(* were signed, retried and promoted, unless an override Snapshot replaced *)
(* it or a group was edited.                                               *)
NewestPromoted ==
  (wk.pc = "idle" /\ queue = {} /\ ~edited) =>
    \A b \in Builds : Promoted(b) =>
      /\ model = "application" =>
           /\ start[b] <= comp[BuildOf[b]].built
           /\ \E n \in Images : /\ comp[BuildOf[b]].image = n
                               /\ n \in Builds => start[b] <= start[n]
      /\ model = "componentgroup" =>
           \A g \in OwnersOf(b) : start[b] <= group[g].list[BuildOf[b]].time

(* A build that can get a Snapshot gets one, and its finalizer is removed: *)
(* the deletion of a build never hangs on the service, whatever failed     *)
(* before.  A component that no group uses is the exception.               *)
FinalizerReleased ==
  \A b \in Builds :
    HasPipelineRunFinished(plr[b]) ~> ~plr[b].finalizer \/ OwnersOf(b) = {}

(* A signed push build of a group's component is promoted, or its failure  *)
(* recorded, in spite of conflicts, stale caches and lists not aligned yet.*)
EventuallyPromoted ==
  \A b \in Builds :
    (model = "componentgroup" /\ IsPush(b) /\ HasPipelineRunSucceeded(plr[b]) /\ plr[b].signed)
      ~> plr[b].added # "none" \/ plr[b].state = "gone"
=============================================================================
