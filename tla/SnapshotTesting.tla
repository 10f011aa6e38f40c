--------------------------- MODULE SnapshotTesting ---------------------------
(***************************************************************************)
(* The testing of one Snapshot.  Three controllers of the integration      *)
(* service work on it at the same time: the snapshot controller creates    *)
(* the test PipelineRuns, the integrationpipeline controller copies their  *)
(* results into the Snapshot's status annotation, and the statusreport     *)
(* controller turns the annotation into the verdict (the Snapshot's        *)
(* conditions), reports it to the git provider and removes the             *)
(* PipelineRuns' finalizers.                                               *)
(*                                                                         *)
(* A step is one call to the API server, or a read of the informer cache.  *)
(* Every controller keeps the copy of the Snapshot it read; a patch is a   *)
(* JSON merge patch computed from that copy, so it replaces the whole      *)
(* annotation, or the whole list of conditions, never fails with a         *)
(* conflict, and refreshes the copy with the server's object.              *)
(*                                                                         *)
(* The Snapshot is one whose testing runs its course: it is not superseded *)
(* by a newer one of its pull request group (which would cancel it) and    *)
(* not deleted (its webhook would free its PipelineRuns), and what the     *)
(* controllers do with a verdict (releases, the Global Candidate List,     *)
(* group and parent Snapshots) is not part of this module.                 *)
(***************************************************************************)
EXTENDS TestStatus

CONSTANT Settings  \* the settings in which the Snapshot may be tested

Disturbances == {"fault", "crash", "rerun", "edit", "delete"}

ASSUME SettingAssumption ==
  /\ Scenarios \cap {"none", "all"} = {}
  /\ Settings \subseteq
       [reported: BOOLEAN, overlap: BOOLEAN, lag: BOOLEAN,
        outcomes: SUBSET {"passed", "warning", "testfailed", "failed"},
        bound: [Disturbances -> Nat]]

VARIABLES
  setting,   \* the setting, which never changes
  snap,      \* the Snapshot on the API server
  cache,     \* the Snapshot in the informer cache
  events,    \* controllers whose predicates accept an undelivered change
  queue,     \* snapshot and statusreport work queues: is the Snapshot queued?
  plr,       \* the PipelineRuns of the Snapshot
  created,   \* how many PipelineRuns have been created
  plrQueue,  \* integrationpipeline work queue
  its,       \* the IntegrationTestScenarios that apply to the Snapshot
  sc,        \* the snapshot controller's reconcile in flight
  ic,        \* the integrationpipeline controller's reconcile in flight
  sr,        \* the statusreport controller's reconcile in flight
  used       \* the disturbances so far

vars == <<setting, snap, cache, events, queue, plr, created, plrQueue, its, sc, ic, sr, used>>

Reported == setting.reported  \* is the Snapshot reported to a git provider?
Overlap == setting.overlap    \* may the snapshot and integrationpipeline controllers overlap?
CacheLag == setting.lag       \* may the informer caches lag behind the API server?
Outcomes == setting.outcomes  \* how PipelineRuns may end
Bound == setting.bound        \* how often each kind of disturbance may happen

-----------------------------------------------------------------------------
(* Snapshots *)

(* The conditions of a Snapshot, which are one list and are patched as     *)
(* one value.  `required' is history: the required scenarios from which    *)
(* the verdict AppStudioTestSucceeded was computed.                        *)
Conditions ==
  [integration: {"none", "InProgress", "Finished", "Error"},
   test: {"none", "Unknown", "Passed", "Failed"},
   required: SUBSET Scenarios]

NoConditions == [integration |-> "none", test |-> "none", required |-> {}]

NoLabel == "none"
Labels == {NoLabel, "all"} \cup Scenarios

Snapshots == [ann: AllStatuses, cond: Conditions, label: Labels]

NewSnapshot == [ann |-> NoStatuses, cond |-> NoConditions, label |-> NoLabel]

HaveTestsFinished(cond) == cond.test \in {"Passed", "Failed"}
IsSnapshotNotStarted(cond) == cond.integration # "InProgress"

MarkInProgress(cond) == [cond EXCEPT !.integration = "InProgress"]
MarkFinished(cond) == [cond EXCEPT !.integration = "Finished"]
MarkError(cond) == [cond EXCEPT !.integration = "Error"]
MarkPassed(cond, required) ==
  [cond EXCEPT !.test = "Passed", !.required = required]
MarkFailed(cond, required) ==
  [cond EXCEPT !.test = "Failed", !.required = required]
ResetConditions(cond) ==
  [integration |-> "InProgress", test |-> "Unknown", required |-> {}]

(* The server's object after a patch.                                      *)
WithAnnotation(st) == [snap EXCEPT !.ann = st]
WithConditions(cond) == [snap EXCEPT !.cond = cond]
WithoutLabel == [snap EXCEPT !.label = NoLabel]

(* The predicates of the two controllers that watch Snapshots.             *)
Watchers(old, new) ==
  (IF \/ old.ann # new.ann
      \/ ~HaveTestsFinished(old.cond) /\ HaveTestsFinished(new.cond)
      \/ new.label # NoLabel /\ new.label # old.label
   THEN {"snapshot"} ELSE {})
  \cup
  (IF old.ann # new.ann THEN {"statusreport"} ELSE {})

(* A write to the Snapshot, and its delivery to the watches: at once, or   *)
(* by a later Sync.  `again' holds the controllers that requeue.           *)
Patch(new, again) ==
  /\ snap' = new
  /\ IF CacheLag
     THEN /\ events' = events \cup Watchers(snap, new)
          /\ queue' = queue \cup again
          /\ UNCHANGED cache
     ELSE /\ cache' = new
          /\ queue' = queue \cup again \cup Watchers(snap, new)
          /\ UNCHANGED events

NoPatch(again) ==
  /\ queue' = queue \cup again
  /\ UNCHANGED <<snap, cache, events>>

-----------------------------------------------------------------------------
(* PipelineRuns *)

(* "created": not yet in the informer cache.  A PipelineRun that Tekton    *)
(* ends successfully carries the outcome of its TEST_OUTPUT results.       *)
PlrSucceeded == {"passed", "warning", "testfailed"}
PlrFinished == PlrSucceeded \cup {"failed"}
PlrStates == {"none", "created", "pending", "running"} \cup PlrFinished

NoScenario == "none"

PipelineRuns ==
  [scenario: Scenarios \cup {NoScenario}, state: PlrStates,
   finalizer: BOOLEAN, deleting: BOOLEAN]

NoPipelineRun ==
  [scenario |-> NoScenario, state |-> "none", finalizer |-> FALSE, deleting |-> FALSE]

(* An object with a deletion timestamp goes when its last finalizer does.  *)
Exists(p) ==
  plr[p].state # "none" /\ (plr[p].finalizer \/ ~plr[p].deleting)

Visible(p) == Exists(p) /\ plr[p].state # "created"

(* createIntegrationPipelineRun: the object is created with the finalizer. *)
CreatePlr(s) ==
  /\ created < MaxPlrs
  /\ created' = created + 1
  /\ plr' = [plr EXCEPT ![created + 1] =
               [scenario |-> s, state |-> IF CacheLag THEN "created" ELSE "pending",
                finalizer |-> TRUE, deleting |-> FALSE]]

RemoveFinalizer(p) == plr' = [plr EXCEPT ![p].finalizer = FALSE]

MutantNoExistingPipelineRuns(s) == {}

GetAllPipelineRunsForScenario(s) ==
  {p \in Plrs : Visible(p) /\ plr[p].scenario = s}

-----------------------------------------------------------------------------
(* A disturbance of kind k happens, or none does. *)
Spend(k) ==
  used[k] < Bound[k] /\ used' = [used EXCEPT ![k] = @ + 1] /\ UNCHANGED setting
Undisturbed == UNCHANGED <<used, setting>>

(* The reconciles in flight.  Of its copy of the Snapshot a controller     *)
(* keeps what it still reads: the conditions, and the statuses or what it  *)
(* computed from them.                                                     *)
SCIdle == [pc |-> "idle", cond |-> NoConditions, st |-> NoStatuses, todo |-> {},
           label |-> NoLabel, dirty |-> FALSE, err |-> FALSE]
ICIdle == [pc |-> "idle", plr |-> NoPlr, seen |-> NoPipelineRun, st |-> NoStatuses]
SRIdle == [pc |-> "idle", cond |-> NoConditions, required |-> {},
           passed |-> FALSE, release |-> {}]

Init ==
  /\ setting \in Settings
  /\ snap = NewSnapshot
  /\ cache = NewSnapshot
  /\ events = {}
  /\ queue = {"snapshot"}
  /\ plr = [p \in Plrs |-> NoPipelineRun]
  /\ created = 0
  /\ plrQueue = {}
  /\ its \in SUBSET Scenarios
  /\ sc = SCIdle /\ ic = ICIdle /\ sr = SRIdle
  /\ used = [k \in Disturbances |-> 0]

-----------------------------------------------------------------------------
(* The snapshot controller: EnsureRerunPipelineRunsExist, then             *)
(* EnsureIntegrationPipelineRunsExist.                                     *)

SCFrame == UNCHANGED <<plrQueue, its, ic, sr>>
NoPlrChange == UNCHANGED <<plr, created>>

MutantSCGivesUp == sc' = SCIdle /\ NoPatch({}) /\ NoPlrChange /\ SCFrame

(* RequeueWithError: the reconcile ends and the Snapshot is queued again.  *)
SCRequeue == sc' = SCIdle /\ NoPatch({"snapshot"}) /\ NoPlrChange /\ SCFrame

SCDone == sc' = SCIdle /\ NoPatch({}) /\ NoPlrChange /\ SCFrame

(* The scenarios a rerun label asks for: all that apply, or the one with   *)
(* that name if it exists, whether it applies or not.  One that is waiting *)
(* or running is skipped.                                                  *)
ScenariosToRerun(label, st, existing) ==
  {s \in IF label = "all" THEN its ELSE existing \cap {label} :
     st[s].status \notin {"InProgress", "Pending"}}

SCStart ==
  /\ sc.pc = "idle"
  /\ "snapshot" \in queue
  /\ Overlap \/ ic.pc = "idle"
  /\ \E existing \in {its, Scenarios} :
       LET todo == ScenariosToRerun(cache.label, cache.ann, existing)
       IN  sc' = [SCIdle EXCEPT
                    !.pc = IF cache.label = NoLabel THEN "ensure"
                           ELSE IF todo = {} THEN "dropLabel" ELSE "rerun",
                    !.cond = cache.cond, !.st = cache.ann, !.todo = todo,
                    !.label = cache.label]
  /\ queue' = queue \ {"snapshot"}
  /\ Undisturbed
  /\ UNCHANGED <<snap, cache, events>> /\ NoPlrChange /\ SCFrame

(* Listing the scenarios, or a patch whose error is returned, fails.       *)
SCError ==
  /\ sc.pc \in {"dropLabel", "rerun", "rerunWrite", "dropLabelAndReset",
                "reset", "ensure"}
  /\ Spend("fault")
  /\ SCRequeue

(* handleScenarioReruns, one scenario: the status is reset in memory and a *)
(* PipelineRun is created.                                                 *)
RerunCreate(s) ==
  /\ sc.pc = "rerun" /\ s \in sc.todo
  /\ CreatePlr(s)
  /\ sc' = [sc EXCEPT
              !.pc = IF IsSnapshotNotStarted(sc.cond) THEN "rerunMark" ELSE "rerunWrite",
              !.st = UpdateTestStatus(ResetStatus(@, s), s, "InProgress", created + 1, "snapshot"),
              !.todo = @ \ {s}]
  /\ Undisturbed
  /\ NoPatch({}) /\ SCFrame

(* The call timed out after the server had created the object.             *)
RerunCreateLost(s) ==
  /\ sc.pc = "rerun" /\ s \in sc.todo
  /\ Spend("fault")
  /\ CreatePlr(s)
  /\ sc' = SCIdle
  /\ NoPatch({"snapshot"}) /\ SCFrame

(* handlePipelineCreationError with a permanent error: TestInvalid is      *)
(* written and the loop goes on.                                           *)
RerunCreateInvalid(s) ==
  /\ sc.pc = "rerun" /\ s \in sc.todo
  /\ Spend("fault")
  /\ LET st == UpdateTestStatusIfChanged(ResetStatus(sc.st, s), s, "TestInvalid", "snapshot")
     IN  /\ Patch(WithAnnotation(st), {})
         /\ sc' = [sc EXCEPT
                     !.pc = IF sc.todo = {s} THEN "dropLabelAndReset" ELSE "rerun",
                     !.st = st, !.cond = snap.cond, !.todo = @ \ {s}]
  /\ NoPlrChange /\ SCFrame

(* The end of createIntegrationPipelineRun: the Snapshot is marked as in   *)
(* progress.  A failure is logged and the copy in memory stays marked.     *)
MarkStarted(next) ==
  /\ \/ Patch(WithConditions(MarkInProgress(sc.cond)), {}) /\ Undisturbed
     \/ NoPatch({}) /\ Spend("fault")
  /\ sc' = [sc EXCEPT !.pc = next, !.cond = MarkInProgress(@)]

RerunMark ==
  /\ sc.pc = "rerunMark"
  /\ MarkStarted("rerunWrite")
  /\ NoPlrChange /\ SCFrame

RerunWrite ==
  /\ sc.pc = "rerunWrite"
  /\ Patch(WithAnnotation(sc.st), {})
  /\ sc' = [sc EXCEPT !.pc = IF sc.todo = {} THEN "dropLabelAndReset" ELSE "rerun",
                      !.cond = snap.cond]
  /\ Undisturbed
  /\ NoPlrChange /\ SCFrame

MutantDropLabelAfterRerunOnly ==
  /\ sc.pc \in {"dropLabel", "dropLabelAndReset"}
  /\ IF sc.pc = "dropLabel" THEN NoPatch({}) ELSE Patch(WithoutLabel, {})
  /\ sc' = [sc EXCEPT !.pc = IF sc.pc = "dropLabel" THEN "ensure" ELSE "reset",
                      !.cond = snap.cond, !.st = snap.ann, !.label = NoLabel]
  /\ Undisturbed
  /\ NoPlrChange /\ SCFrame

(* cleanupRerunLabelAndUpdateStatus removes the label first; the           *)
(* conditions are reset unless every rerun was skipped.  From here on the  *)
(* annotation of the refreshed copy counts.                                *)
DropLabel ==
  /\ sc.pc \in {"dropLabel", "dropLabelAndReset"}
  /\ Patch(WithoutLabel, {})
  /\ sc' = [sc EXCEPT !.pc = IF sc.pc = "dropLabel" THEN "ensure" ELSE "reset",
                      !.cond = snap.cond, !.st = snap.ann, !.label = NoLabel]
  /\ Undisturbed
  /\ NoPlrChange /\ SCFrame

ResetSnapshotStatusConditions ==
  /\ sc.pc = "reset"
  /\ IF HaveTestsFinished(sc.cond)
     THEN /\ Patch(WithConditions(ResetConditions(sc.cond)), {})
          /\ sc' = [sc EXCEPT !.pc = "ensure", !.cond = ResetConditions(@), !.st = snap.ann]
     ELSE NoPatch({}) /\ sc' = [sc EXCEPT !.pc = "ensure"]
  /\ Undisturbed
  /\ NoPlrChange /\ SCFrame

(* EnsureIntegrationPipelineRunsExist up to the creation loop: a Snapshot  *)
(* with a verdict is left alone; otherwise the statuses are initialised    *)
(* and failures cascade.  That the stored parents or optional flags change *)
(* (which makes the statuses dirty too) is left out.                       *)
NextInLoop(todo, dirty) ==
  IF todo # {} THEN "ready" ELSE IF dirty THEN "write" ELSE "passIfNone"

EnsureStart ==
  /\ sc.pc = "ensure" /\ ~HaveTestsFinished(sc.cond)
  /\ LET st == CascadeFailFast(InitStatuses(sc.st, its))
         todo == FindScenariosReadyToRunWithoutPLR(st, its)
         dirty == st # sc.st
     IN  sc' = IF its = {} THEN [sc EXCEPT !.pc = "passIfNone"]
               ELSE [sc EXCEPT !.pc = NextInLoop(todo, dirty), !.st = st,
                               !.todo = todo, !.dirty = dirty]
  /\ Undisturbed
  /\ NoPatch({}) /\ NoPlrChange /\ SCFrame

EnsureSkip ==
  /\ sc.pc = "ensure" /\ HaveTestsFinished(sc.cond)
  /\ SCDone
  /\ Undisturbed

(* processSingleScenario: a PipelineRun that is already in the cluster is  *)
(* adopted with the status its Succeeded condition gives, without a look   *)
(* at its TEST_OUTPUT.                                                     *)
AdoptedStatus(state) ==
  CASE state \in PlrSucceeded -> "TestPassed"
    [] state = "failed"       -> "TestFail"
    [] OTHER                  -> "InProgress"

StartedScenario(s, status, p, mark) ==
  sc' = [sc EXCEPT !.pc = IF mark THEN "mark" ELSE NextInLoop(sc.todo \ {s}, TRUE),
                   !.st = UpdateTestStatus(@, s, status, p, "snapshot"),
                   !.todo = @ \ {s}, !.dirty = TRUE]

AdoptExisting(s) ==
  /\ sc.pc = "ready" /\ s \in sc.todo
  /\ \E p \in GetAllPipelineRunsForScenario(s) :
       /\ \A q \in GetAllPipelineRunsForScenario(s) : q <= p
       /\ StartedScenario(s, AdoptedStatus(plr[p].state), p,
                          plr[p].state \notin PlrFinished /\ IsSnapshotNotStarted(sc.cond))
  /\ Undisturbed
  /\ NoPatch({}) /\ NoPlrChange /\ SCFrame

CreateNew(s) ==
  /\ sc.pc = "ready" /\ s \in sc.todo
  /\ GetAllPipelineRunsForScenario(s) = {}
  /\ CreatePlr(s)
  /\ StartedScenario(s, "InProgress", created + 1, IsSnapshotNotStarted(sc.cond))
  /\ Undisturbed
  /\ NoPatch({}) /\ SCFrame

(* Listing the PipelineRuns fails, or creating one fails with a retryable  *)
(* error: the scenario's status stays, the reconcile will be repeated.     *)
SkipScenario(s) ==
  sc' = [sc EXCEPT !.pc = NextInLoop(sc.todo \ {s}, sc.dirty),
                   !.todo = @ \ {s}, !.err = TRUE]

CreateError(s) ==
  /\ sc.pc = "ready" /\ s \in sc.todo
  /\ Spend("fault")
  /\ SkipScenario(s)
  /\ NoPatch({}) /\ NoPlrChange /\ SCFrame

CreateLost(s) ==
  /\ sc.pc = "ready" /\ s \in sc.todo
  /\ GetAllPipelineRunsForScenario(s) = {}
  /\ Spend("fault")
  /\ CreatePlr(s)
  /\ SkipScenario(s)
  /\ NoPatch({}) /\ SCFrame

CreateInvalid(s) ==
  /\ sc.pc = "ready" /\ s \in sc.todo
  /\ GetAllPipelineRunsForScenario(s) = {}
  /\ Spend("fault")
  /\ sc' = [sc EXCEPT !.pc = NextInLoop(sc.todo \ {s}, TRUE),
                      !.st = UpdateTestStatusIfChanged(@, s, "TestInvalid", "snapshot"),
                      !.todo = @ \ {s}, !.dirty = TRUE]
  /\ NoPatch({}) /\ NoPlrChange /\ SCFrame

MarkInLoop ==
  /\ sc.pc = "mark"
  /\ MarkStarted(NextInLoop(sc.todo, sc.dirty))
  /\ NoPlrChange /\ SCFrame

(* The statuses are written at the end of                                  *)
(* createEligibleIntegrationPipelineRuns and, if that fails, once more by  *)
(* the deferred function, whose error is only logged.  The failed attempt  *)
(* has left the annotation in the copy, so the second patch is empty       *)
(* unless marshalling the map puts two entries in another order.           *)
WriteStatuses ==
  /\ \/ sc.pc = "write"
     \/ sc.pc = "deferredWrite" /\ \E s, q \in Present(sc.st) : s # q
  /\ Patch(WithAnnotation(sc.st), {})
  /\ sc' = [sc EXCEPT !.pc = "passIfNone", !.cond = snap.cond,
                      !.st = NoStatuses, !.dirty = FALSE]
  /\ Undisturbed
  /\ NoPlrChange /\ SCFrame

WriteStatusesError ==
  /\ sc.pc \in {"write", "deferredWrite"}
  /\ Spend("fault")
  /\ sc' = [sc EXCEPT !.pc = IF sc.pc = "write" THEN "deferredWrite" ELSE "passIfNone",
                      !.err = TRUE]
  /\ NoPatch({}) /\ NoPlrChange /\ SCFrame

DeferredEmptyPatch ==
  /\ sc.pc = "deferredWrite"
  /\ sc' = [sc EXCEPT !.pc = "passIfNone", !.cond = snap.cond,
                      !.st = NoStatuses, !.dirty = FALSE]
  /\ Undisturbed
  /\ NoPatch({}) /\ NoPlrChange /\ SCFrame

(* markSnapshotPassedIfNoRequiredScenarios and the end of the reconcile:   *)
(* creation errors are returned last.                                      *)
PassIfNoRequired ==
  /\ sc.pc = "passIfNone"
  /\ LET again == IF sc.err THEN {"snapshot"} ELSE {}
     IN  IF its \ Optional = {} /\ sc.cond.test # "Passed"
         THEN Patch(WithConditions(MarkPassed(sc.cond, {})), again)
         ELSE NoPatch(again)
  /\ sc' = SCIdle
  /\ Undisturbed
  /\ NoPlrChange /\ SCFrame

(* The required scenarios cannot be listed: the Snapshot is marked and the *)
(* reconcile stops, without the creation errors being returned.            *)
PassIfNoRequiredListError ==
  /\ sc.pc = "passIfNone"
  /\ Spend("fault")
  /\ Patch(WithConditions(MarkError(sc.cond)), {})
  /\ sc' = SCIdle
  /\ NoPlrChange /\ SCFrame

PassIfNoRequiredPatchError ==
  /\ sc.pc = "passIfNone"
  /\ Spend("fault")
  /\ SCRequeue

SnapshotController ==
  \/ SCStart \/ SCError
  \/ \E s \in Scenarios : RerunCreate(s) \/ RerunCreateLost(s) \/ RerunCreateInvalid(s)
  \/ RerunMark \/ RerunWrite \/ DropLabel \/ ResetSnapshotStatusConditions
  \/ EnsureStart \/ EnsureSkip
  \/ \E s \in Scenarios :
       \/ AdoptExisting(s) \/ CreateNew(s)
       \/ CreateError(s) \/ CreateLost(s) \/ CreateInvalid(s)
  \/ MarkInLoop \/ WriteStatuses \/ WriteStatusesError \/ DeferredEmptyPatch
  \/ PassIfNoRequired \/ PassIfNoRequiredListError \/ PassIfNoRequiredPatchError
-----------------------------------------------------------------------------
(* The integrationpipeline controller: EnsureStatusReportedInSnapshot for  *)
(* one PipelineRun at a time.                                              *)

ICFrame == UNCHANGED <<created, its, sc, sr>>

MutantICGivesUp ==
  /\ ic' = ICIdle
  /\ UNCHANGED <<plr, plrQueue>> /\ NoPatch({}) /\ ICFrame

ICRequeue ==
  /\ ic' = ICIdle
  /\ plrQueue' = plrQueue \cup {ic.plr}
  /\ UNCHANGED plr /\ NoPatch({}) /\ ICFrame

ICStart(p) ==
  /\ ic.pc = "idle"
  /\ p \in plrQueue
  /\ Overlap \/ sc.pc = "idle"
  /\ plrQueue' = plrQueue \ {p}
  /\ ic' = IF plr[p].finalizer
           THEN [ICIdle EXCEPT !.pc = "load", !.plr = p, !.seen = plr[p]]
           ELSE ICIdle
  /\ Undisturbed
  /\ UNCHANGED plr /\ NoPatch({}) /\ ICFrame

MutantTestOutputIgnored(seen) ==
  CASE seen.state \in PlrSucceeded -> "TestPassed"
    [] seen.state = "failed"       -> "TestFail"
    [] OTHER -> IF seen.deleting THEN "Deleted" ELSE "InProgress"

(* GetIntegrationPipelineRunStatus *)
PipelineRunStatus(seen) ==
  CASE seen.state = "passed"                  -> "TestPassed"
    [] seen.state = "warning"                 -> "TestWarning"
    [] seen.state \in {"testfailed", "failed"} -> "TestFail"
    [] OTHER -> IF seen.deleting THEN "Deleted" ELSE "InProgress"

MutantReleaseSucceededOnly(status) ==
  IF ~Reported /\ (ic.seen.state \in PlrSucceeded \/ status = "Deleted")
  THEN "finalizer" ELSE "done"

(* Finalizers of Snapshots that are not reported go with the final status. *)
ICNext(status) ==
  IF ~Reported /\ (ic.seen.state \in PlrFinished \/ status = "Deleted")
  THEN "finalizer" ELSE "done"

(* The Snapshot is loaded and the statuses computed; nothing is written    *)
(* when they do not change.                                                *)
ICReport(status, next) ==
  LET st == UpdateTestStatus(cache.ann, ic.seen.scenario, status, ic.plr,
                             "integrationpipeline")
  IN  ic' = IF st # cache.ann
            THEN [ic EXCEPT !.pc = IF next = "finalizer" THEN "writeAndRelease" ELSE "write",
                            !.seen = NoPipelineRun, !.st = st]
            ELSE IF next = "finalizer" THEN [ic EXCEPT !.pc = "release"] ELSE ICIdle

ICLoad ==
  /\ ic.pc = "load"
  /\ ICReport(PipelineRunStatus(ic.seen), ICNext(PipelineRunStatus(ic.seen)))
  /\ Undisturbed
  /\ UNCHANGED <<plr, plrQueue>> /\ NoPatch({}) /\ ICFrame

(* TaskRuns of a successful PipelineRun stay missing past the grace        *)
(* period: a final status is kept, anything else becomes TestInvalid.      *)
ICLoadExpired ==
  /\ ic.pc = "load" /\ ic.seen.state \in PlrSucceeded
  /\ Spend("fault")
  /\ IF IsFinal(cache.ann[ic.seen.scenario].status)
     THEN ic' = IF Reported THEN ICIdle ELSE [ic EXCEPT !.pc = "release"]
     ELSE ICReport("TestInvalid", ICNext("TestInvalid"))
  /\ UNCHANGED <<plr, plrQueue>> /\ NoPatch({}) /\ ICFrame

(* TaskRuns missing within the grace period, a failed patch, or a failed   *)
(* removal of the finalizer.                                               *)
ICError ==
  /\ ic.pc # "idle"
  /\ Spend("fault")
  /\ ICRequeue

ICWrite ==
  /\ ic.pc \in {"write", "writeAndRelease"}
  /\ Patch(WithAnnotation(ic.st), {})
  /\ ic' = IF ic.pc = "writeAndRelease"
           THEN [ic EXCEPT !.pc = "release", !.st = NoStatuses] ELSE ICIdle
  /\ Undisturbed
  /\ UNCHANGED <<plr, plrQueue>> /\ ICFrame

ICRelease ==
  /\ ic.pc = "release"
  /\ RemoveFinalizer(ic.plr)
  /\ ic' = ICIdle
  /\ Undisturbed
  /\ UNCHANGED plrQueue /\ NoPatch({}) /\ ICFrame

IntegrationPipelineController ==
  \/ \E p \in Plrs : ICStart(p)
  \/ ICLoad \/ ICLoadExpired \/ ICError \/ ICWrite \/ ICRelease

-----------------------------------------------------------------------------
(* The statusreport controller: EnsureSnapshotFinishedAllTests, then       *)
(* EnsureSnapshotTestStatusReportedToGitProvider.                          *)

SRFrame == UNCHANGED <<created, plrQueue, its, sc, ic>>

MutantReleaseUnnamed(st) == {st[s].plr : s \in {q \in Scenarios : IsFinal(st[q].status)}}

(* The PipelineRuns whose finalizers go after a successful report.         *)
ToRelease(st) == {st[s].plr : s \in {q \in Scenarios : IsFinal(st[q].status)}} \ {NoPlr}

SRGoto(pc, ps) == [SRIdle EXCEPT !.pc = pc, !.release = ps]

MutantFirstVerdictStays(cond, required, passed, ps) ==
  IF HaveTestsFinished(cond)
  THEN SRGoto("report", ps)
  ELSE [pc |-> "verdict", cond |-> cond, required |-> required, passed |-> passed,
        release |-> ps]

(* The verdict is written unless the conditions have it already.           *)
SRDecided(cond, required, passed, ps) ==
  IF cond.test = (IF passed THEN "Passed" ELSE "Failed")
  THEN SRGoto("report", ps)
  ELSE [pc |-> "verdict", cond |-> cond, required |-> required, passed |-> passed,
        release |-> ps]

SRStart ==
  /\ sr.pc = "idle"
  /\ "statusreport" \in queue
  /\ LET required == its \ Optional
         passed == AllPassed(cache.ann, required)
         ps == ToRelease(cache.ann)
     IN  sr' = IF ~AllFinished(cache.ann, required) THEN SRGoto("report", ps)
               ELSE IF cache.cond.integration = "Finished"
               THEN SRDecided(cache.cond, required, passed, ps)
               ELSE [pc |-> "finish", cond |-> cache.cond, required |-> required,
                     passed |-> passed, release |-> ps]
  /\ queue' = queue \ {"statusreport"}
  /\ Undisturbed
  /\ UNCHANGED <<snap, cache, events, plr>> /\ SRFrame

SRFinish ==
  /\ sr.pc = "finish"
  /\ Patch(WithConditions(MarkFinished(sr.cond)), {})
  /\ sr' = SRDecided(MarkFinished(sr.cond), sr.required, sr.passed, ToRelease(snap.ann))
  /\ Undisturbed
  /\ UNCHANGED plr /\ SRFrame

SRVerdict ==
  /\ sr.pc = "verdict"
  /\ Patch(WithConditions(IF sr.passed THEN MarkPassed(sr.cond, sr.required)
                                       ELSE MarkFailed(sr.cond, sr.required)), {})
  /\ sr' = SRGoto("report", ToRelease(snap.ann))
  /\ Undisturbed
  /\ UNCHANGED plr /\ SRFrame

SRRelease(ps) == sr' = IF ps = {} THEN SRIdle ELSE SRGoto("release", ps)

(* ReportSnapshotStatus succeeds.  When it had something new to report it  *)
(* wrote the report annotation, which refreshed the copy of the Snapshot.  *)
SRReport ==
  /\ sr.pc = "report"
  /\ IF Reported THEN SRRelease(sr.release) \/ SRRelease(ToRelease(snap.ann))
                 ELSE sr' = SRIdle
  /\ Undisturbed
  /\ NoPatch({}) /\ UNCHANGED plr /\ SRFrame

(* The report fails for good, or the Snapshot is too old to try again: the *)
(* finalizers stay.                                                        *)
SRReportGivesUp ==
  /\ sr.pc = "report" /\ Reported
  /\ Spend("fault")
  /\ sr' = SRIdle
  /\ NoPatch({}) /\ UNCHANGED plr /\ SRFrame

(* A patch, the report or the removal of a finalizer fails and is retried. *)
SRError ==
  /\ sr.pc # "idle"
  /\ Spend("fault")
  /\ sr' = SRIdle
  /\ NoPatch({"statusreport"}) /\ UNCHANGED plr /\ SRFrame

(* The patch has an optimistic lock; that it conflicts is one of the       *)
(* failures of SRError.                                                    *)
SRRemoveFinalizer(p) ==
  /\ sr.pc = "release" /\ p \in sr.release
  /\ IF Visible(p) THEN RemoveFinalizer(p) ELSE UNCHANGED plr
  /\ sr' = IF sr.release = {p} THEN SRIdle ELSE [sr EXCEPT !.release = @ \ {p}]
  /\ Undisturbed
  /\ NoPatch({}) /\ SRFrame

StatusReportController ==
  \/ SRStart \/ SRFinish \/ SRVerdict
  \/ SRReport \/ SRReportGivesUp \/ SRError
  \/ \E p \in Plrs : SRRemoveFinalizer(p)
-----------------------------------------------------------------------------
(* Tekton, users, the informers and the service process.                   *)

EnvFrame == UNCHANGED <<created, sc, ic, sr>>

(* A PipelineRun changes, and the watch with its predicate queues it.      *)
PlrChange(p, new) ==
  /\ plr' = [plr EXCEPT ![p] = new]
  /\ plrQueue' = plrQueue \cup {p}

(* The informer cache learns of a PipelineRun; it is not queued before it  *)
(* starts, finishes or is deleted.                                         *)
PlrAppear(p) ==
  /\ plr[p].state = "created"
  /\ plr' = [plr EXCEPT ![p].state = "pending"]
  /\ Undisturbed
  /\ UNCHANGED <<plrQueue, its>> /\ NoPatch({}) /\ EnvFrame

PlrStart(p) ==
  /\ plr[p].state = "pending" /\ ~plr[p].deleting
  /\ PlrChange(p, [plr[p] EXCEPT !.state = "running"])
  /\ Undisturbed
  /\ UNCHANGED its /\ NoPatch({}) /\ EnvFrame

(* A PipelineRun that is rejected before it starts fails.                  *)
PlrFinish(p) ==
  /\ plr[p].state \in {"pending", "running"} /\ ~plr[p].deleting
  /\ \E state \in IF plr[p].state = "running" THEN Outcomes ELSE {"failed"} \cap Outcomes :
       PlrChange(p, [plr[p] EXCEPT !.state = state])
  /\ Undisturbed
  /\ UNCHANGED its /\ NoPatch({}) /\ EnvFrame

PlrDelete(p) ==
  /\ Visible(p) /\ ~plr[p].deleting
  /\ Spend("delete")
  /\ IF plr[p].finalizer
     THEN PlrChange(p, [plr[p] EXCEPT !.deleting = TRUE])
     ELSE plr' = [plr EXCEPT ![p].deleting = TRUE] /\ UNCHANGED plrQueue
  /\ UNCHANGED its /\ NoPatch({}) /\ EnvFrame

UserRerun(label) ==
  /\ label # snap.label
  /\ Spend("rerun")
  /\ Patch([snap EXCEPT !.label = label], {})
  /\ UNCHANGED <<plr, plrQueue, its>> /\ EnvFrame

(* A user adds or removes an IntegrationTestScenario; neither controller   *)
(* watches them.                                                           *)
UserEdit(s) ==
  /\ Spend("edit")
  /\ its' = IF s \in its THEN its \ {s} ELSE its \cup {s}
  /\ UNCHANGED <<plr, plrQueue>> /\ NoPatch({}) /\ EnvFrame

Sync ==
  /\ cache # snap \/ events # {}
  /\ cache' = snap
  /\ queue' = queue \cup events
  /\ events' = {}
  /\ Undisturbed
  /\ UNCHANGED <<snap, plr, plrQueue, its>> /\ EnvFrame

MutantSnapshotOnly == {"snapshot"}

(* The service restarts: the work in flight and the queues are lost, the   *)
(* caches are filled again, and the predicates see a create event for      *)
(* every object.                                                           *)
RequeuedOnCreate ==
  {"snapshot"} \cup
  (IF ~HaveTestsFinished(snap.cond) /\ Present(snap.ann) # {} THEN {"statusreport"} ELSE {})

PlrsRequeuedOnCreate == {p \in Plrs : Exists(p) /\ plr[p].state \in PlrFinished}

Restart ==
  /\ Spend("crash")
  /\ sc' = SCIdle /\ ic' = ICIdle /\ sr' = SRIdle
  /\ cache' = snap
  /\ events' = {}
  /\ queue' = RequeuedOnCreate
  /\ plr' = [p \in Plrs |-> IF plr[p].state = "created"
                            THEN [plr[p] EXCEPT !.state = "pending"] ELSE plr[p]]
  /\ plrQueue' = PlrsRequeuedOnCreate
  /\ UNCHANGED <<snap, created, its>>

Tekton == \E p \in Plrs : PlrAppear(p) \/ PlrStart(p) \/ PlrFinish(p)

Users ==
  \/ \E p \in Plrs : PlrDelete(p)
  \/ \E label \in {"all"} \cup Scenarios : UserRerun(label)
  \/ \E s \in Scenarios : UserEdit(s)

Next ==
  \/ SnapshotController \/ IntegrationPipelineController \/ StatusReportController
  \/ Tekton \/ Users \/ Sync \/ Restart

Spec == Init /\ [][Next]_vars

(* Work queues serve what they hold, watches deliver, Tekton ends every    *)
(* PipelineRun (it enforces a timeout).  Disturbances need not happen.     *)
Fairness ==
  /\ WF_vars(SnapshotController) /\ WF_vars(StatusReportController)
  /\ \A p \in Plrs : WF_vars(ICStart(p))
  /\ WF_vars(IntegrationPipelineController)
  /\ \A p \in Plrs : WF_vars(PlrAppear(p)) /\ WF_vars(PlrStart(p) \/ PlrFinish(p))
  /\ WF_vars(Sync)

-----------------------------------------------------------------------------
(* Properties *)

SCPcs == {"idle", "dropLabel", "rerun", "rerunMark", "rerunWrite", "dropLabelAndReset",
          "reset", "ensure", "ready", "mark", "write", "deferredWrite", "passIfNone"}
ICPcs == {"idle", "load", "write", "writeAndRelease", "release"}
SRPcs == {"idle", "finish", "verdict", "report", "release"}

SCType == [pc: SCPcs, cond: Conditions, st: AllStatuses, todo: SUBSET Scenarios,
           label: Labels, dirty: BOOLEAN, err: BOOLEAN]
ICType ==
  {r \in [pc: ICPcs, plr: Plrs \cup {NoPlr}, seen: PipelineRuns, st: AllStatuses] :
     r.pc # "idle" => r.plr \in Plrs}
SRType == [pc: SRPcs, cond: Conditions, required: SUBSET Scenarios,
           passed: BOOLEAN, release: SUBSET Plrs]

(* Every variable keeps its type: the controllers never put a status, a    *)
(* PipelineRun or a condition into the Snapshot that does not exist.       *)
TypeOK ==
  /\ setting \in Settings
  /\ snap \in Snapshots /\ cache \in Snapshots
  /\ events \subseteq {"snapshot", "statusreport"}
  /\ queue \subseteq {"snapshot", "statusreport"}
  /\ plr \in [Plrs -> PipelineRuns]
  /\ created \in 0..MaxPlrs
  /\ plrQueue \subseteq Plrs
  /\ its \subseteq Scenarios
  /\ sc \in SCType /\ ic \in ICType /\ sr \in SRType
  /\ used \in [Disturbances -> Nat]

PlrsOf(s) == {p \in Plrs : plr[p].scenario = s}

(* No disturbance of these kinds can happen in the setting.                *)
Without(ks) == \A k \in ks : Bound[k] = 0

(* The snapshot and the integrationpipeline controller take turns, and     *)
(* each sees what the other has written: no annotation is overwritten.     *)
InTurns == ~Overlap /\ ~CacheLag

(* A Snapshot is marked as passed only if, for each scenario that was      *)
(* required when EnsureSnapshotFinishedAllTests decided, Tekton completed  *)
(* a PipelineRun successfully - whatever the controllers overwrote, missed *)
(* or repeated in between.                                                 *)
PassedIsEarned ==
  snap.cond.test = "Passed" =>
    \A s \in snap.cond.required :
      \E p \in PlrsOf(s) : plr[p].state \in PlrSucceeded

(* The same, with the outcome of the TEST_OUTPUT results taken into        *)
(* account as integrationTestStatusFromOutcome does, as long as the name   *)
(* of no PipelineRun is lost (overwritten, or in a failed or interrupted   *)
(* reconcile): AdoptExisting takes a run that succeeded for a test that    *)
(* passed.                                                                 *)
PassedByTestOutput ==
  (snap.cond.test = "Passed" /\ InTurns /\ Without({"fault", "crash"})) =>
    \A s \in snap.cond.required :
      \E p \in PlrsOf(s) : plr[p].state \in {"passed", "warning"}

(* A scenario that nobody reruns and whose PipelineRuns nobody deletes     *)
(* gets one PipelineRun, as long as the caches do not lag: the names in    *)
(* the annotation, and the list of existing PipelineRuns when a name is    *)
(* lost, keep processSingleScenario from creating a second one.            *)
OneRunPerScenario ==
  (Without({"rerun", "delete"}) /\ ~CacheLag) =>
    \A s \in Scenarios : \A p, q \in PlrsOf(s) : p = q

(* Nothing is left to do.                                                  *)
AtRest ==
  /\ queue = {} /\ events = {} /\ plrQueue = {}
  /\ sc.pc = "idle" /\ ic.pc = "idle" /\ sr.pc = "idle"
  /\ \A p \in Plrs : Exists(p) => plr[p].state \in PlrFinished \/ plr[p].deleting

(* When all work is done, no scenario is left waiting for a PipelineRun    *)
(* that has ended: EnsureStatusReportedInSnapshot brought every result     *)
(* into the Snapshot and nothing took it out again.  This needs that the   *)
(* two writers of the annotation take turns, and that no PipelineRun is    *)
(* deleted around a restart.                                               *)
ResultsRecorded ==
  (AtRest /\ InTurns /\ (Without({"crash"}) \/ Without({"delete"}))) =>
    \A s \in its : snap.ann[s].plr # NoPlr => IsFinal(snap.ann[s].status)

(* When all work is done and the required tests have finished, the verdict *)
(* is the one their recorded statuses give, although the reset of a rerun  *)
(* and the two patches of EnsureSnapshotFinishedAllTests each replace the  *)
(* whole list of conditions.  Between the snapshot controller's creation   *)
(* of a PipelineRun and its reset no result may come in.                   *)
VerdictAgrees ==
  LET required == its \ Optional
  IN  (/\ AtRest /\ InTurns /\ Without({"edit", "fault", "crash"})
       /\ AllFinished(snap.ann, required)) =>
        snap.cond.test = IF AllPassed(snap.ann, required) THEN "Passed" ELSE "Failed"

(* When all work is done and there is no verdict, no scenario is ready to  *)
(* run without a PipelineRun: an event or an error that                    *)
(* createEligibleIntegrationPipelineRuns left for later was not lost.      *)
StartedWhenReady ==
  (AtRest /\ Without({"edit"}) /\ ~HaveTestsFinished(snap.cond) /\ snap.cond.integration # "Error") =>
    FindScenariosReadyToRunWithoutPLR(
      CascadeFailFast(InitStatuses(snap.ann, its)), its) = {}

(* When all work is done on a Snapshot that is not reported, every         *)
(* PipelineRun that has ended is free of the finalizer and can be pruned,  *)
(* and one that is being deleted goes.  This needs that no PipelineRun is  *)
(* deleted around a restart, after which only finished ones are queued.    *)
FinalizersRemoved ==
  (AtRest /\ ~Reported /\ (Without({"crash"}) \/ Without({"delete"}))) =>
    \A p \in Plrs : Exists(p) => ~plr[p].finalizer

(* The scenarios that the cascade may fail while their PipelineRuns run:   *)
(* a parent that is run again, or whose status is corrected, fails after   *)
(* its dependents have started.                                            *)
FailFastChildren == {e[1] : e \in FailFast}

(* EnsureSnapshotTestStatusReportedToGitProvider and                       *)
(* EnsureStatusReportedInSnapshot take the finalizer only from a           *)
(* PipelineRun that has ended or is being deleted, so that its result is   *)
(* not lost, unless an edge with failFast leads to its scenario.           *)
FinalizerHeld ==
  \A p \in Plrs :
    (plr[p].state # "none" /\ plr[p].scenario \notin FailFastChildren) =>
      plr[p].finalizer \/ plr[p].deleting \/ plr[p].state \in PlrFinished

(* Nothing brings back the entry of a PipelineRun while a newer one of the *)
(* same scenario runs.                                                     *)
EntriesAreNew ==
  ~CacheLag /\ (Without({"rerun"}) \/ (~Overlap /\ Without({"fault", "crash", "delete"})))

(* createEligibleIntegrationPipelineRuns starts a scenario only when no    *)
(* PipelineRun of a scenario it runs after is still running, and never     *)
(* when a failFast parent has not had a successful PipelineRun.  A parent  *)
(* that failed fast itself may be running.                                 *)
DependentsWait ==
  [][(created' # created /\ sc.pc = "ready") =>
       LET s == plr'[created'].scenario
       IN  \A q \in GetRunAfterMap(s, Present(sc.st)) :
             /\ (EntriesAreNew /\ q \notin FailFastChildren) =>
                  \A p \in PlrsOf(q) : plr[p].state \in PlrFinished \/ plr[p].deleting
             /\ <<s, q>> \in FailFast => \E p \in PlrsOf(q) : plr[p].state \in PlrSucceeded
    ]_vars

(* When all work is done, the annotation shows the newest PipelineRun of a *)
(* scenario.  Of the late events of a run that a rerun has replaced only   *)
(* its deletion brings it back (and a restart, which queues every finished *)
(* run that still has its finalizer): EnsureStatusReportedInSnapshot does  *)
(* not look at the name it overwrites.                                     *)
NewestRecorded ==
  (AtRest /\ InTurns /\ Without({"fault", "crash"})) =>
    \A s \in its :
      LET shown == snap.ann[s].plr
      IN  \A p \in PlrsOf(s) : p <= shown \/ (shown # NoPlr /\ plr[shown].deleting)

(* EnsureRerunPipelineRunsExist acts upon a rerun label and removes it,    *)
(* also when the service restarts in the middle of it.                     *)
RerunTaken == snap.label # NoLabel ~> snap.label = NoLabel

(* A required scenario waits for a PipelineRun that has ended.             *)
ResultLost ==
  \E s \in its \ Optional : \E p \in PlrsOf(s) :
    /\ ~IsFinal(snap.ann[s].status) /\ snap.ann[s].plr = p
    /\ plr[p].state \in PlrFinished \/ plr[p].deleting

(* Testing ends with a verdict of EnsureSnapshotFinishedAllTests that      *)
(* stays, unless the required scenarios could not be listed, or the two    *)
(* writers of the annotation overlapped and a result was lost.  Outside    *)
(* these settings a stale or late patch of the conditions can take the     *)
(* verdict out for good.                                                   *)
EventuallyDecided ==
  (/\ ~CacheLag /\ Without({"edit"})
   /\ Without({"crash"}) \/ Without({"delete"})
   /\ Without({"rerun"}) \/ (Without({"fault"}) /\ ~Overlap)
   /\ Without({"fault"}) \/ ~Overlap) =>
    <>[](\/ HaveTestsFinished(snap.cond)
         \/ snap.cond.integration = "Error"
         \/ Overlap /\ ResultLost)
=============================================================================
