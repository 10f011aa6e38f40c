------------------------------ MODULE NudgeBatch ------------------------------
(***************************************************************************)
(* Nudging: when a push build of a component succeeds, the components that *)
(* depend on it get a pull request from a Renovate PipelineRun.  The build *)
(* pipeline controller creates that PipelineRun at once for the immediate  *)
(* targets and records the build in the open batch of each batched target; *)
(* the nudgeconfig controller fires a batch when its timer expires or a    *)
(* user asks for it, and follows its PipelineRun.                          *)
(*                                                                         *)
(* The batches are the status of the NudgeConfig, which is always patched  *)
(* with the resourceVersion that was read (retry.RetryOnConflict).  The    *)
(* build controller reads and patches with nothing between, so its record  *)
(* is one step; the nudgeconfig controller creates objects between its     *)
(* read and its patch, and kw.fresh says whether the patch will be taken.  *)
(* A read of a lagging cache is a read followed by another one's write.    *)
(***************************************************************************)
EXTENDS Naturals, Sequences, FiniteSets

CONSTANTS
  Sources, Builds, FromOf,   \* source components, their builds
  Targets,                   \* the batched targets
  Configs,                   \* the settings of the NudgeConfig considered
  MaxRetries,                \* maxBatchNudgePLRRetries
  MaxBatches,                \* bound on the batches that are ever created
  Budgets                    \* how often each kind of disturbance may happen

(* A failed call, a restart, a build that is deleted, a force-fire, and a  *)
(* nudge PipelineRun that fails or is pruned.                              *)
Disturbances == {"fault", "crash", "delete", "force", "fail", "prune"}

ASSUME NudgeAssumption ==
  /\ FromOf \in [Builds -> Sources]
  /\ MaxRetries \in Nat /\ MaxBatches \in Nat \ {0}
  /\ Configs \subseteq [immediate: BOOLEAN,        \* is there an immediate target?
                        creds: BOOLEAN,            \* are the credentials found?
                        policy: {"Block", "ProceedWithPartial"}]
  /\ Budgets \subseteq [Disturbances -> Nat]

VARIABLES
  conf,      \* the settings (never change)
  about,     \* the kind of each build (never changes): of a push event, of
             \* a pull request, or of a push but without an image result
  plr,       \* the build PipelineRuns
  queue,     \* the work queue of the build pipeline controller
  bw,        \* its reconcile in flight
  batches,   \* status.activeBatches of the NudgeConfig
  action,    \* spec.actions.forceFire
  conds,     \* its conditions on force-fire actions
  cq,        \* is the NudgeConfig in the work queue of its controller?
  alarms,    \* batches for whose fireAt the controller has set a wake-up
  kw,        \* the reconcile of the NudgeConfig in flight
  nudge,     \* the nudge PipelineRuns, with their Secret and ConfigMap
  last,      \* history: the last result recorded for a target and a source
  left       \* the disturbances that may still happen

buildSide == <<conf, about, plr, queue, bw>>
configSide == <<cq, alarms, kw>>
vars == <<buildSide, configSide, batches, action, conds, nudge, last, left>>

-----------------------------------------------------------------------------
NoAction == [target |-> "none", partial |-> FALSE]
NoBuild == "none"

Entries == UNION {[S -> Builds] : S \in SUBSET Sources}

With(f, c, b) == [x \in DOMAIN f \cup {c} |-> IF x = c THEN b ELSE f[x]]
Without(f, c) == [x \in DOMAIN f \ {c} |-> f[x]]

(* A batch is named by its place in the list: batchId is the target and    *)
(* the second in which the batch was created.  Its timer is the fireAt     *)
(* field: nil, in the future or passed; late: is hardDeadline passed?      *)
Batches ==
  [target: Targets, phase: {"Accumulating", "Blocked", "Firing", "Failed", "Completed"},
   timer: {"nil", "set", "passed"}, late: BOOLEAN,
   acc: Entries, failed: Entries,
   retry: 0 .. MaxRetries, run: 0 .. MaxRetries,   \* retryCount, nudgePipelineRun
   forced: BOOLEAN]                       \* history: fired by a user

NewBatch(t) ==
  [target |-> t, phase |-> "Accumulating", timer |-> "nil", late |-> FALSE,
   acc |-> << >>, failed |-> << >>, retry |-> 0, run |-> 0, forced |-> FALSE]

(* BatchedNudgePipelineRunName, and the name for the immediate targets of  *)
(* a build: both are determined by what is nudged.                         *)
Names == ((1 .. MaxBatches) \X (0 .. MaxRetries)) \cup Builds

(* What is created under a name: the Secret and the ConfigMap, which holds *)
(* the builds that Renovate propagates, and the PipelineRun that uses them.*)
Nudges == [config: Entries, run: {"none", "running", "succeeded", "failed"}]

NoNudge == [config |-> << >>, run |-> "none"]

PipelineRuns ==
  [state: {"running", "succeeded", "failed", "gone"}, deleting: BOOLEAN,
   finalizer: BOOLEAN,                                \* the nudge finalizer
   processed: {"no", "done", "skipped", "failed"}]    \* NudgeProcessedAnnotation

NewPipelineRun ==
  [state |-> "running", deleting |-> FALSE, finalizer |-> FALSE, processed |-> "no"]

Disturb(d) ==
  /\ left[d] > 0
  /\ left' = [left EXCEPT ![d] = @ - 1]

(* The status is patched by someone: the nudgeconfig controller is queued  *)
(* and its own copy is no longer the current one.                          *)
NewStatus(new) ==
  /\ batches' = new
  /\ cq' = (cq \/ new # batches)
  /\ kw' = [kw EXCEPT !.fresh = @ /\ new = batches]

-----------------------------------------------------------------------------
(* Batches *)

IsBatchFiringForTarget(bs, t) ==
  \E i \in DOMAIN bs : bs[i].target = t /\ bs[i].phase = "Firing"

FirstOf(S) == CHOOSE i \in S : \A j \in S : i <= j

InPhase(bs, t, phases) == {i \in DOMAIN bs : bs[i].target = t /\ bs[i].phase \in phases}

(* findOrCreateAcceptingBatch *)
Accepting(bs, t) ==
  LET open == InPhase(bs, t, {"Accumulating", "Blocked"})
  IN  IF open # {} THEN <<FirstOf(open), bs>>
      ELSE <<Len(bs) + 1, Append(bs, NewBatch(t))>>

(* scheduleBatchFire *)
Scheduled(b) ==
  IF b.phase = "Blocked" THEN b
  ELSE [b EXCEPT !.timer = IF DOMAIN b.acc = {} THEN "nil"
                           ELSE IF b.late THEN "passed" ELSE "set"]

(* recordBuildPLRForBatchedNudge (and recordSuccessForBatchedNudge).       *)
WithSuccess(b, src, build) ==
  LET failed == Without(b.failed, src)
  IN  Scheduled([b EXCEPT !.acc = With(@, src, build), !.failed = failed,
                          !.phase = IF DOMAIN failed = {} THEN "Accumulating" ELSE @])

MutantForgetsFailure(b, src, build, policy) ==
  [b EXCEPT !.acc = Without(@, src), !.failed = With(@, src, build)]

(* recordFailureForBatchedNudge; recording it again changes nothing.       *)
WithFailure(b, src, build, policy) ==
  LET new == [b EXCEPT !.acc = Without(@, src), !.failed = With(@, src, build)]
  IN  IF src \in DOMAIN b.failed /\ b.failed[src] = build THEN b
      ELSE IF policy = "Block" THEN [new EXCEPT !.phase = "Blocked", !.timer = "nil"]
      ELSE new

BatchTimerExpired(b) == b.late \/ b.timer = "passed"

-----------------------------------------------------------------------------
(* The build pipeline controller: EnsureNudgePipelineRunsExist and         *)
(* RecordFailedBatchedNudgeBuilds, in this order; only the latter does not *)
(* ask whether the build has ended, and whether a push started it.         *)

BuildIdle == [pc |-> "idle", b |-> NoBuild, todo |-> {}, ok |-> FALSE, copy |-> NewPipelineRun]

BReturn(again) ==
  /\ bw' = BuildIdle
  /\ queue' = IF again THEN queue \cup {bw.b} ELSE queue

BFail ==
  /\ Disturb("fault")
  /\ BReturn(TRUE)
  /\ UNCHANGED <<conf, about, plr, configSide, batches, action, conds, nudge, last>>

BGoto(pc) ==
  /\ bw' = [bw EXCEPT !.pc = pc]
  /\ UNCHANGED <<conf, about, plr, queue, configSide, batches, action, conds, nudge, last, left>>

BGone ==
  /\ plr[bw.b].state = "gone"
  /\ BReturn(FALSE)
  /\ UNCHANGED <<conf, about, plr, configSide, batches, action, conds, nudge, last, left>>

(* The event filter: a build that was created, has succeeded and is signed *)
(* (here: at once), has failed or is being deleted.                        *)
PatchBuild(b, new) ==
  /\ plr' = [plr EXCEPT ![b] = new]
  /\ queue' = IF new.state \in {"succeeded", "failed"} \/ (new.deleting /\ ~plr[b].deleting)
              THEN queue \cup {b} ELSE queue

(* Has a push build succeeded?  Any other one is recorded as failed.       *)
Succeeded(b, p) == about[b] # "pull" /\ p.state = "succeeded"

FirstStep(b, p) ==
  IF p.processed # "no" \/ p.deleting THEN IF p.finalizer THEN "release" ELSE "idle"
  ELSE IF Succeeded(b, p)
       THEN IF about[b] = "noresult" \/ (Targets = {} /\ ~conf.immediate)
            THEN "skip" ELSE "finalizer"
  ELSE IF Targets = {} THEN "idle" ELSE "finalizer"

BBegin(b) ==
  LET p == plr[b]
      pc == IF p.state = "gone" THEN "idle" ELSE FirstStep(b, p)
  IN  /\ bw.pc = "idle" /\ b \in queue
      /\ queue' = queue \ {b}
      /\ bw' = IF pc = "idle" THEN BuildIdle
               ELSE [pc |-> pc, b |-> b, todo |-> Targets, ok |-> Succeeded(b, p), copy |-> p]
      /\ UNCHANGED <<conf, about, plr, configSide, batches, action, conds, nudge, last, left>>

(* AddFinalizerToPipelineRun: on the PipelineRun read again for a success, *)
(* on the copy for a failure, where the lock of the patch refuses it when  *)
(* the PipelineRun has changed.                                            *)
BFinalizer ==
  LET p == plr[bw.b]
  IN  /\ bw.pc = "finalizer"
      /\ \/ p.state # "gone" /\ bw.ok /\ p.deleting /\ BGoto("release")
         \/ ~bw.ok /\ bw.copy.finalizer /\ BGoto("record")
         \/ /\ ~bw.ok /\ ~bw.copy.finalizer /\ p # bw.copy
            /\ BReturn(TRUE)
            /\ UNCHANGED <<conf, about, plr, configSide, batches, action, conds, nudge, last, left>>
         \/ /\ p.state # "gone"
            /\ IF bw.ok THEN ~p.deleting ELSE ~bw.copy.finalizer /\ p = bw.copy
            /\ plr' = [plr EXCEPT ![bw.b].finalizer = TRUE]
            /\ bw' = [bw EXCEPT !.pc = "record"]
            /\ UNCHANGED <<conf, about, queue, configSide, batches, action, conds, nudge, last, left>>
         \/ bw.ok /\ BGone
         \/ BFail

MutantRecordsAnywhere(t, build) ==
  LET bs == Append(batches, NewBatch(t))
  IN  [bs EXCEPT ![Len(bs)] =
        IF bw.ok THEN WithSuccess(@, FromOf[build], build)
        ELSE WithFailure(@, FromOf[build], build, conf.policy)]

(* The list of batches once the build is recorded for target t.            *)
Recorded(t, build) ==
  LET found == Accepting(batches, t)
  IN  [found[2] EXCEPT ![found[1]] =
        IF bw.ok THEN WithSuccess(@, FromOf[build], build)
        ELSE WithFailure(@, FromOf[build], build, conf.policy)]

(* RecordBuildForBatchedNudge, RecordFailedBuildForBatchedNudge: a new     *)
(* fireAt turns the wake-up that was set for the old one into an early one.*)
BRecord(t) ==
  LET b == bw.b
      i == Accepting(batches, t)[1]
  IN  /\ bw.pc = "record" /\ t \in bw.todo
      /\ \/ /\ i <= MaxBatches
            /\ NewStatus(Recorded(t, b))
            /\ alarms' = alarms \ {i}
            /\ last' = [last EXCEPT ![t][FromOf[b]] = [b |-> b, ok |-> bw.ok]]
            /\ bw' = [bw EXCEPT !.todo = @ \ {t}]
            /\ UNCHANGED <<conf, about, plr, queue, action, conds, nudge, left>>
         \/ BFail

MutantAnnotatesFirst ==
  /\ bw.pc = "record" /\ bw.todo = {}
  /\ BGoto("annotate")

(* All targets are recorded.                                               *)
BRecorded ==
  /\ bw.pc = "record" /\ bw.todo = {}
  /\ BGoto(IF bw.ok /\ conf.immediate
           THEN IF conf.creds THEN "config" ELSE "skip" ELSE "annotate")

(* CreateNudgePipelineRun and CreateBatchedNudgePipelineRun create the     *)
(* Secret and the ConfigMap and then the PipelineRun, each only when it    *)
(* does not exist (createIfNotExists).                                     *)
CreateObject(name, pc, payload) ==
  LET old == nudge[name]
  IN  nudge' = [nudge EXCEPT ![name] =
                  IF pc = "config" THEN [old EXCEPT !.config = IF @ = << >> THEN payload ELSE @]
                  ELSE [old EXCEPT !.run = IF @ = "none" THEN "running" ELSE @]]

BCreate ==
  /\ bw.pc \in {"config", "run"}
  /\ \/ /\ CreateObject(bw.b, bw.pc, [c \in {FromOf[bw.b]} |-> bw.b])
        /\ bw' = [bw EXCEPT !.pc = IF bw.pc = "config" THEN "run" ELSE "annotate"]
        /\ UNCHANGED <<conf, about, plr, queue, configSide, batches, action, conds, last, left>>
     \/ BFail

(* finalizeNudgeProcessedBuildPipelineRun, first half.  An error of the    *)
(* annotation "credentials-error" or "no-credentials" is ignored.          *)
BAnnotate ==
  LET p == plr[bw.b]
      value == IF bw.pc = "skip" THEN "skipped" ELSE IF bw.ok THEN "done" ELSE "failed"
  IN  /\ bw.pc \in {"annotate", "skip"}
      /\ \/ /\ p.state # "gone" /\ p.deleting /\ bw.ok /\ bw.pc = "annotate"
            /\ BReturn(FALSE)
            /\ UNCHANGED <<conf, about, plr, configSide, batches, action, conds, nudge, last, left>>
         \/ /\ p.state # "gone" /\ ~(p.deleting /\ bw.ok /\ bw.pc = "annotate")
            /\ PatchBuild(bw.b, [p EXCEPT !.processed = value])
            /\ bw' = [bw EXCEPT !.pc = "release"]
            /\ UNCHANGED <<conf, about, configSide, batches, action, conds, nudge, last, left>>
         \/ BGone
         \/ bw.pc = "annotate" /\ BFail
         \/ /\ bw.pc = "skip" /\ Disturb("fault")
            /\ bw' = [bw EXCEPT !.pc = "release"]
            /\ UNCHANGED <<conf, about, plr, queue, configSide, batches, action, conds, nudge, last>>

(* RemoveFinalizerFromPipelineRun ends the reconcile.                      *)
BRelease ==
  LET p == plr[bw.b]
  IN  /\ bw.pc = "release"
      /\ \/ /\ p.state # "gone"
            /\ plr' = [plr EXCEPT ![bw.b] =
                         [p EXCEPT !.finalizer = FALSE,
                                   !.state = IF p.deleting THEN "gone" ELSE p.state]]
            /\ BReturn(FALSE)
            /\ UNCHANGED <<conf, about, configSide, batches, action, conds, nudge, last, left>>
         \/ BGone
         \/ BFail

-----------------------------------------------------------------------------
(* The nudgeconfig controller.  view is the status as read, todo the       *)
(* batches that the current operation has yet to handle, i the one it      *)
(* handles and act the action as read at the start of the reconcile.       *)

KIdle == [pc |-> "idle", op |-> "none", act |-> NoAction, view |-> << >>, fresh |-> TRUE,
          todo |-> {}, i |-> 0, changed |-> FALSE]

KStep(new) ==
  /\ kw' = new
  /\ UNCHANGED <<buildSide, batches, action, conds, cq, alarms, nudge, last, left>>

(* Reconcile returns an error and is queued again.                         *)
KFail ==
  /\ kw' = KIdle /\ cq' = TRUE
  /\ UNCHANGED <<buildSide, batches, action, conds, alarms, nudge, last>>

KError == Disturb("fault") /\ KFail

(* The conditions on earlier actions are not cleared: the functions that   *)
(* clear them take their base copy after the change, so that the patch is  *)
(* empty.                                                                  *)
KBegin ==
  /\ kw.pc = "idle" /\ cq
  /\ cq' = FALSE
  /\ kw' = [KIdle EXCEPT !.pc = IF action = NoAction THEN "due" ELSE "force", !.act = action]
  /\ UNCHANGED <<buildSide, batches, action, conds, alarms, nudge, last, left>>

(* findForceFireBatch *)
ForceFireBatches(bs, t) ==
  LET acc == InPhase(bs, t, {"Accumulating"})
  IN  IF acc # {} THEN acc ELSE InPhase(bs, t, {"Blocked", "Failed"})

(* validateForceFireBatch *)
ValidForceFire(b, partial) == partial \/ DOMAIN b.failed = {}

(* The verdict on a force-fire action, on the status read now.             *)
ForceVerdict(t, partial) ==
  LET found == ForceFireBatches(batches, t)
  IN  IF IsBatchFiringForTarget(batches, t) THEN "Ignored"
      ELSE IF found = {} THEN "Rejected"
      ELSE IF DOMAIN batches[FirstOf(found)].acc = {} THEN "Rejected"
      ELSE IF ~ValidForceFire(batches[FirstOf(found)], partial) THEN "Rejected"
      ELSE "fire"

(* SetForceFireIgnoredCondition, SetForceFireRejectedCondition: an error   *)
(* is ignored.                                                             *)
SetCondition(c) ==
  /\ \/ conds' = conds \cup {c} /\ UNCHANGED left
     \/ conds' = conds /\ Disturb("fault")
  /\ kw' = [kw EXCEPT !.pc = "clear"]
  /\ UNCHANGED <<buildSide, batches, action, cq, alarms, nudge, last>>

(* The current PipelineRun of batch i.                                     *)
RunOf(i) == nudge[<<i, kw.view[i].run>>].run

(* buildBatchedRenovatePayload, and the service account that the creation  *)
(* looks up in the namespace of the reference PipelineRun: it has none     *)
(* when all the builds of the batch are pruned.                            *)
PayloadFound(acc) ==
  conf.creds /\ \E c \in DOMAIN acc : plr[acc[c]].state # "gone"

(* Batch i of the copy k was fired with PipelineRun number n, or was not;  *)
(* a force-fire then ends, the other operations go on with their loop.     *)
Fired(k, i, n) ==
  LET fired == [k.view[i] EXCEPT !.phase = "Firing", !.run = n, !.forced = @ \/ k.op = "force"]
  IN  [k EXCEPT !.view[i] = fired,
                !.changed = TRUE, !.pc = IF k.op = "force" THEN "patch" ELSE "scan"]

Unfired(k, i) ==
  [k EXCEPT !.view[i].phase = "Failed",
            !.changed = TRUE, !.pc = IF k.op = "force" THEN "patch" ELSE "scan"]

(* retryFiringBatch, up to the first creation.                             *)
Prepared(k, i) ==
  IF PayloadFound(k.view[i].acc) THEN [k EXCEPT !.pc = "config"] ELSE Unfired(k, i)

(* fireBatch: a PipelineRun of the planned name is adopted as it is.       *)
FireBatch(k, i) ==
  LET n == k.view[i].run
  IN  IF nudge[<<i, n>>].run # "none" THEN Fired(k, i, n) ELSE Prepared(k, i)

(* A copy of the status for operation op, which is to handle batches S.    *)
Reading(op, S) ==
  [KIdle EXCEPT !.pc = "scan", !.op = op, !.act = kw.act, !.view = batches, !.todo = S]

(* ProcessForceFireAction, up to the creation of the PipelineRun.          *)
KForce ==
  LET v == ForceVerdict(kw.act.target, kw.act.partial)
      i == FirstOf(ForceFireBatches(batches, kw.act.target))
  IN  /\ kw.pc = "force"
      /\ \/ v # "fire" /\ SetCondition(v)
         \/ v = "fire" /\ KStep(FireBatch([Reading("force", {}) EXCEPT !.i = i], i))

(* What follows an operation.                                              *)
AfterOp(op) == IF op = "force" THEN "clear" ELSE IF op = "due" THEN "firing" ELSE "wake"

NextOp == [KIdle EXCEPT !.pc = AfterOp(kw.op), !.act = kw.act]

(* The batches that ProcessDueNudgeBatches and ProcessFiringNudgeBatches   *)
(* handle: those whose timer has expired, and those whose PipelineRun has  *)
(* ended or is gone.                                                       *)
Handled(op) ==
  {i \in DOMAIN batches :
     \/ op = "due" /\ batches[i].phase = "Accumulating" /\ BatchTimerExpired(batches[i])
     \/ /\ op = "firing" /\ batches[i].phase = "Firing"
        /\ nudge[<<i, batches[i].run>>].run # "running"}

KRead ==
  /\ kw.pc \in {"due", "firing"}
  /\ KStep(IF Handled(kw.pc) = {} THEN [KIdle EXCEPT !.pc = AfterOp(kw.pc), !.act = kw.act]
           ELSE Reading(kw.pc, Handled(kw.pc)))

(* What ProcessDueNudgeBatches does with batch i of its copy.              *)
DueVerdict(i) ==
  IF DOMAIN kw.view[i].acc = {} THEN "Failed"
  ELSE IF IsBatchFiringForTarget(kw.view, kw.view[i].target) THEN "skip"
  ELSE "fire"

(* What ProcessFiringNudgeBatches does with it.                            *)
FiringVerdict(i) ==
  LET run == RunOf(i)
  IN  IF run = "none" THEN "error"
      ELSE IF run = "running" THEN "skip"
      ELSE IF run = "succeeded" THEN "Completed"
      ELSE IF kw.view[i].retry >= MaxRetries THEN "Failed"
      ELSE "retry"

KScan ==
  LET i == FirstOf(kw.todo)
      v == IF kw.op = "due" THEN DueVerdict(i) ELSE FiringVerdict(i)
      next == [kw EXCEPT !.todo = @ \ {i}, !.i = i]
  IN  /\ kw.pc = "scan" /\ kw.todo # {}
      /\ \/ v = "error" /\ KFail /\ UNCHANGED left
         \/ v = "skip" /\ KStep(next)
         \/ /\ v \in {"Failed", "Completed"}
            /\ KStep([next EXCEPT !.view[i].phase = v, !.changed = TRUE])
         \/ v = "fire" /\ KStep(FireBatch(next, i))
         \/ v = "retry" /\ KStep(Prepared([next EXCEPT !.view[i].retry = @ + 1], i))

(* CreateBatchedNudgePipelineRun; an error ends the batch.                 *)
KCreate ==
  LET b == kw.view[kw.i]
  IN  /\ kw.pc \in {"config", "run"}
      /\ \/ /\ CreateObject(<<kw.i, b.retry>>, kw.pc, b.acc)
            /\ kw' = IF kw.pc = "run" THEN Fired(kw, kw.i, b.retry) ELSE [kw EXCEPT !.pc = "run"]
            /\ UNCHANGED <<buildSide, batches, action, conds, cq, alarms, last, left>>
         \/ /\ Disturb("fault")
            /\ kw' = Unfired(kw, kw.i)
            /\ UNCHANGED <<buildSide, batches, action, conds, cq, alarms, nudge, last>>

(* The loop ends; the status is patched when the copy was changed.         *)
KScanned ==
  /\ kw.pc = "scan" /\ kw.todo = {}
  /\ KStep(IF kw.changed THEN [kw EXCEPT !.pc = "patch"] ELSE NextOp)

(* The status patch that ends an operation, and what follows it.  After a  *)
(* conflict the operation starts again; when the conflicts do not end, or  *)
(* the call fails, the reconcile does.  Time goes on in the copy, too.     *)
MutantNoLock ==
  /\ kw.pc = "patch"
  /\ batches' = kw.view /\ cq' = TRUE
  /\ kw' = NextOp
  /\ UNCHANGED <<buildSide, action, conds, alarms, nudge, last, left>>

KPatch ==
  /\ kw.pc = "patch"
  /\ \/ /\ kw.fresh
        /\ batches' = [i \in DOMAIN batches |->
                        [kw.view[i] EXCEPT !.timer = batches[i].timer, !.late = batches[i].late]]
        /\ cq' = TRUE
        /\ kw' = NextOp
        /\ conds' = IF kw.op = "force" /\ kw.view[kw.i].phase = "Failed"
                    THEN conds \cup {"Rejected"} ELSE conds
        /\ UNCHANGED <<buildSide, action, alarms, nudge, last, left>>
     \/ ~kw.fresh /\ KStep([KIdle EXCEPT !.pc = kw.op, !.act = kw.act])
     \/ kw.op # "force" /\ KError
     \/ kw.op = "force" /\ SetCondition("Rejected") /\ left # left'

(* ClearNudgeConfigActions removes the action that is there now.           *)
KClear ==
  /\ kw.pc = "clear"
  /\ \/ /\ action' = NoAction
        /\ cq' = (cq \/ action # NoAction)
        /\ kw' = [kw EXCEPT !.pc = "due"]
        /\ UNCHANGED <<buildSide, batches, conds, alarms, nudge, last, left>>
     \/ KError

(* NextBatchWakeDuration: 5 s as long as a batch is firing; otherwise the  *)
(* earliest fireAt, and no wake-up at all when one has passed meanwhile.   *)
Waiting(timers) ==
  {i \in DOMAIN batches : batches[i].phase = "Accumulating" /\ batches[i].timer \in timers}

KWake ==
  LET firing == \E t \in Targets : IsBatchFiringForTarget(batches, t)
  IN  /\ kw.pc = "wake"
      /\ kw' = KIdle
      /\ cq' = (cq \/ firing)
      /\ \/ /\ ~firing /\ Waiting({"passed"}) = {}
            /\ \E i \in Waiting({"set"}) : alarms' = alarms \cup {i}
         \/ /\ firing \/ Waiting({"passed"}) # {} \/ Waiting({"set"}) = {}
            /\ UNCHANGED alarms
      /\ UNCHANGED <<buildSide, batches, action, conds, nudge, last, left>>

-----------------------------------------------------------------------------
(* The cluster, its users and time *)

(* The fireAt or the hardDeadline of batch i passes; the former is never   *)
(* after the latter, and a wake-up may have been set for it.               *)
Expire(i) ==
  /\ i \in DOMAIN batches
  /\ batches[i].phase \in {"Accumulating", "Blocked"}
  /\ \/ batches[i].timer = "set" /\ batches' = [batches EXCEPT ![i].timer = "passed"]
     \/ /\ batches[i].timer # "set" /\ ~batches[i].late
        /\ batches' = [batches EXCEPT ![i].late = TRUE]
  /\ cq' = (cq \/ i \in alarms)
  /\ alarms' = alarms \ {i}
  /\ UNCHANGED <<buildSide, kw, action, conds, nudge, last, left>>

EndBuild(b) ==
  /\ plr[b].state = "running"
  /\ \E st \in {"succeeded", "failed"} : PatchBuild(b, [plr[b] EXCEPT !.state = st])
  /\ UNCHANGED <<conf, about, bw, configSide, batches, action, conds, nudge, last, left>>

(* The pruner or a user deletes a build; another finalizer may keep it for *)
(* a while, the nudge finalizer does for sure.                             *)
DeleteBuild(b) ==
  /\ plr[b].state # "gone" /\ ~plr[b].deleting
  /\ Disturb("delete")
  /\ PatchBuild(b, [plr[b] EXCEPT !.deleting = TRUE,
                                  !.state = IF plr[b].finalizer THEN @ ELSE "gone"])
  /\ UNCHANGED <<conf, about, bw, configSide, batches, action, conds, nudge, last>>

EndNudge(n) ==
  /\ nudge[n].run = "running"
  /\ \/ nudge' = [nudge EXCEPT ![n].run = "succeeded"] /\ UNCHANGED left
     \/ nudge' = [nudge EXCEPT ![n].run = "failed"] /\ Disturb("fail")
  /\ UNCHANGED <<buildSide, configSide, batches, action, conds, last>>

(* A nudge PipelineRun that has ended is pruned.                           *)
PruneNudge(n) ==
  /\ nudge[n].run \in {"succeeded", "failed"}
  /\ Disturb("prune")
  /\ nudge' = [nudge EXCEPT ![n].run = "none"]
  /\ UNCHANGED <<buildSide, configSide, batches, action, conds, last>>

UserForceFire(t, partial) ==
  /\ Disturb("force")
  /\ action' = [target |-> t, partial |-> partial]
  /\ cq' = TRUE
  /\ UNCHANGED <<buildSide, batches, conds, alarms, kw, nudge, last>>

Crash ==
  /\ Disturb("crash")
  /\ bw' = BuildIdle /\ kw' = KIdle
  /\ queue' = {b \in Builds : plr[b].state # "gone"}
  /\ cq' = TRUE /\ alarms' = {}
  /\ UNCHANGED <<conf, about, plr, batches, action, conds, nudge, last>>

-----------------------------------------------------------------------------
NudgeInit ==
  /\ conf \in Configs
  /\ about \in [Builds -> {"push", "pull", "noresult"}]
  /\ plr \in [Builds -> {NewPipelineRun, [NewPipelineRun EXCEPT !.state = "succeeded"],
                         [NewPipelineRun EXCEPT !.state = "gone"]}]
  /\ queue = {b \in Builds : plr[b].state # "gone"}
  /\ bw = BuildIdle
  /\ batches = << >> /\ action = NoAction /\ conds = {}
  /\ cq = FALSE /\ alarms = {} /\ kw = KIdle
  /\ nudge = [n \in Names |-> NoNudge]
  /\ last = [t \in Targets |-> [c \in Sources |-> [b |-> NoBuild, ok |-> FALSE]]]
  /\ left \in Budgets

BStep ==
  \/ BFinalizer \/ BRecorded \/ BCreate \/ BAnnotate \/ BRelease
  \/ \E t \in Targets : BRecord(t)

KWork ==
  \/ KBegin \/ KForce \/ KRead \/ KScan \/ KScanned \/ KCreate \/ KPatch \/ KClear \/ KWake

Cluster ==
  \/ \E i \in 1 .. MaxBatches : Expire(i)
  \/ \E b \in Builds : EndBuild(b) \/ DeleteBuild(b)
  \/ \E n \in Names : EndNudge(n) \/ PruneNudge(n)
  \/ \E t \in Targets, partial \in BOOLEAN : UserForceFire(t, partial)
  \/ Crash

NudgeNext == BStep \/ (\E b \in Builds : BBegin(b)) \/ KWork \/ Cluster

-----------------------------------------------------------------------------
Actions == [target: Targets \cup {"none"}, partial: BOOLEAN]

BuildReconciles ==
  [pc: {"idle", "finalizer", "record", "config", "run", "annotate", "skip", "release"},
   b: Builds \cup {NoBuild}, todo: SUBSET Targets, ok: BOOLEAN, copy: PipelineRuns]

ConfigReconciles ==
  [pc: {"idle", "force", "due", "firing", "clear", "wake", "scan", "config", "run", "patch"},
   op: {"none", "force", "due", "firing"}, act: Actions, view: Seq(Batches), fresh: BOOLEAN,
   todo: SUBSET Nat, i: Nat, changed: BOOLEAN]

TypeOK ==
  /\ conf \in Configs
  /\ about \in [Builds -> {"push", "pull", "noresult"}]
  /\ plr \in [Builds -> PipelineRuns] /\ queue \subseteq Builds
  /\ bw \in BuildReconciles /\ (bw.pc # "idle" => bw.b \in Builds)
  /\ batches \in Seq(Batches)
  /\ action \in Actions /\ conds \subseteq {"Ignored", "Rejected"}
  /\ cq \in BOOLEAN /\ alarms \subseteq Nat
  /\ kw \in ConfigReconciles
  /\ nudge \in [Names -> Nudges]
  /\ last \in [Targets -> [Sources -> [b: Builds \cup {NoBuild}, ok: BOOLEAN]]]
  /\ left \in [Disturbances -> Nat]

(* A target has at most one batch that accepts builds and at most one that *)
(* is firing, whatever timers, users and builds do at the same time: no    *)
(* two Renovate PipelineRuns work on one repository at once.               *)
OneBatchPerTarget ==
  \A t \in Targets, phases \in {{"Accumulating", "Blocked"}, {"Firing"}} :
    \A i, j \in InPhase(batches, t, phases) : i = j

(* What was recorded last for a target and a source stays recorded, as a   *)
(* success or as a failure: the controller that fires batches from an old  *)
(* copy of the status does not undo it.                                    *)
NoRecordLost ==
  \A t \in Targets, c \in Sources :
    LET r == last[t][c]
    IN  r.b # NoBuild =>
          \E i \in DOMAIN batches :
            /\ batches[i].target = t
            /\ LET f == IF r.ok THEN batches[i].acc ELSE batches[i].failed
               IN  c \in DOMAIN f /\ f[c] = r.b

(* With the policy Block a batch that lacks a failed build fires only when *)
(* a user asks for it (findForceFireBatch, recordFailureForBatchedNudge).  *)
PartialOnlyIfForced ==
  \A i \in DOMAIN batches :
    (conf.policy = "Block" /\ batches[i].phase \in {"Firing", "Completed"}
       /\ DOMAIN batches[i].failed # {}) => batches[i].forced

(* A build is marked as processed only after its immediate nudge exists    *)
(* and it was recorded for every batched target (the finalizer protects it *)
(* until then), in spite of restarts and failed calls.                     *)
ProcessedMeansNudged ==
  [][\A b \in Builds : (plr[b].processed = "no" /\ plr'[b].processed = "done") =>
       /\ conf.immediate => nudge[b].config # << >>
       /\ \A t \in Targets : \E i \in DOMAIN batches :
            batches[i].target = t /\ FromOf[b] \in DOMAIN batches[i].acc \cup DOMAIN batches[i].failed]_vars

=============================================================================
