------------------------ MODULE SnapshotTestingProofs ------------------------
(***************************************************************************)
(* Type correctness of SnapshotTesting, and that a Snapshot passes only    *)
(* on successful PipelineRuns, for every set of scenarios, every TestGraph *)
(* and every number of disturbances.                                       *)
(***************************************************************************)
EXTENDS SnapshotTesting, TestStatusProofs

(* The operations on conditions keep their type.                           *)
LEMMA ConditionsType ==
  /\ NoConditions \in Conditions
  /\ \A cond \in Conditions :
       /\ MarkInProgress(cond) \in Conditions
       /\ MarkFinished(cond) \in Conditions
       /\ MarkError(cond) \in Conditions
       /\ ResetConditions(cond) \in Conditions
       /\ \A required \in SUBSET Scenarios :
            MarkPassed(cond, required) \in Conditions /\ MarkFailed(cond, required) \in Conditions
BY Zenon DEF NoConditions, Conditions, MarkInProgress, MarkFinished, MarkError, ResetConditions,
       MarkPassed, MarkFailed

(* A controller between two reconciles.                                    *)
LEMMA IdleType ==
  SCIdle \in SCType /\ ICIdle \in ICType /\ SRIdle \in SRType
BY ConditionsType, NoStatusesType
   DEF SCIdle, ICIdle, SRIdle, SCType, ICType, SRType, SCPcs, ICPcs, SRPcs, Labels, NoLabel,
       NoPipelineRun, PipelineRuns, NoScenario, PlrStates

(* A new Snapshot has no statuses, no conditions and no PipelineRuns.      *)
LEMMA InitTypeOK == Init => TypeOK
BY IdleType, NoStatusesType, ConditionsType, MaxPlrsAssumption
   DEF Init, TypeOK, NewSnapshot, Snapshots, Labels, NoLabel, NoPipelineRun, PipelineRuns,
       NoScenario, PlrStates, SCType, ICType, SRType, AllStatuses

(* The part of TypeOK that is about the Snapshot and its delivery: every   *)
(* patch of an object of the right type preserves it.                      *)
SnapTypeOK ==
  /\ snap \in Snapshots /\ cache \in Snapshots
  /\ events \subseteq {"snapshot", "statusreport"}
  /\ queue \subseteq {"snapshot", "statusreport"}

(* A patch that leads to an object of the right type, and its delivery to  *)
(* the watches, keep SnapTypeOK.                                           *)
LEMMA PatchType ==
  ASSUME TypeOK, NEW again \in SUBSET {"snapshot", "statusreport"}
  PROVE  /\ \A new \in Snapshots : Patch(new, again) => SnapTypeOK'
         /\ NoPatch(again) => SnapTypeOK'
<1>1. \A new : Watchers(snap, new) \subseteq {"snapshot", "statusreport"}
  BY DEF Watchers
<1>2. QED
  BY <1>1, Zenon DEF Patch, NoPatch, TypeOK, SnapTypeOK

(* The objects that the patches lead to have the right type.               *)
LEMMA WithType ==
  ASSUME TypeOK
  PROVE  /\ \A st \in AllStatuses : WithAnnotation(st) \in Snapshots
         /\ \A cond \in Conditions : WithConditions(cond) \in Snapshots
         /\ WithoutLabel \in Snapshots
         /\ \A label \in Labels : [snap EXCEPT !.label = label] \in Snapshots
         /\ snap.ann \in AllStatuses /\ snap.cond \in Conditions
         /\ cache.ann \in AllStatuses /\ cache.cond \in Conditions /\ cache.label \in Labels
BY DEF TypeOK, WithAnnotation, WithConditions, WithoutLabel, Snapshots, Labels, NoLabel

(* Every step is undisturbed or counts one disturbance.                    *)
LEMMA UsedType ==
  ASSUME TypeOK, Undisturbed \/ \E k \in Disturbances : Spend(k)
  PROVE  used' \in [Disturbances -> Nat] /\ setting' \in Settings
BY DEF TypeOK, Undisturbed, Spend

(* createIntegrationPipelineRun takes the next name.                       *)
LEMMA CreatePlrType ==
  ASSUME TypeOK, NEW s \in Scenarios, CreatePlr(s)
  PROVE  /\ plr' \in [Plrs -> PipelineRuns]
         /\ created' \in 0..MaxPlrs
         /\ created + 1 \in Plrs
BY MaxPlrsAssumption DEF TypeOK, CreatePlr, PipelineRuns, PlrStates, Plrs

(* A PipelineRun without its finalizer is a PipelineRun.                   *)
LEMMA RemoveFinalizerType ==
  ASSUME TypeOK, NEW p \in Plrs, RemoveFinalizer(p)
  PROVE  plr' \in [Plrs -> PipelineRuns]
<1>1. plr[p] \in PipelineRuns
  BY DEF TypeOK
<1>2. [plr[p] EXCEPT !.finalizer = FALSE] \in PipelineRuns
  BY <1>1, Zenon DEF PipelineRuns
<1>3. plr' = [plr EXCEPT ![p] = [plr[p] EXCEPT !.finalizer = FALSE]]
  BY DEF RemoveFinalizer
<1>4. QED
  BY <1>2, <1>3 DEF TypeOK

(* ResetStatus, and the TestInvalid of handlePipelineCreationError, keep   *)
(* the type of the statuses.                                               *)
LEMMA StatusType ==
  ASSUME NEW st \in AllStatuses, NEW s \in Scenarios
  PROVE  /\ ResetStatus(st, s) \in AllStatuses
         /\ UpdateTestStatusIfChanged(st, s, "TestInvalid", "snapshot") \in AllStatuses
BY UpdateTestStatusType, Zenon
   DEF ResetStatus, UpdateTestStatusIfChanged, AllStatuses, Details, Statuses, FinalStatuses, Writers

(* The end of createIntegrationPipelineRun, whether its patch fails or     *)
(* not.                                                                    *)
LEMMA MarkStartedType ==
  ASSUME TypeOK, NEW next \in SCPcs, MarkStarted(next)
  PROVE  /\ SnapTypeOK' /\ sc' \in SCType
         /\ used' \in [Disturbances -> Nat] /\ setting' \in Settings
<1>1. WithConditions(MarkInProgress(sc.cond)) \in Snapshots
  BY ConditionsType, WithType DEF TypeOK, SCType
<1>2. SnapTypeOK'
  BY <1>1, PatchType DEF MarkStarted
<1>3. sc' \in SCType
  BY ConditionsType, Zenon DEF MarkStarted, TypeOK, SCType
<1>4. used' \in [Disturbances -> Nat] /\ setting' \in Settings
  BY UsedType DEF MarkStarted, Disturbances
<1>5. QED
  BY <1>2, <1>3, <1>4

-----------------------------------------------------------------------------
(* The snapshot controller.                                                *)

(* No step of the snapshot controller leaves the types.                    *)
LEMMA SCTypeOK == TypeOK /\ SnapshotController => TypeOK'
<1> SUFFICES ASSUME TypeOK, SnapshotController PROVE TypeOK'
  OBVIOUS
<1> USE WithType, UsedType, IdleType, ConditionsType, NoStatusesType DEF SCFrame, NoPlrChange
<1>1. CASE SCStart
  <2>1. PICK existing \in SUBSET Scenarios, next \in SCPcs :
          sc' = [SCIdle EXCEPT !.pc = next, !.cond = cache.cond, !.st = cache.ann,
                               !.todo = ScenariosToRerun(cache.label, cache.ann, existing),
                               !.label = cache.label]
    <3>1. its \in SUBSET Scenarios
      BY DEF TypeOK
    <3>2. QED
      BY <1>1, <3>1, Zenon DEF SCStart, SCPcs
  <2>2. ScenariosToRerun(cache.label, cache.ann, existing) \in SUBSET Scenarios
    BY DEF TypeOK, ScenariosToRerun
  <2>3. sc' \in SCType
    BY <2>1, <2>2, Zenon DEF SCType
  <2>4. QED
    BY <1>1, <2>3 DEF SCStart, TypeOK
<1>2. CASE SCError
  BY <1>2 DEF SCError, SCRequeue, TypeOK, Disturbances, NoPatch
<1>3. ASSUME NEW s \in Scenarios, RerunCreate(s) PROVE TypeOK'
  BY <1>3, CreatePlrType, UpdateTestStatusType, Zenon
     DEF RerunCreate, TypeOK, SCType, SCPcs, NoPatch, ResetStatus, Statuses, Writers
<1>4. ASSUME NEW s \in Scenarios, RerunCreateLost(s) PROVE TypeOK'
  BY <1>4, CreatePlrType DEF RerunCreateLost, TypeOK, Disturbances, NoPatch
<1>5. ASSUME NEW s \in Scenarios, RerunCreateInvalid(s) PROVE TypeOK'
  <2> DEFINE st == UpdateTestStatusIfChanged(ResetStatus(sc.st, s), s, "TestInvalid", "snapshot")
  <2>1. st \in AllStatuses
    BY StatusType DEF TypeOK, SCType
  <2>2. SnapTypeOK'
    BY <1>5, <2>1, PatchType, Zenon DEF RerunCreateInvalid
  <2>3. sc' \in SCType
    BY <1>5, <2>1, Zenon DEF RerunCreateInvalid, TypeOK, SCType, SCPcs
  <2>4. QED
    BY <1>5, <2>2, <2>3 DEF RerunCreateInvalid, TypeOK, SnapTypeOK, Disturbances
<1>6. CASE RerunMark
  <2>1. SnapTypeOK' /\ sc' \in SCType /\ used' \in [Disturbances -> Nat] /\ setting' \in Settings
    BY <1>6, MarkStartedType DEF RerunMark, SCPcs
  <2>2. QED
    BY <1>6, <2>1 DEF RerunMark, TypeOK, SnapTypeOK
<1>7. CASE RerunWrite
  <2>1. SnapTypeOK'
    BY <1>7, PatchType, Zenon DEF RerunWrite, TypeOK, SCType
  <2>2. sc' \in SCType
    BY <1>7, Zenon DEF RerunWrite, TypeOK, SCType, SCPcs
  <2>3. QED
    BY <1>7, <2>1, <2>2 DEF RerunWrite, TypeOK, SnapTypeOK
<1>8. CASE DropLabel
  <2>1. SnapTypeOK'
    BY <1>8, PatchType, Zenon DEF DropLabel, TypeOK, SCType
  <2>2. sc' \in SCType
    BY <1>8, Zenon DEF DropLabel, TypeOK, SCType, SCPcs, Labels, NoLabel
  <2>3. QED
    BY <1>8, <2>1, <2>2 DEF DropLabel, TypeOK, SnapTypeOK
<1>9. CASE ResetSnapshotStatusConditions
  <2>1. SnapTypeOK'
    BY <1>9, PatchType, Zenon DEF ResetSnapshotStatusConditions, TypeOK, SCType
  <2>2. sc' \in SCType
    <3>1. ResetConditions(sc.cond) \in Conditions /\ snap.ann \in AllStatuses
      BY DEF TypeOK, SCType
    <3>2. CASE HaveTestsFinished(sc.cond)
      <4>1. sc' = [sc EXCEPT !.pc = "ensure", !.cond = ResetConditions(sc.cond), !.st = snap.ann]
        BY <1>9, <3>2 DEF ResetSnapshotStatusConditions
      <4>2. sc \in SCType /\ "ensure" \in SCPcs
        BY DEF TypeOK, SCPcs
      <4>3. QED
        BY <3>1, <4>1, <4>2, Zenon DEF SCType
    <3>3. CASE ~HaveTestsFinished(sc.cond)
      BY <1>9, <3>3 DEF ResetSnapshotStatusConditions, TypeOK, SCType, SCPcs
    <3>4. QED
      BY <3>2, <3>3
  <2>3. QED
    BY <1>9, <2>1, <2>2 DEF ResetSnapshotStatusConditions, TypeOK, SnapTypeOK
<1>10. CASE EnsureStart
  BY <1>10, InitStatusesType, CascadeFailFastType, ZenonT(30)
     DEF EnsureStart, TypeOK, SCType, SCPcs, NoPatch, NextInLoop, FindScenariosReadyToRunWithoutPLR
<1>11. CASE EnsureSkip
  BY <1>11 DEF EnsureSkip, SCDone, TypeOK, NoPatch
<1>12. ASSUME NEW s \in Scenarios, AdoptExisting(s) PROVE TypeOK'
  <2>1. PICK p \in Plrs : StartedScenario(s, AdoptedStatus(plr[p].state), p,
                           plr[p].state \notin PlrFinished /\ IsSnapshotNotStarted(sc.cond))
    BY <1>12 DEF AdoptExisting, GetAllPipelineRunsForScenario
  <2>2. AdoptedStatus(plr[p].state) \in Statuses
    BY DEF AdoptedStatus, Statuses, FinalStatuses, PassedStatuses
  <2>3. UpdateTestStatus(sc.st, s, AdoptedStatus(plr[p].state), p, "snapshot") \in AllStatuses
    BY <2>2, UpdateTestStatusType, ZenonT(30) DEF TypeOK, SCType, Writers
  <2>4. sc' \in SCType
    BY <2>1, <2>3, ZenonT(30) DEF StartedScenario, TypeOK, SCType, SCPcs, NextInLoop
  <2>5. QED
    BY <1>12, <2>4 DEF AdoptExisting, TypeOK, NoPatch
<1>13. ASSUME NEW s \in Scenarios, CreateNew(s) PROVE TypeOK'
  BY <1>13, CreatePlrType, UpdateTestStatusType, ZenonT(30)
     DEF CreateNew, StartedScenario, TypeOK, SCType, SCPcs, NoPatch, NextInLoop, Statuses, Writers
<1>14. ASSUME NEW s \in Scenarios, CreateError(s) PROVE TypeOK'
  BY <1>14, ZenonT(30) DEF CreateError, SkipScenario, TypeOK, SCType, SCPcs, NoPatch, NextInLoop, Disturbances
<1>15. ASSUME NEW s \in Scenarios, CreateLost(s) PROVE TypeOK'
  BY <1>15, CreatePlrType, ZenonT(30)
     DEF CreateLost, SkipScenario, TypeOK, SCType, SCPcs, NoPatch, NextInLoop, Disturbances
<1>16. ASSUME NEW s \in Scenarios, CreateInvalid(s) PROVE TypeOK'
  BY <1>16, StatusType, Zenon
     DEF CreateInvalid, TypeOK, SCType, SCPcs, NoPatch, NextInLoop, Disturbances
<1>17. CASE MarkInLoop
  <2>1. SnapTypeOK' /\ sc' \in SCType /\ used' \in [Disturbances -> Nat] /\ setting' \in Settings
    BY <1>17, MarkStartedType DEF MarkInLoop, SCPcs, NextInLoop
  <2>2. QED
    BY <1>17, <2>1 DEF MarkInLoop, TypeOK, SnapTypeOK
<1>18. CASE WriteStatuses
  <2>1. SnapTypeOK'
    BY <1>18, PatchType, Zenon DEF WriteStatuses, TypeOK, SCType
  <2>2. sc' \in SCType
    BY <1>18, Zenon DEF WriteStatuses, TypeOK, SCType, SCPcs
  <2>3. QED
    BY <1>18, <2>1, <2>2 DEF WriteStatuses, TypeOK, SnapTypeOK
<1>19. CASE WriteStatusesError
  BY <1>19, Zenon DEF WriteStatusesError, TypeOK, SCType, SCPcs, NoPatch, Disturbances
<1>20. CASE DeferredEmptyPatch
  BY <1>20, Zenon DEF DeferredEmptyPatch, TypeOK, SCType, SCPcs, NoPatch
<1>21. CASE PassIfNoRequired
  <2>1. SnapTypeOK'
    <3> DEFINE again == IF sc.err THEN {"snapshot"} ELSE {}
    <3>1. WithConditions(MarkPassed(sc.cond, {})) \in Snapshots
      BY ZenonT(30) DEF TypeOK, SCType
    <3>2. QED
      BY <1>21, <3>1, PatchType, ZenonT(30) DEF PassIfNoRequired
  <2>2. QED
    BY <1>21, <2>1 DEF PassIfNoRequired, TypeOK, SnapTypeOK
<1>22. CASE PassIfNoRequiredListError
  <2>1. SnapTypeOK'
    BY <1>22, PatchType, Zenon DEF PassIfNoRequiredListError, TypeOK, SCType
  <2>2. QED
    BY <1>22, <2>1 DEF PassIfNoRequiredListError, TypeOK, SnapTypeOK, Disturbances
<1>23. CASE PassIfNoRequiredPatchError
  BY <1>23 DEF PassIfNoRequiredPatchError, SCRequeue, TypeOK, Disturbances, NoPatch
<1>24. QED
  BY <1>1, <1>2, <1>3, <1>4, <1>5, <1>6, <1>7, <1>8, <1>9, <1>10, <1>11, <1>12, <1>13, <1>14,
     <1>15, <1>16, <1>17, <1>18, <1>19, <1>20, <1>21, <1>22, <1>23 DEF SnapshotController

-----------------------------------------------------------------------------
(* The integrationpipeline controller.                                     *)

(* The statuses EnsureStatusReportedInSnapshot computes have the right     *)
(* type.                                                                   *)
LEMMA ICReportType ==
  ASSUME TypeOK, ic.pc # "idle", NEW status \in Statuses, NEW next, ICReport(status, next)
  PROVE  ic' \in ICType
<1> DEFINE st == UpdateTestStatus(cache.ann, ic.seen.scenario, status, ic.plr, "integrationpipeline")
<1>1. st \in AllStatuses
  BY WithType, UpdateTestStatusType DEF TypeOK, ICType, Writers
<1>2. NoPipelineRun \in PipelineRuns
  BY DEF NoPipelineRun, PipelineRuns, NoScenario, PlrStates
<1>3. QED
  BY <1>1, <1>2, IdleType, Zenon DEF ICReport, TypeOK, ICType, ICPcs

(* No step of the integrationpipeline controller leaves the types.         *)
LEMMA ICTypeOK == TypeOK /\ IntegrationPipelineController => TypeOK'
<1> SUFFICES ASSUME TypeOK, IntegrationPipelineController PROVE TypeOK'
  OBVIOUS
<1> USE UsedType, IdleType DEF ICFrame
<1>1. ASSUME NEW p \in Plrs, ICStart(p) PROVE TypeOK'
  BY <1>1, Zenon DEF ICStart, TypeOK, ICType, ICPcs, ICIdle, NoPatch
<1>2. CASE ICLoad
  <2>1. PipelineRunStatus(ic.seen) \in Statuses
    BY DEF PipelineRunStatus, Statuses, FinalStatuses, PassedStatuses
  <2>2. ic' \in ICType
    BY <1>2, <2>1, ICReportType DEF ICLoad
  <2>3. QED
    BY <1>2, <2>2 DEF ICLoad, TypeOK, NoPatch
<1>3. CASE ICLoadExpired
  <2>1. ic' \in ICType
    <3>1. "TestInvalid" \in Statuses
      BY DEF Statuses, FinalStatuses
    <3>2. CASE IsFinal(cache.ann[ic.seen.scenario].status)
      BY <1>3, <3>2 DEF ICLoadExpired, TypeOK, ICType, ICPcs
    <3>3. CASE ~IsFinal(cache.ann[ic.seen.scenario].status)
      BY <1>3, <3>1, <3>3, ICReportType DEF ICLoadExpired
    <3>4. QED
      BY <3>2, <3>3
  <2>2. QED
    BY <1>3, <2>1 DEF ICLoadExpired, TypeOK, NoPatch, Disturbances
<1>4. CASE ICError
  <2>1. ic.plr \in Plrs
    BY <1>4 DEF ICError, TypeOK, ICType
  <2>2. QED
    BY <1>4, <2>1 DEF ICError, ICRequeue, TypeOK, NoPatch, Disturbances
<1>5. CASE ICWrite
  <2>1. SnapTypeOK'
    BY <1>5, WithType, PatchType, Zenon DEF ICWrite, TypeOK, ICType
  <2>2. ic' \in ICType
    BY <1>5, NoStatusesType, Zenon DEF ICWrite, TypeOK, ICType, ICPcs
  <2>3. QED
    BY <1>5, <2>1, <2>2 DEF ICWrite, TypeOK, SnapTypeOK
<1>6. CASE ICRelease
  <2>1. ic.plr \in Plrs
    BY <1>6 DEF ICRelease, TypeOK, ICType
  <2>2. plr' \in [Plrs -> PipelineRuns]
    BY <1>6, <2>1, RemoveFinalizerType DEF ICRelease
  <2>3. QED
    BY <1>6, <2>2 DEF ICRelease, TypeOK, NoPatch
<1>7. QED
  BY <1>1, <1>2, <1>3, <1>4, <1>5, <1>6 DEF IntegrationPipelineController

-----------------------------------------------------------------------------
(* The statusreport controller.                                            *)

(* The finalizers to remove belong to PipelineRuns that have a name.       *)
LEMMA ToReleaseType ==
  ASSUME NEW st \in AllStatuses
  PROVE  ToRelease(st) \in SUBSET Plrs
BY DEF ToRelease, AllStatuses, Details, NoPlr

(* The statusreport controller after its verdict.                          *)
LEMMA SRGotoType ==
  ASSUME NEW pc \in SRPcs, NEW ps \in SUBSET Plrs
  PROVE  SRGoto(pc, ps) \in SRType
BY IdleType, Zenon DEF SRGoto, SRType, SRIdle

(* The statusreport controller when it has computed the verdict.           *)
LEMMA SRDecidedType ==
  ASSUME NEW cond \in Conditions, NEW required \in SUBSET Scenarios,
         NEW passed \in BOOLEAN, NEW ps \in SUBSET Plrs
  PROVE  SRDecided(cond, required, passed, ps) \in SRType
BY SRGotoType DEF SRDecided, SRType, SRPcs

(* The statusreport controller after a report.                             *)
LEMMA SRReleaseType ==
  ASSUME NEW ps \in SUBSET Plrs, SRRelease(ps)
  PROVE  sr' \in SRType
BY SRGotoType, IdleType DEF SRRelease, SRPcs

(* No step of the statusreport controller leaves the types.                *)
LEMMA SRTypeOK == TypeOK /\ StatusReportController => TypeOK'
<1> SUFFICES ASSUME TypeOK, StatusReportController PROVE TypeOK'
  OBVIOUS
<1> USE UsedType, IdleType DEF SRFrame
<1>a. /\ snap.ann \in AllStatuses /\ cache.ann \in AllStatuses /\ cache.cond \in Conditions
      /\ ToRelease(snap.ann) \in SUBSET Plrs /\ ToRelease(cache.ann) \in SUBSET Plrs
  BY WithType, ToReleaseType
<1>b. /\ sr.cond \in Conditions /\ sr.required \in SUBSET Scenarios /\ sr.passed \in BOOLEAN
      /\ sr.release \in SUBSET Plrs
  BY DEF TypeOK, SRType
<1>1. CASE SRStart
  <2> DEFINE required == its \ Optional
             passed == AllPassed(cache.ann, required)
             ps == ToRelease(cache.ann)
  <2>1. required \in SUBSET Scenarios /\ passed \in BOOLEAN
    BY DEF TypeOK, AllPassed
  <2>2. sr' \in {SRGoto("report", ps), SRDecided(cache.cond, required, passed, ps),
                 [pc |-> "finish", cond |-> cache.cond, required |-> required,
                  passed |-> passed, release |-> ps]}
    BY <1>1 DEF SRStart
  <2>3. SRGoto("report", ps) \in SRType /\ SRDecided(cache.cond, required, passed, ps) \in SRType
    BY <1>a, <2>1, SRGotoType, SRDecidedType DEF SRPcs
  <2>4. [pc |-> "finish", cond |-> cache.cond, required |-> required,
         passed |-> passed, release |-> ps] \in SRType
    BY <1>a, <2>1 DEF SRType, SRPcs
  <2>5. sr' \in SRType
    BY <2>2, <2>3, <2>4, ZenonT(30)
  <2>6. QED
    BY <1>1, <2>5 DEF SRStart, TypeOK
<1>2. CASE SRFinish
  <2>1. MarkFinished(sr.cond) \in Conditions
    BY <1>b, ConditionsType
  <2>2. SnapTypeOK'
    BY <1>2, <2>1, WithType, PatchType, ZenonT(30) DEF SRFinish
  <2>3. sr' \in SRType
    BY <1>2, <1>a, <1>b, <2>1, SRDecidedType DEF SRFinish
  <2>4. QED
    BY <1>2, <2>2, <2>3 DEF SRFinish, TypeOK, SnapTypeOK
<1>3. CASE SRVerdict
  <2>1. SnapTypeOK'
    BY <1>3, <1>b, ConditionsType, WithType, PatchType, Zenon DEF SRVerdict
  <2>2. sr' \in SRType
    BY <1>3, <1>a, SRGotoType DEF SRVerdict, SRPcs
  <2>3. QED
    BY <1>3, <2>1, <2>2 DEF SRVerdict, TypeOK, SnapTypeOK
<1>4. CASE SRReport
  <2>1. sr' \in SRType
    BY <1>4, <1>a, <1>b, SRReleaseType DEF SRReport
  <2>2. QED
    BY <1>4, <2>1 DEF SRReport, TypeOK, NoPatch
<1>5. CASE SRReportGivesUp
  BY <1>5 DEF SRReportGivesUp, TypeOK, NoPatch, Disturbances
<1>6. CASE SRError
  BY <1>6 DEF SRError, TypeOK, NoPatch, Disturbances
<1>7. ASSUME NEW p \in Plrs, SRRemoveFinalizer(p) PROVE TypeOK'
  <2>1. sr' \in SRType
    BY <1>7 DEF SRRemoveFinalizer, TypeOK, SRType
  <2>2. plr' \in [Plrs -> PipelineRuns]
    BY <1>7, RemoveFinalizerType DEF SRRemoveFinalizer, TypeOK
  <2>3. QED
    BY <1>7, <2>1, <2>2 DEF SRRemoveFinalizer, TypeOK, NoPatch
<1>8. QED
  BY <1>1, <1>2, <1>3, <1>4, <1>5, <1>6, <1>7 DEF StatusReportController

-----------------------------------------------------------------------------
(* Tekton, users, the informers and the service process.                   *)

(* No step of Tekton, a user, the informers or a restart leaves the types. *)
LEMMA EnvTypeOK == TypeOK /\ (Tekton \/ Users \/ Sync \/ Restart) => TypeOK'
<1> SUFFICES ASSUME TypeOK, Tekton \/ Users \/ Sync \/ Restart PROVE TypeOK'
  OBVIOUS
<1> USE UsedType, IdleType, SettingAssumption DEF EnvFrame
<1>1. ASSUME NEW p \in Plrs, PlrAppear(p) PROVE TypeOK'
  BY <1>1 DEF PlrAppear, TypeOK, NoPatch, PipelineRuns, PlrStates
<1>2. ASSUME NEW p \in Plrs, PlrStart(p) PROVE TypeOK'
  BY <1>2 DEF PlrStart, PlrChange, TypeOK, NoPatch, PipelineRuns, PlrStates
<1>3. ASSUME NEW p \in Plrs, PlrFinish(p) PROVE TypeOK'
  BY <1>3 DEF PlrFinish, Outcomes, PlrChange, TypeOK, NoPatch, PipelineRuns, PlrStates, PlrFinished,
              PlrSucceeded
<1>4. ASSUME NEW p \in Plrs, PlrDelete(p) PROVE TypeOK'
  <2>1. plr' = [plr EXCEPT ![p] = [plr[p] EXCEPT !.deleting = TRUE]]
    <3>1. CASE plr[p].finalizer
      BY <1>4, <3>1 DEF PlrDelete, PlrChange
    <3>2. CASE ~plr[p].finalizer
      BY <1>4, <3>2 DEF PlrDelete
    <3>3. QED
      BY <3>1, <3>2
  <2>2. plr' \in [Plrs -> PipelineRuns]
    <3>1. plr \in [Plrs -> PipelineRuns]
      BY DEF TypeOK
    <3>2. [plr[p] EXCEPT !.deleting = TRUE] \in PipelineRuns
      BY <3>1, ZenonT(30) DEF PipelineRuns
    <3>3. QED
      BY <2>1, <3>1, <3>2
  <2>3. plrQueue' \subseteq Plrs
    BY <1>4 DEF PlrDelete, PlrChange, TypeOK
  <2>4. QED
    BY <1>4, <2>2, <2>3 DEF PlrDelete, TypeOK, NoPatch, Disturbances
<1>5. ASSUME NEW label \in {"all"} \cup Scenarios, UserRerun(label) PROVE TypeOK'
  <2>1. SnapTypeOK'
    BY <1>5, WithType, PatchType, Zenon DEF UserRerun, Labels
  <2>2. QED
    BY <1>5, <2>1 DEF UserRerun, TypeOK, SnapTypeOK, Disturbances
<1>6. ASSUME NEW s \in Scenarios, UserEdit(s) PROVE TypeOK'
  BY <1>6 DEF UserEdit, TypeOK, NoPatch, Disturbances
<1>7. CASE Sync
  BY <1>7 DEF Sync, TypeOK
<1>8. CASE Restart
  <2>1. plr' \in [Plrs -> PipelineRuns]
    BY <1>8, SMTT(30) DEF Restart, TypeOK, PipelineRuns, PlrStates
  <2>2. QED
    BY <1>8, <2>1 DEF Restart, TypeOK, RequeuedOnCreate, PlrsRequeuedOnCreate, Disturbances
<1>9. QED
  BY <1>1, <1>2, <1>3, <1>4, <1>5, <1>6, <1>7, <1>8 DEF Tekton, Users

(* Every variable keeps its type in every behaviour of the specification,  *)
(* whatever the controllers, Tekton and the users do.                      *)
THEOREM TypeCorrect == Spec => []TypeOK
<1>1. TypeOK /\ [Next]_vars => TypeOK'
  <2>1. TypeOK /\ UNCHANGED vars => TypeOK'
    BY DEF vars, TypeOK
  <2>2. QED
    BY <2>1, SCTypeOK, ICTypeOK, SRTypeOK, EnvTypeOK DEF Next
<1>2. QED
  BY <1>1, InitTypeOK, PTL DEF Spec
-----------------------------------------------------------------------------
(***************************************************************************)
(* A Snapshot is marked as passed only on successful PipelineRuns, and a   *)
(* PipelineRun keeps its finalizer until it has ended.                     *)
(*                                                                         *)
(* The verdict is computed from a copy of the annotation, which was        *)
(* written from another controller's copy, which may have been read long   *)
(* before.  The invariant follows the evidence through all these copies:   *)
(* each "passed" in any of them is backed by a PipelineRun that Tekton     *)
(* completed successfully.  It survives every lost update, because an old  *)
(* copy is backed as well: PipelineRuns never take a success back.  The    *)
(* finalizers follow in the same way: a final status in any copy names a   *)
(* PipelineRun that has ended, or none.                                    *)
(***************************************************************************)

(* The scenarios for which Tekton has completed a PipelineRun successfully. *)
Succeeded == {plr[p].scenario : p \in {q \in Plrs : plr[q].state \in PlrSucceeded}}

(* The statuses report as passed only scenarios in S.                      *)
Backed(S, st) == \A s \in Scenarios : IsPassed(st[s].status) => s \in S

(* The conditions say "passed" only of scenarios in S.                     *)
Earned(S, cond) == cond.test = "Passed" => cond.required \subseteq S

BackedSnapshot(S, object) == Backed(S, object.ann) /\ Earned(S, object.cond)

BackedSC(S, r) == Backed(S, r.st) /\ Earned(S, r.cond)

BackedIC(S, r) ==
  /\ Backed(S, r.st)
  /\ r.seen.state \in PlrSucceeded => r.seen.scenario \in S

BackedSR(S, r) ==
  /\ Earned(S, r.cond)
  /\ r.passed => r.required \subseteq S

(* Every copy of the Snapshot, and what was computed from one.             *)
AllBacked(S) ==
  /\ BackedSnapshot(S, snap) /\ BackedSnapshot(S, cache)
  /\ BackedSC(S, sc) /\ BackedIC(S, ic) /\ BackedSR(S, sr)

(* CreatePlr takes a name that no PipelineRun has.                         *)
FreshNames == \A p \in Plrs : p > created => plr[p].state = "none"

(* The inductive invariant.                                                *)
VerdictInv == AllBacked(Succeeded) /\ FreshNames

-----------------------------------------------------------------------------
(* The operations on statuses and conditions add no unbacked success.      *)

(* UpdateTestStatusIfChanged: only the new status needs backing.           *)
LEMMA BackedUpdate ==
  ASSUME NEW S, NEW st \in AllStatuses, Backed(S, st), NEW s, NEW status, NEW p, NEW by,
         IsPassed(status) => s \in S
  PROVE  Backed(S, UpdateTestStatus(st, s, status, p, by))
BY DEF Backed, UpdateTestStatus, AllStatuses

(* InitStatuses and CascadeFailFastDependents report nothing as passed.    *)
LEMMA BackedEnsure ==
  ASSUME NEW S, NEW st \in AllStatuses, Backed(S, st), NEW applicable
  PROVE  Backed(S, CascadeFailFast(InitStatuses(st, applicable)))
BY InitStatusesType, InitPassesNothing, CascadePassesNothing DEF Backed

(* A Snapshot without statuses or conditions claims nothing.               *)
LEMMA BackedNothing ==
  ASSUME NEW S
  PROVE  /\ Backed(S, NoStatuses) /\ Earned(S, NoConditions)
         /\ BackedSC(S, SCIdle) /\ BackedIC(S, ICIdle) /\ BackedSR(S, SRIdle)
<1>1. Backed(S, NoStatuses) /\ Earned(S, NoConditions)
  BY DEF Backed, Earned, NoStatuses, NoConditions, Absent, IsPassed, PassedStatuses
<1>2. QED
  BY <1>1 DEF BackedSC, BackedIC, BackedSR, SCIdle, ICIdle, SRIdle, NoPipelineRun, PlrSucceeded

(* Of the operations on conditions only MarkSnapshotAsPassed makes a claim. *)
LEMMA EarnedMarks ==
  ASSUME NEW S, NEW cond \in Conditions, Earned(S, cond)
  PROVE  /\ Earned(S, MarkInProgress(cond)) /\ Earned(S, MarkFinished(cond))
         /\ Earned(S, MarkError(cond)) /\ Earned(S, ResetConditions(cond))
         /\ \A required : Earned(S, MarkFailed(cond, required))
         /\ \A required \in SUBSET S : Earned(S, MarkPassed(cond, required))
BY DEF Conditions, Earned, MarkInProgress, MarkFinished, MarkError, ResetConditions,
       MarkFailed, MarkPassed

(* A patch with backed contents keeps the server's object and the cache    *)
(* backed.                                                                 *)
LEMMA PatchBacked ==
  ASSUME NEW CONSTANT S, TypeOK, AllBacked(S)
  PROVE  /\ \A new, again : Patch(new, again) /\ BackedSnapshot(S, new) =>
                              BackedSnapshot(S, snap') /\ BackedSnapshot(S, cache')
         /\ \A again : NoPatch(again) => BackedSnapshot(S, snap') /\ BackedSnapshot(S, cache')
         /\ \A st : Backed(S, st) => BackedSnapshot(S, WithAnnotation(st))
         /\ \A cond : Earned(S, cond) => BackedSnapshot(S, WithConditions(cond))
         /\ BackedSnapshot(S, WithoutLabel)
         /\ \A label : BackedSnapshot(S, [snap EXCEPT !.label = label])
<1>1. /\ \A new, again : Patch(new, again) /\ BackedSnapshot(S, new) =>
                           BackedSnapshot(S, snap') /\ BackedSnapshot(S, cache')
      /\ \A again : NoPatch(again) => BackedSnapshot(S, snap') /\ BackedSnapshot(S, cache')
  BY DEF Patch, NoPatch, AllBacked
<1>2. QED
  BY <1>1 DEF TypeOK, Snapshots, AllBacked, BackedSnapshot, WithAnnotation, WithConditions,
              WithoutLabel

(* The end of createIntegrationPipelineRun claims nothing.                 *)
LEMMA MarkStartedBacked ==
  ASSUME NEW CONSTANT S, TypeOK, AllBacked(S), NEW next, MarkStarted(next)
  PROVE  BackedSnapshot(S, snap') /\ BackedSnapshot(S, cache') /\ BackedSC(S, sc')
<1>1. Earned(S, MarkInProgress(sc.cond))
  BY EarnedMarks DEF TypeOK, SCType, AllBacked, BackedSC
<1>2. BackedSnapshot(S, snap') /\ BackedSnapshot(S, cache')
  BY <1>1, PatchBacked DEF MarkStarted
<1>3. BackedSC(S, sc')
  BY <1>1, ZenonT(30) DEF MarkStarted, TypeOK, SCType, AllBacked, BackedSC
<1>4. QED
  BY <1>2, <1>3

-----------------------------------------------------------------------------
(* The controllers, for a fixed set S of successful scenarios.             *)

(* The snapshot controller claims a success only when it adopts a          *)
(* PipelineRun that succeeded.                                             *)
LEMMA SCBacked ==
  ASSUME NEW CONSTANT S, TypeOK, AllBacked(S), Succeeded \subseteq S, SnapshotController
  PROVE  AllBacked(S)'
<1> SUFFICES BackedSnapshot(S, snap') /\ BackedSnapshot(S, cache') /\ BackedSC(S, sc')
  <2>1. UNCHANGED <<ic, sr>>
    BY Zenon DEF SnapshotController, SCStart, SCError, RerunCreate, RerunCreateLost, RerunCreateInvalid,
           RerunMark, RerunWrite, DropLabel, ResetSnapshotStatusConditions, EnsureStart, EnsureSkip,
           AdoptExisting, CreateNew, CreateError, CreateLost, CreateInvalid, MarkInLoop,
           WriteStatuses, WriteStatusesError, DeferredEmptyPatch, PassIfNoRequired,
           PassIfNoRequiredListError, PassIfNoRequiredPatchError, SCRequeue, SCDone, SCFrame
  <2>2. QED
    BY <2>1, ZenonT(30) DEF AllBacked
<1>a. /\ Backed(S, sc.st) /\ Earned(S, sc.cond) /\ Backed(S, snap.ann) /\ Earned(S, snap.cond)
      /\ Backed(S, cache.ann) /\ Earned(S, cache.cond) /\ BackedSC(S, SCIdle)
      /\ Backed(S, NoStatuses)
  BY BackedNothing DEF AllBacked, BackedSC, BackedSnapshot
<1>b. sc \in SCType /\ sc.st \in AllStatuses /\ sc.cond \in Conditions
  BY DEF TypeOK, SCType
<1>c. \A again : NoPatch(again) => BackedSnapshot(S, snap') /\ BackedSnapshot(S, cache')
  BY PatchBacked
<1>d. ASSUME NEW s \in Scenarios
      PROVE  /\ ResetStatus(sc.st, s) \in AllStatuses /\ Backed(S, ResetStatus(sc.st, s))
             /\ \A p : Backed(S, UpdateTestStatus(ResetStatus(sc.st, s), s, "InProgress", p, "snapshot"))
             /\ Backed(S, UpdateTestStatusIfChanged(ResetStatus(sc.st, s), s, "TestInvalid", "snapshot"))
             /\ \A p : Backed(S, UpdateTestStatus(sc.st, s, "InProgress", p, "snapshot"))
             /\ Backed(S, UpdateTestStatusIfChanged(sc.st, s, "TestInvalid", "snapshot"))
  <2>1. ~IsPassed("Pending") /\ ~IsPassed("InProgress") /\ ~IsPassed("TestInvalid")
    BY DEF IsPassed, PassedStatuses
  <2>2. ResetStatus(sc.st, s) \in AllStatuses /\ Backed(S, ResetStatus(sc.st, s))
    BY <1>a, <1>b, <2>1, StatusType, BackedUpdate DEF ResetStatus
  <2>3. QED
    BY <1>a, <1>b, <2>1, <2>2, BackedUpdate DEF UpdateTestStatusIfChanged
<1>1. CASE SCStart
  BY <1>1, <1>a DEF SCStart, AllBacked, SCIdle, BackedSC
<1>2. CASE SCError \/ EnsureSkip \/ PassIfNoRequiredPatchError
  BY <1>2, <1>a, <1>c DEF SCError, EnsureSkip, PassIfNoRequiredPatchError, SCRequeue, SCDone
<1>3. ASSUME NEW s \in Scenarios, RerunCreate(s)
      PROVE  BackedSnapshot(S, snap') /\ BackedSnapshot(S, cache') /\ BackedSC(S, sc')
  <2>1. BackedSC(S, sc')
    BY <1>3, <1>a, <1>b, <1>d DEF RerunCreate, SCType, BackedSC
  <2>2. QED
    BY <1>3, <1>c, <2>1 DEF RerunCreate
<1>4. ASSUME NEW s \in Scenarios, RerunCreateLost(s)
      PROVE  BackedSnapshot(S, snap') /\ BackedSnapshot(S, cache') /\ BackedSC(S, sc')
  BY <1>4, <1>a, <1>c DEF RerunCreateLost
<1>5. ASSUME NEW s \in Scenarios, RerunCreateInvalid(s)
      PROVE  BackedSnapshot(S, snap') /\ BackedSnapshot(S, cache') /\ BackedSC(S, sc')
  <2>1. BackedSC(S, sc')
    BY <1>5, <1>a, <1>b, <1>d DEF RerunCreateInvalid, SCType, BackedSC
  <2>2. BackedSnapshot(S, snap') /\ BackedSnapshot(S, cache')
    BY <1>5, <1>d, PatchBacked DEF RerunCreateInvalid
  <2>3. QED
    BY <2>1, <2>2
<1>6. CASE RerunMark \/ MarkInLoop
  BY <1>6, MarkStartedBacked DEF RerunMark, MarkInLoop
<1>7. CASE RerunWrite
  <2>1. BackedSC(S, sc')
    BY <1>7, <1>a, <1>b DEF RerunWrite, SCType, BackedSC
  <2>2. BackedSnapshot(S, snap') /\ BackedSnapshot(S, cache')
    BY <1>7, <1>a, PatchBacked DEF RerunWrite
  <2>3. QED
    BY <2>1, <2>2
<1>8. CASE DropLabel
  <2>1. BackedSC(S, sc')
    BY <1>8, <1>a, <1>b DEF DropLabel, SCType, BackedSC
  <2>2. BackedSnapshot(S, snap') /\ BackedSnapshot(S, cache')
    BY <1>8, PatchBacked DEF DropLabel
  <2>3. QED
    BY <2>1, <2>2
<1>9. CASE ResetSnapshotStatusConditions
  <2>1. Earned(S, ResetConditions(sc.cond))
    BY <1>a, <1>b, EarnedMarks
  <2>2. BackedSC(S, sc')
    <3>1. CASE HaveTestsFinished(sc.cond)
      <4>1. sc' = [sc EXCEPT !.pc = "ensure", !.cond = ResetConditions(sc.cond), !.st = snap.ann]
        BY <1>9, <3>1 DEF ResetSnapshotStatusConditions
      <4>2. sc'.cond = ResetConditions(sc.cond) /\ sc'.st = snap.ann
        BY <1>b, <4>1 DEF SCType
      <4>3. QED
        BY <1>a, <2>1, <4>2 DEF BackedSC
    <3>2. CASE ~HaveTestsFinished(sc.cond)
      BY <1>9, <1>a, <1>b, <3>2 DEF ResetSnapshotStatusConditions, SCType, BackedSC
    <3>3. QED
      BY <3>1, <3>2
  <2>3. BackedSnapshot(S, snap') /\ BackedSnapshot(S, cache')
    BY <1>9, <1>c, <2>1, PatchBacked DEF ResetSnapshotStatusConditions
  <2>4. QED
    BY <2>2, <2>3
<1>10. CASE EnsureStart
  <2>1. Backed(S, CascadeFailFast(InitStatuses(sc.st, its)))
    BY <1>a, <1>b, BackedEnsure
  <2>2. BackedSC(S, sc')
    BY <1>10, <1>a, <1>b, <2>1 DEF EnsureStart, SCType, BackedSC
  <2>3. QED
    BY <1>10, <1>c, <2>2 DEF EnsureStart
<1>11. ASSUME NEW s \in Scenarios, AdoptExisting(s)
       PROVE  BackedSnapshot(S, snap') /\ BackedSnapshot(S, cache') /\ BackedSC(S, sc')
  <2>1. PICK p \in Plrs :
          /\ plr[p].scenario = s
          /\ StartedScenario(s, AdoptedStatus(plr[p].state), p,
                             plr[p].state \notin PlrFinished /\ IsSnapshotNotStarted(sc.cond))
    BY <1>11 DEF AdoptExisting, GetAllPipelineRunsForScenario
  <2>2. IsPassed(AdoptedStatus(plr[p].state)) => s \in S
    BY <2>1 DEF IsPassed, PassedStatuses, AdoptedStatus, Succeeded
  <2>3. Backed(S, UpdateTestStatus(sc.st, s, AdoptedStatus(plr[p].state), p, "snapshot"))
    BY <1>a, <1>b, <2>2, BackedUpdate
  <2>4. BackedSC(S, sc')
    BY <1>a, <1>b, <2>1, <2>3 DEF StartedScenario, SCType, BackedSC
  <2>5. QED
    BY <1>11, <1>c, <2>4 DEF AdoptExisting
<1>12. ASSUME NEW s \in Scenarios, CreateNew(s)
       PROVE  BackedSnapshot(S, snap') /\ BackedSnapshot(S, cache') /\ BackedSC(S, sc')
  <2>1. BackedSC(S, sc')
    BY <1>12, <1>a, <1>b, <1>d DEF CreateNew, StartedScenario, SCType, BackedSC
  <2>2. QED
    BY <1>12, <1>c, <2>1 DEF CreateNew
<1>13. ASSUME NEW s \in Scenarios, CreateError(s) \/ CreateLost(s) \/ CreateInvalid(s)
       PROVE  BackedSnapshot(S, snap') /\ BackedSnapshot(S, cache') /\ BackedSC(S, sc')
  <2>1. BackedSC(S, sc')
    BY <1>13, <1>a, <1>b, <1>d, Zenon
       DEF CreateError, CreateLost, CreateInvalid, SkipScenario, SCType, BackedSC
  <2>2. QED
    BY <1>13, <1>c, <2>1 DEF CreateError, CreateLost, CreateInvalid
<1>14. CASE WriteStatuses
  <2>1. BackedSC(S, sc')
    BY <1>14, <1>a, <1>b DEF WriteStatuses, SCType, BackedSC
  <2>2. BackedSnapshot(S, snap') /\ BackedSnapshot(S, cache')
    BY <1>14, <1>a, PatchBacked DEF WriteStatuses
  <2>3. QED
    BY <2>1, <2>2
<1>15. CASE WriteStatusesError \/ DeferredEmptyPatch
  <2>1. BackedSC(S, sc')
    BY <1>15, <1>a, <1>b, Zenon DEF WriteStatusesError, DeferredEmptyPatch, SCType, BackedSC
  <2>2. QED
    BY <1>15, <1>c, <2>1 DEF WriteStatusesError, DeferredEmptyPatch
<1>16. CASE PassIfNoRequired
  <2>1. Earned(S, MarkPassed(sc.cond, {}))
    BY <1>a, <1>b, EarnedMarks
  <2>2. BackedSnapshot(S, snap') /\ BackedSnapshot(S, cache')
    BY <1>16, <1>c, <2>1, PatchBacked DEF PassIfNoRequired
  <2>3. QED
    BY <1>16, <1>a, <2>2 DEF PassIfNoRequired
<1>17. CASE PassIfNoRequiredListError
  <2>1. Earned(S, MarkError(sc.cond))
    BY <1>a, <1>b, EarnedMarks
  <2>2. QED
    BY <1>17, <1>a, <2>1, PatchBacked DEF PassIfNoRequiredListError
<1>18. QED
  BY <1>1, <1>2, <1>3, <1>4, <1>5, <1>6, <1>7, <1>8, <1>9, <1>10, <1>11, <1>12, <1>13, <1>14,
     <1>15, <1>16, <1>17 DEF SnapshotController

(* The integrationpipeline controller claims a success only for a          *)
(* PipelineRun that it saw succeed.                                        *)
LEMMA ICReportBacked ==
  ASSUME NEW CONSTANT S, TypeOK, AllBacked(S), NEW status, NEW next, ICReport(status, next),
         IsPassed(status) => ic.seen.scenario \in S
  PROVE  BackedIC(S, ic')
<1> DEFINE st == UpdateTestStatus(cache.ann, ic.seen.scenario, status, ic.plr, "integrationpipeline")
<1>1. Backed(S, st)
  BY WithType, BackedUpdate DEF AllBacked, BackedSnapshot
<1>2. NoPipelineRun.state \notin PlrSucceeded
  BY DEF NoPipelineRun, PlrSucceeded
<1>3. ic \in ICType /\ BackedIC(S, ic) /\ BackedIC(S, ICIdle)
  BY BackedNothing DEF TypeOK, AllBacked
<1>4. QED
  BY <1>1, <1>2, <1>3 DEF ICReport, ICType, BackedIC

(* Nor does a whole reconcile of it claim anything else.                   *)
LEMMA ICBacked ==
  ASSUME NEW CONSTANT S, TypeOK, AllBacked(S), Succeeded \subseteq S, IntegrationPipelineController
  PROVE  AllBacked(S)'
<1> SUFFICES BackedSnapshot(S, snap') /\ BackedSnapshot(S, cache') /\ BackedIC(S, ic')
  <2>1. UNCHANGED <<sc, sr>>
    BY Zenon DEF IntegrationPipelineController, ICStart, ICLoad, ICLoadExpired, ICError, ICWrite,
           ICRelease, ICRequeue, ICFrame
  <2>2. QED
    BY <2>1, ZenonT(30) DEF AllBacked
<1>a. BackedIC(S, ic) /\ BackedIC(S, ICIdle) /\ Backed(S, NoStatuses) /\ ic \in ICType
  BY BackedNothing DEF AllBacked, TypeOK
<1>b. \A again : NoPatch(again) => BackedSnapshot(S, snap') /\ BackedSnapshot(S, cache')
  BY PatchBacked
<1>1. ASSUME NEW p \in Plrs, ICStart(p)
      PROVE  BackedSnapshot(S, snap') /\ BackedSnapshot(S, cache') /\ BackedIC(S, ic')
  <2>1. plr[p].state \in PlrSucceeded => plr[p].scenario \in S
    BY DEF Succeeded
  <2>2. BackedIC(S, [ICIdle EXCEPT !.pc = "load", !.plr = p, !.seen = plr[p]])
    BY <1>a, <2>1 DEF ICIdle, BackedIC
  <2>3. QED
    BY <1>1, <1>a, <1>b, <2>2 DEF ICStart
<1>2. CASE ICLoad
  <2>1. IsPassed(PipelineRunStatus(ic.seen)) => ic.seen.scenario \in S
    BY <1>a DEF IsPassed, PassedStatuses, PipelineRunStatus, PlrSucceeded, BackedIC
  <2>2. QED
    BY <1>2, <1>b, <2>1, ICReportBacked DEF ICLoad
<1>3. CASE ICLoadExpired
  <2>1. ~IsPassed("TestInvalid")
    BY DEF IsPassed, PassedStatuses
  <2>2. BackedIC(S, [ic EXCEPT !.pc = "release"])
    BY <1>a DEF ICType, BackedIC
  <2>3. QED
    BY <1>3, <1>a, <1>b, <2>1, <2>2, ICReportBacked DEF ICLoadExpired
<1>4. CASE ICError
  BY <1>4, <1>a, <1>b DEF ICError, ICRequeue
<1>5. CASE ICWrite
  <2>1. BackedIC(S, [ic EXCEPT !.pc = "release", !.st = NoStatuses])
    BY <1>a DEF ICType, BackedIC
  <2>2. BackedSnapshot(S, snap') /\ BackedSnapshot(S, cache')
    BY <1>5, <1>a, PatchBacked DEF ICWrite, BackedIC
  <2>3. QED
    BY <1>5, <1>a, <2>1, <2>2 DEF ICWrite
<1>6. CASE ICRelease
  BY <1>6, <1>a, <1>b DEF ICRelease
<1>7. QED
  BY <1>1, <1>2, <1>3, <1>4, <1>5, <1>6 DEF IntegrationPipelineController

(* EnsureSnapshotFinishedAllTests decides "passed" only when every         *)
(* required scenario has finished and passed in its copy.                  *)
LEMMA SRDecidedBacked ==
  ASSUME NEW S, NEW cond, Earned(S, cond), NEW required, NEW passed, NEW ps,
         passed => required \subseteq S
  PROVE  BackedSR(S, SRDecided(cond, required, passed, ps))
BY BackedNothing DEF SRDecided, SRGoto, SRIdle, BackedSR

(* A step of the statusreport controller claims only what its copy shows.  *)
LEMMA SRBacked ==
  ASSUME NEW CONSTANT S, TypeOK, AllBacked(S), StatusReportController
  PROVE  AllBacked(S)'
<1> SUFFICES BackedSnapshot(S, snap') /\ BackedSnapshot(S, cache') /\ BackedSR(S, sr')
  <2>1. UNCHANGED <<sc, ic>>
    BY DEF StatusReportController, SRStart, SRFinish, SRVerdict, SRReport, SRReportGivesUp,
           SRError, SRRemoveFinalizer, SRFrame
  <2>2. QED
    BY <2>1 DEF AllBacked
<1>a. BackedSR(S, sr) /\ BackedSR(S, SRIdle) /\ sr \in SRType /\ sr.cond \in Conditions
  BY BackedNothing DEF AllBacked, TypeOK, SRType
<1>b. \A again : NoPatch(again) => BackedSnapshot(S, snap') /\ BackedSnapshot(S, cache')
  BY PatchBacked
<1>c. \A pc, ps : BackedSR(S, SRGoto(pc, ps))
  BY <1>a DEF SRGoto, SRIdle, BackedSR
<1>1. CASE SRStart
  <2> DEFINE required == its \ Optional
             passed == AllPassed(cache.ann, required)
             ps == ToRelease(cache.ann)
  <2>1. Earned(S, cache.cond) /\ Backed(S, cache.ann)
    BY DEF AllBacked, BackedSnapshot
  <2>2. AllFinished(cache.ann, required) /\ passed => required \subseteq S
    BY <2>1 DEF AllFinished, AllPassed, Present, IsFinal, FinalStatuses, PassedStatuses, TypeOK,
                Backed
  <2>3. CASE ~AllFinished(cache.ann, required)
    BY <1>1, <1>c, <2>3 DEF SRStart, AllBacked
  <2>4. CASE AllFinished(cache.ann, required)
    <3>1. BackedSR(S, SRDecided(cache.cond, required, passed, ps))
      BY <2>1, <2>2, <2>4, SRDecidedBacked
    <3>2. BackedSR(S, [pc |-> "finish", cond |-> cache.cond, required |-> required,
                       passed |-> passed, release |-> ps])
      BY <2>1, <2>2, <2>4 DEF BackedSR
    <3>3. QED
      BY <1>1, <2>4, <3>1, <3>2 DEF SRStart, AllBacked
  <2>5. QED
    BY <2>3, <2>4
<1>2. CASE SRFinish
  <2>1. Earned(S, MarkFinished(sr.cond))
    BY <1>a, EarnedMarks DEF BackedSR
  <2>2. BackedSR(S, sr')
    BY <1>2, <1>a, <2>1, SRDecidedBacked DEF SRFinish, BackedSR
  <2>3. QED
    BY <1>2, <2>1, <2>2, PatchBacked DEF SRFinish
<1>3. CASE SRVerdict
  <2>1. /\ sr.passed => Earned(S, MarkPassed(sr.cond, sr.required))
        /\ Earned(S, MarkFailed(sr.cond, sr.required))
    BY <1>a, EarnedMarks DEF BackedSR
  <2>2. QED
    BY <1>3, <1>c, <2>1, PatchBacked DEF SRVerdict
<1>4. CASE SRReport
  BY <1>4, <1>a, <1>b, <1>c DEF SRReport, SRRelease
<1>5. CASE SRReportGivesUp \/ SRError
  BY <1>5, <1>a, <1>b DEF SRReportGivesUp, SRError
<1>6. ASSUME NEW p \in Plrs, SRRemoveFinalizer(p)
      PROVE  BackedSnapshot(S, snap') /\ BackedSnapshot(S, cache') /\ BackedSR(S, sr')
  <2>1. BackedSR(S, [sr EXCEPT !.release = @ \ {p}])
    BY <1>a DEF SRType, BackedSR
  <2>2. QED
    BY <1>6, <1>a, <1>b, <2>1 DEF SRRemoveFinalizer
<1>7. QED
  BY <1>1, <1>2, <1>3, <1>4, <1>5, <1>6 DEF StatusReportController

(* Tekton, the users, the informers and a restart claim nothing.           *)
LEMMA EnvBacked ==
  ASSUME NEW CONSTANT S, TypeOK, AllBacked(S), Tekton \/ Users \/ Sync \/ Restart
  PROVE  AllBacked(S)'
<1>1. CASE Tekton
  BY <1>1 DEF Tekton, PlrAppear, PlrStart, PlrFinish, NoPatch, EnvFrame, AllBacked
<1>2. ASSUME NEW p \in Plrs, PlrDelete(p) PROVE AllBacked(S)'
  BY <1>2 DEF PlrDelete, NoPatch, EnvFrame, AllBacked
<1>3. ASSUME NEW label, UserRerun(label) PROVE AllBacked(S)'
  <2>1. BackedSnapshot(S, snap') /\ BackedSnapshot(S, cache')
    BY <1>3, PatchBacked DEF UserRerun
  <2>2. QED
    BY <1>3, <2>1 DEF UserRerun, EnvFrame, AllBacked
<1>4. ASSUME NEW s \in Scenarios, UserEdit(s) PROVE AllBacked(S)'
  BY <1>4 DEF UserEdit, NoPatch, EnvFrame, AllBacked
<1>5. CASE Sync
  BY <1>5 DEF Sync, EnvFrame, AllBacked
<1>6. CASE Restart
  BY <1>6, BackedNothing DEF Restart, AllBacked
<1>7. QED
  BY <1>1, <1>2, <1>3, <1>4, <1>5, <1>6 DEF Users

-----------------------------------------------------------------------------
(* PipelineRuns never take a success back, and names are taken in order.   *)

SuccessesStay ==
  \A p \in Plrs : plr[p].state \in PlrSucceeded =>
    plr'[p].state = plr[p].state /\ plr'[p].scenario = plr[p].scenario

(* CreatePlr replaces no PipelineRun that exists.                          *)
LEMMA CreatePlrFresh ==
  ASSUME TypeOK, FreshNames, NEW s, CreatePlr(s)
  PROVE  SuccessesStay /\ FreshNames'
<1>1. created \in Nat /\ created + 1 \in Plrs /\ plr \in [Plrs -> PipelineRuns]
  BY MaxPlrsAssumption DEF TypeOK, CreatePlr, Plrs
<1>2. plr[created + 1].state = "none"
  BY <1>1 DEF FreshNames
<1>3. QED
  BY <1>1, <1>2 DEF CreatePlr, SuccessesStay, FreshNames, PlrSucceeded, Plrs

(* Every step keeps the successes, and the unused names fresh.             *)
LEMMA PlrStep == TypeOK /\ FreshNames /\ Next => SuccessesStay /\ FreshNames'
<1> SUFFICES ASSUME TypeOK, FreshNames, Next PROVE SuccessesStay /\ FreshNames'
  OBVIOUS
<1>a. plr \in [Plrs -> PipelineRuns]
  BY DEF TypeOK
<1>1. ASSUME UNCHANGED <<plr, created>> PROVE SuccessesStay /\ FreshNames'
  BY <1>1 DEF SuccessesStay, FreshNames
<1>2. ASSUME NEW p \in Plrs, RemoveFinalizer(p), UNCHANGED created
      PROVE  SuccessesStay /\ FreshNames'
  BY <1>2, <1>a DEF RemoveFinalizer, SuccessesStay, FreshNames, PipelineRuns
<1>3. CASE SnapshotController
  <2>1. UNCHANGED <<plr, created>> \/ \E s \in Scenarios : CreatePlr(s)
    BY <1>3, ZenonT(30)
       DEF SnapshotController, SCStart, SCError, RerunCreate, RerunCreateLost, RerunCreateInvalid,
           RerunMark, RerunWrite, DropLabel, ResetSnapshotStatusConditions, EnsureStart, EnsureSkip,
           AdoptExisting, CreateNew, CreateError, CreateLost, CreateInvalid, MarkInLoop,
           WriteStatuses, WriteStatusesError, DeferredEmptyPatch, PassIfNoRequired,
           PassIfNoRequiredListError, PassIfNoRequiredPatchError, SCRequeue, SCDone, NoPlrChange
  <2>2. QED
    BY <1>1, <2>1, CreatePlrFresh, ZenonT(30)
<1>4. CASE IntegrationPipelineController
  <2>1. UNCHANGED <<plr, created>> \/ (ICRelease /\ UNCHANGED created)
    BY <1>4, Zenon DEF IntegrationPipelineController, ICStart, ICLoad, ICLoadExpired, ICError, ICWrite,
                ICRelease, ICRequeue, ICFrame
  <2>2. ICRelease => ic.plr \in Plrs /\ RemoveFinalizer(ic.plr)
    BY DEF ICRelease, TypeOK, ICType
  <2>3. QED
    BY <1>1, <1>2, <2>1, <2>2
<1>5. CASE StatusReportController
  <2>1. UNCHANGED created /\ (UNCHANGED plr \/ \E p \in Plrs : RemoveFinalizer(p))
    BY <1>5 DEF StatusReportController, SRStart, SRFinish, SRVerdict, SRReport, SRReportGivesUp,
                SRError, SRRemoveFinalizer, SRFrame
  <2>2. QED
    BY <1>1, <1>2, <2>1
<1>6. ASSUME NEW p \in Plrs, PlrAppear(p) \/ PlrStart(p) \/ PlrFinish(p) PROVE SuccessesStay /\ FreshNames'
  <2>1. /\ plr[p].state \notin PlrSucceeded \cup {"none"}
        /\ \E state : plr' = [plr EXCEPT ![p] = [plr[p] EXCEPT !.state = state]]
        /\ UNCHANGED created
    BY <1>6 DEF PlrAppear, PlrStart, PlrFinish, PlrChange, PlrSucceeded, EnvFrame
  <2>2. QED
    BY <1>a, <2>1 DEF SuccessesStay, FreshNames
<1>7. ASSUME NEW p \in Plrs, PlrDelete(p) PROVE SuccessesStay /\ FreshNames'
  <2>1. plr' = [plr EXCEPT ![p] = [plr[p] EXCEPT !.deleting = TRUE]] /\ UNCHANGED created
    <3>1. CASE plr[p].finalizer
      BY <1>7, <3>1 DEF PlrDelete, PlrChange, EnvFrame
    <3>2. CASE ~plr[p].finalizer
      BY <1>7, <3>2 DEF PlrDelete, EnvFrame
    <3>3. QED
      BY <3>1, <3>2
  <2>2. QED
    BY <1>a, <2>1 DEF SuccessesStay, FreshNames, PipelineRuns
<1>8. ASSUME Sync \/ (\E label : UserRerun(label)) \/ (\E s \in Scenarios : UserEdit(s))
      PROVE  SuccessesStay /\ FreshNames'
  BY <1>1, <1>8, Zenon DEF Sync, UserRerun, UserEdit, EnvFrame
<1>9. CASE Restart
  BY <1>9, <1>a DEF Restart, SuccessesStay, FreshNames, PlrSucceeded, PipelineRuns
<1>10. QED
  BY <1>3, <1>4, <1>5, <1>6, <1>7, <1>8, <1>9 DEF Next, Tekton, Users

-----------------------------------------------------------------------------
(* VerdictInv is inductive.                                                *)
LEMMA VerdictInvStep == TypeOK /\ VerdictInv /\ [Next]_vars => VerdictInv'
<1> SUFFICES ASSUME TypeOK, VerdictInv, [Next]_vars PROVE VerdictInv'
  OBVIOUS
<1>1. CASE UNCHANGED vars
  BY <1>1 DEF vars, VerdictInv, AllBacked, FreshNames, Succeeded
<1>2. CASE Next
  <2>1. PICK S : S = Succeeded
    OBVIOUS
  <2>2. AllBacked(S) /\ FreshNames
    BY <2>1 DEF VerdictInv
  <2>3. AllBacked(S)'
    BY <1>2, <2>1, <2>2, SCBacked, ICBacked, SRBacked, EnvBacked DEF Next
  <2>4. SuccessesStay /\ FreshNames'
    BY <1>2, <2>2, PlrStep
  <2>5. S \subseteq Succeeded'
    BY <2>1, <2>4 DEF SuccessesStay, Succeeded
  <2>6. AllBacked(Succeeded)'
    BY <2>3, <2>5 DEF AllBacked, BackedSnapshot, BackedSC, BackedIC, BackedSR, Backed, Earned
  <2>7. QED
    BY <2>4, <2>6 DEF VerdictInv
<1>3. QED
  BY <1>1, <1>2

(* A Snapshot is marked as passed only if Tekton completed a PipelineRun   *)
(* successfully for each scenario that was required when                   *)
(* EnsureSnapshotFinishedAllTests decided: for every number of scenarios,  *)
(* every TestGraph, overlapping controllers, lagging caches, and any       *)
(* number of faults, restarts, reruns, deletions and edits.                *)
THEOREM VerdictIsEarned == Spec => []PassedIsEarned
<1>1. Init => VerdictInv
  BY BackedNothing
     DEF Init, VerdictInv, AllBacked, BackedSnapshot, NewSnapshot, FreshNames, NoPipelineRun
<1>2. TypeOK /\ VerdictInv => PassedIsEarned
  BY DEF TypeOK, Snapshots, Conditions, VerdictInv, AllBacked, BackedSnapshot, Earned, Succeeded,
         PassedIsEarned, PlrsOf
<1>3. QED
  BY <1>1, <1>2, VerdictInvStep, TypeCorrect, PTL DEF Spec

-----------------------------------------------------------------------------
(* Finalizers are taken only from PipelineRuns that have ended, as far as  *)
(* no failFast edge leads to their scenarios.                              *)
(*                                                                         *)
(* The argument is the same: a final status in any copy names a            *)
(* PipelineRun whose finalizer may go, and that is never taken back.       *)
(* CascadeFailFastDependents gives a final status to a scenario whose      *)
(* PipelineRun is still running, but only at the end of a failFast edge;   *)
(* the entries of those scenarios name PipelineRuns of theirs.             *)

Releasable ==
  {p \in Plrs : plr[p].state \in PlrFinished \/ plr[p].deleting \/ plr[p].scenario \in FailFastChildren}

(* A final status, and any status of a scenario that may fail fast, names  *)
(* a PipelineRun in E, or none.                                            *)
Settled(E, st) ==
  \A s \in Scenarios :
    (IsFinal(st[s].status) \/ s \in FailFastChildren) => st[s].plr \in E \cup {NoPlr}

SettledSnapshot(E, object) == Settled(E, object.ann)

(* The scenarios that are about to start have no PipelineRun.              *)
SettledSC(E, r) ==
  /\ Settled(E, r.st)
  /\ r.pc \in {"ready", "mark"} => \A s \in r.todo : r.st[s].plr = NoPlr

SettledIC(E, r) ==
  /\ Settled(E, r.st)
  /\ (r.seen.state \in PlrFinished \/ r.seen.deleting \/ r.seen.scenario \in FailFastChildren) =>
       r.plr \in E
  /\ r.pc \in {"writeAndRelease", "release"} => r.plr \in E

AllSettled(E) ==
  /\ SettledSnapshot(E, snap) /\ SettledSnapshot(E, cache)
  /\ SettledSC(E, sc) /\ SettledIC(E, ic) /\ sr.release \subseteq E

(* A name that was never given to a PipelineRun is not being deleted and   *)
(* belongs to no scenario.                                                 *)
UnusedNames ==
  \A p \in Plrs : plr[p].state = "none" => ~plr[p].deleting /\ plr[p].scenario = NoScenario

(* The edges of a TestGraph lead to scenarios.                             *)
LEMMA ChildrenAreScenarios ==
  FailFastChildren \subseteq Scenarios /\ NoScenario \notin FailFastChildren
<1>1. FailFastChildren \subseteq Scenarios
  BY ScenariosAssumption DEF FailFastChildren
<1>2. QED
  BY <1>1, SettingAssumption DEF NoScenario

(* UpdateTestStatusIfChanged: only the new entry needs to be settled.      *)
LEMMA SettledUpdate ==
  ASSUME NEW E, NEW st \in AllStatuses, Settled(E, st), NEW s, NEW status, NEW p, NEW by,
         (IsFinal(status) \/ s \in FailFastChildren) => p \in E \cup {NoPlr}
  PROVE  Settled(E, UpdateTestStatus(st, s, status, p, by))
BY DEF Settled, UpdateTestStatus, AllStatuses

(* A Snapshot without statuses, and a controller at rest, name nothing.    *)
LEMMA SettledNothing ==
  ASSUME NEW E
  PROVE  /\ Settled(E, NoStatuses) /\ SettledSC(E, SCIdle) /\ SettledIC(E, ICIdle)
         /\ SRIdle.release \subseteq E
<1>1. Settled(E, NoStatuses)
  BY DEF Settled, NoStatuses, Absent
<1>2. QED
  BY <1>1, ChildrenAreScenarios
     DEF SettledSC, SettledIC, SCIdle, ICIdle, SRIdle, NoPipelineRun, PlrFinished, PlrSucceeded

(* The cascade ends scenarios that a failFast edge leads to and keeps the  *)
(* names, and a scenario that is ready to run has no PipelineRun.          *)
LEMMA SettledEnsure ==
  ASSUME NEW E, NEW st \in AllStatuses, Settled(E, st), NEW applicable
  PROVE  LET new == CascadeFailFast(InitStatuses(st, applicable))
         IN  /\ Settled(E, new)
             /\ \A s \in FindScenariosReadyToRunWithoutPLR(new, applicable) : new[s].plr = NoPlr
<1> DEFINE init == InitStatuses(st, applicable)
           new == CascadeFailFast(init)
<1>1. Settled(E, init)
  BY DEF Settled, InitStatuses, Absent, IsFinal, FinalStatuses, PassedStatuses, AllStatuses, Details
<1>2. FailFastClosure(init) \ Failed(init) \subseteq FailFastChildren
  <2> HIDE DEF init
  <2>1. Failed(init) \cup FailFastChildren \in SUBSET Scenarios
    BY ChildrenAreScenarios DEF Failed
  <2>2. ClosedUnderFailFast(init, Failed(init) \cup FailFastChildren)
    BY DEF ClosedUnderFailFast, FailFastChildren
  <2>3. QED
    BY <2>1, <2>2 DEF FailFastClosure
<1>3. \A s \in Scenarios : new[s].plr = init[s].plr /\ (s \notin FailFastChildren => new[s] = init[s])
  <2>1. init \in AllStatuses
    BY InitStatusesType
  <2> HIDE DEF init
  <2>2. QED
    BY <1>2, <2>1 DEF CascadeFailFast, AllStatuses, Details
<1> HIDE DEF new, init
<1>4. Settled(E, new)
  BY <1>1, <1>3 DEF Settled
<1>5. \A s \in FindScenariosReadyToRunWithoutPLR(new, applicable) : new[s].plr = NoPlr
  BY DEF FindScenariosReadyToRunWithoutPLR, IsScenarioPendingWithoutPLR, AreRunAfterRequirementsSatisfied
<1>6. QED
  BY <1>4, <1>5 DEF new, init

(* A patch with settled contents keeps the object and the cache settled.   *)
LEMMA PatchSettled ==
  ASSUME NEW CONSTANT E, TypeOK, AllSettled(E)
  PROVE  /\ \A new, again : Patch(new, again) /\ SettledSnapshot(E, new) =>
                              SettledSnapshot(E, snap') /\ SettledSnapshot(E, cache')
         /\ \A again : NoPatch(again) => SettledSnapshot(E, snap') /\ SettledSnapshot(E, cache')
         /\ \A st : Settled(E, st) => SettledSnapshot(E, WithAnnotation(st))
         /\ \A cond : SettledSnapshot(E, WithConditions(cond))
         /\ SettledSnapshot(E, WithoutLabel)
         /\ \A label : SettledSnapshot(E, [snap EXCEPT !.label = label])
<1>1. /\ \A new, again : Patch(new, again) /\ SettledSnapshot(E, new) =>
                           SettledSnapshot(E, snap') /\ SettledSnapshot(E, cache')
      /\ \A again : NoPatch(again) => SettledSnapshot(E, snap') /\ SettledSnapshot(E, cache')
  BY DEF Patch, NoPatch, AllSettled
<1>2. QED
  BY <1>1 DEF TypeOK, Snapshots, AllSettled, SettledSnapshot, WithAnnotation, WithConditions,
              WithoutLabel

(* A new PipelineRun is one of the scenario it is created for.             *)
LEMMA CreatedIsOfScenario ==
  ASSUME NEW CONSTANT E, TypeOK, Releasable' \subseteq E, NEW s \in FailFastChildren, CreatePlr(s)
  PROVE  created + 1 \in E
<1>1. created + 1 \in Plrs
  BY MaxPlrsAssumption DEF TypeOK, CreatePlr, Plrs
<1>2. plr'[created + 1].scenario = s
  BY <1>1 DEF TypeOK, CreatePlr
<1>3. QED
  BY <1>1, <1>2 DEF Releasable

(* The snapshot controller gives a final status only to a PipelineRun that *)
(* it found finished, or to a scenario without one, and the names it       *)
(* writes are those of PipelineRuns of the scenario.                       *)
LEMMA SCSettled ==
  ASSUME NEW CONSTANT E, TypeOK, AllSettled(E), Releasable \subseteq E, Releasable' \subseteq E,
         SnapshotController
  PROVE  AllSettled(E)'
<1> DEFINE Goal == SettledSnapshot(E, snap') /\ SettledSnapshot(E, cache') /\ SettledSC(E, sc')
<1> SUFFICES Goal
  <2>1. UNCHANGED <<ic, sr>>
    BY Zenon DEF SnapshotController, SCStart, SCError, RerunCreate, RerunCreateLost, RerunCreateInvalid,
           RerunMark, RerunWrite, DropLabel, ResetSnapshotStatusConditions, EnsureStart, EnsureSkip,
           AdoptExisting, CreateNew, CreateError, CreateLost, CreateInvalid, MarkInLoop,
           WriteStatuses, WriteStatusesError, DeferredEmptyPatch, PassIfNoRequired,
           PassIfNoRequiredListError, PassIfNoRequiredPatchError, SCRequeue, SCDone, SCFrame
  <2>2. SettledIC(E, ic)' /\ (sr.release \subseteq E)'
    <3>1. SettledIC(E, ic) /\ sr.release \subseteq E
      BY Zenon DEF AllSettled
    <3>2. ic' = ic /\ sr' = sr
      BY <2>1
    <3>3. QED
      BY <3>1, <3>2, Zenon DEF SettledIC
  <2>3. QED
    BY <2>2, Zenon DEF AllSettled
<1>a. /\ Settled(E, sc.st) /\ Settled(E, snap.ann) /\ Settled(E, cache.ann)
      /\ SettledSC(E, SCIdle) /\ Settled(E, NoStatuses)
      /\ sc.pc \in {"ready", "mark"} => \A s \in sc.todo : sc.st[s].plr = NoPlr
  BY SettledNothing DEF AllSettled, SettledSC, SettledSnapshot
<1>b. sc \in SCType /\ sc.st \in AllStatuses
  BY DEF TypeOK, SCType
<1>c. \A again : NoPatch(again) => SettledSnapshot(E, snap') /\ SettledSnapshot(E, cache')
  BY PatchSettled
<1>d. ASSUME NEW s \in Scenarios
      PROVE  /\ \A p : (s \in FailFastChildren => p \in E) =>
                  Settled(E, UpdateTestStatus(ResetStatus(sc.st, s), s, "InProgress", p, "snapshot"))
             /\ Settled(E, UpdateTestStatusIfChanged(ResetStatus(sc.st, s), s, "TestInvalid", "snapshot"))
             /\ sc.st[s].plr = NoPlr =>
                  Settled(E, UpdateTestStatusIfChanged(sc.st, s, "TestInvalid", "snapshot"))
  <2>1. ~IsFinal("Pending") /\ ~IsFinal("InProgress")
    BY DEF IsFinal, FinalStatuses, PassedStatuses
  <2>2. ResetStatus(sc.st, s) \in AllStatuses /\ Settled(E, ResetStatus(sc.st, s))
    BY <1>a, <1>b, <2>1, StatusType, SettledUpdate DEF ResetStatus
  <2>3. ResetStatus(sc.st, s)[s].plr = NoPlr
    BY <1>b DEF ResetStatus, UpdateTestStatus, AllStatuses
  <2>4. QED
    BY <1>a, <1>b, <2>1, <2>2, <2>3, SettledUpdate DEF UpdateTestStatusIfChanged
<1>1. CASE SCStart
  <2>1. sc'.st = cache.ann /\ sc'.pc \notin {"ready", "mark"}
    BY <1>1 DEF SCStart, SCIdle
  <2>2. QED
    BY <1>1, <1>a, <2>1 DEF SCStart, AllSettled, SettledSC
<1>2. CASE SCError \/ EnsureSkip \/ PassIfNoRequiredPatchError
  BY <1>2, <1>a, <1>c DEF SCError, EnsureSkip, PassIfNoRequiredPatchError, SCRequeue, SCDone
<1>3. ASSUME NEW s \in Scenarios, RerunCreate(s) PROVE Goal
  <2>1. /\ sc'.st = UpdateTestStatus(ResetStatus(sc.st, s), s, "InProgress", created + 1, "snapshot")
        /\ sc'.pc \notin {"ready", "mark"}
    BY <1>3, <1>b DEF RerunCreate, SCType
  <2>2. s \in FailFastChildren => created + 1 \in E
    BY <1>3, CreatedIsOfScenario DEF RerunCreate
  <2>3. Settled(E, sc'.st)
    BY <1>d, <2>1, <2>2, Zenon
  <2>4. QED
    BY <1>3, <1>c, <2>1, <2>3 DEF RerunCreate, SettledSC
<1>4. ASSUME NEW s \in Scenarios, RerunCreateLost(s) PROVE Goal
  BY <1>4, <1>a, <1>c DEF RerunCreateLost
<1>5. ASSUME NEW s \in Scenarios, RerunCreateInvalid(s) PROVE Goal
  <2>1. /\ sc'.st = UpdateTestStatusIfChanged(ResetStatus(sc.st, s), s, "TestInvalid", "snapshot")
        /\ sc'.pc \notin {"ready", "mark"}
    BY <1>5, <1>b DEF RerunCreateInvalid, SCType
  <2>2. SettledSnapshot(E, snap') /\ SettledSnapshot(E, cache')
    BY <1>5, <1>d, PatchSettled DEF RerunCreateInvalid
  <2>3. QED
    BY <1>d, <2>1, <2>2 DEF SettledSC
<1>6. CASE RerunMark \/ MarkInLoop
  <2>1. PICK next : /\ MarkStarted(next)
                    /\ sc.pc = "mark" \/ next \notin {"ready", "mark"}
    BY <1>6 DEF RerunMark, MarkInLoop
  <2>2. sc'.st = sc.st /\ sc'.todo = sc.todo /\ sc'.pc = next
    BY <1>b, <2>1 DEF MarkStarted, SCType
  <2>3. SettledSnapshot(E, snap') /\ SettledSnapshot(E, cache')
    BY <1>c, <2>1, PatchSettled DEF MarkStarted
  <2>4. QED
    BY <1>a, <2>1, <2>2, <2>3 DEF SettledSC
<1>7. CASE RerunWrite
  <2>1. sc'.st = sc.st /\ sc'.pc \notin {"ready", "mark"}
    BY <1>7, <1>b DEF RerunWrite, SCType
  <2>2. SettledSnapshot(E, snap') /\ SettledSnapshot(E, cache')
    BY <1>7, <1>a, PatchSettled DEF RerunWrite
  <2>3. QED
    BY <1>a, <2>1, <2>2 DEF SettledSC
<1>8. CASE DropLabel
  <2>1. sc'.st = snap.ann /\ sc'.pc \notin {"ready", "mark"}
    BY <1>8, <1>b DEF DropLabel, SCType
  <2>2. SettledSnapshot(E, snap') /\ SettledSnapshot(E, cache')
    BY <1>8, PatchSettled DEF DropLabel
  <2>3. QED
    BY <1>a, <2>1, <2>2 DEF SettledSC
<1>9. CASE ResetSnapshotStatusConditions
  <2>1. sc'.st \in {sc.st, snap.ann} /\ sc'.pc \notin {"ready", "mark"}
    <3>1. CASE HaveTestsFinished(sc.cond)
      <4>1. sc' = [sc EXCEPT !.pc = "ensure", !.cond = ResetConditions(sc.cond), !.st = snap.ann]
        BY <1>9, <3>1 DEF ResetSnapshotStatusConditions
      <4>2. QED
        BY <1>b, <4>1 DEF SCType
    <3>2. CASE ~HaveTestsFinished(sc.cond)
      BY <1>9, <1>b, <3>2 DEF ResetSnapshotStatusConditions, SCType
    <3>3. QED
      BY <3>1, <3>2
  <2>2. SettledSnapshot(E, snap') /\ SettledSnapshot(E, cache')
    BY <1>9, <1>c, PatchSettled DEF ResetSnapshotStatusConditions
  <2>3. QED
    BY <1>a, <2>1, <2>2 DEF SettledSC
<1>10. CASE EnsureStart
  <2> DEFINE st == CascadeFailFast(InitStatuses(sc.st, its))
             todo == FindScenariosReadyToRunWithoutPLR(st, its)
  <2>1. Settled(E, st) /\ \A s \in todo : st[s].plr = NoPlr
    BY <1>a, <1>b, SettledEnsure
  <2>2. \/ sc'.st = sc.st /\ sc'.pc \notin {"ready", "mark"}
        \/ sc'.st = st /\ sc'.todo = todo
    <3> HIDE DEF st, todo
    <3>1. CASE its = {}
      BY <1>10, <1>b, <3>1 DEF EnsureStart, SCType
    <3>2. CASE its # {}
      <4>1. \E pc, dirty : sc' = [sc EXCEPT !.pc = pc, !.st = st, !.todo = todo, !.dirty = dirty]
        BY <1>10, <3>2, Zenon DEF EnsureStart, st, todo
      <4>2. QED
        BY <1>b, <4>1, ZenonT(30) DEF SCType
    <3>3. QED
      BY <3>1, <3>2
  <2>3. SettledSC(E, sc')
    <3> HIDE DEF st, todo
    <3>1. QED
      BY <1>a, <2>1, <2>2 DEF SettledSC
  <2>4. QED
    BY <1>10, <1>c, <2>3 DEF EnsureStart
<1>11. ASSUME NEW s \in Scenarios, NEW status, NEW p, NEW mark, StartedScenario(s, status, p, mark),
              sc.pc = "ready", (IsFinal(status) \/ s \in FailFastChildren) => p \in E
       PROVE  SettledSC(E, sc')
  <2>1. /\ sc'.st = UpdateTestStatus(sc.st, s, status, p, "snapshot") /\ sc'.todo = sc.todo \ {s}
    BY <1>11, <1>b DEF StartedScenario, SCType
  <2>2. Settled(E, sc'.st)
    <3>1. (IsFinal(status) \/ s \in FailFastChildren) => p \in E \cup {NoPlr}
      BY <1>11
    <3>2. Settled(E, UpdateTestStatus(sc.st, s, status, p, "snapshot"))
      BY <1>a, <1>b, <3>1, SettledUpdate, Zenon
    <3>3. QED
      BY <2>1, <3>2, Zenon
  <2>3. \A q \in sc'.todo : sc'.st[q].plr = NoPlr
    BY <1>11, <1>a, <1>b, <2>1 DEF UpdateTestStatus, AllStatuses, SCType
  <2>4. QED
    BY <2>2, <2>3 DEF SettledSC
<1>12. ASSUME NEW s \in Scenarios, AdoptExisting(s) PROVE Goal
  <2>1. PICK p \in Plrs :
          /\ plr[p].scenario = s
          /\ StartedScenario(s, AdoptedStatus(plr[p].state), p,
                             plr[p].state \notin PlrFinished /\ IsSnapshotNotStarted(sc.cond))
    BY <1>12 DEF AdoptExisting, GetAllPipelineRunsForScenario
  <2>2. (IsFinal(AdoptedStatus(plr[p].state)) \/ s \in FailFastChildren) => p \in E
    BY <2>1 DEF IsFinal, FinalStatuses, PassedStatuses, AdoptedStatus, Releasable, PlrFinished
  <2>3. QED
    BY <1>11, <1>12, <1>c, <2>1, <2>2 DEF AdoptExisting
<1>13. ASSUME NEW s \in Scenarios, CreateNew(s) PROVE Goal
  <2>1. ~IsFinal("InProgress")
    BY DEF IsFinal, FinalStatuses, PassedStatuses
  <2>2. s \in FailFastChildren => created + 1 \in E
    BY <1>13, CreatedIsOfScenario DEF CreateNew
  <2>3. QED
    BY <1>11, <1>13, <1>c, <2>1, <2>2 DEF CreateNew
<1>14. ASSUME NEW s \in Scenarios, CreateError(s) \/ CreateLost(s) PROVE Goal
  <2>1. sc'.st = sc.st /\ sc'.todo = sc.todo \ {s} /\ sc.pc = "ready"
    BY <1>14, <1>b, Zenon DEF CreateError, CreateLost, SkipScenario, SCType
  <2>2. QED
    BY <1>14, <1>a, <1>c, <2>1 DEF CreateError, CreateLost, SettledSC
<1>15. ASSUME NEW s \in Scenarios, CreateInvalid(s) PROVE Goal
  <2>1. /\ sc'.st = UpdateTestStatusIfChanged(sc.st, s, "TestInvalid", "snapshot")
        /\ sc'.todo = sc.todo \ {s} /\ sc.pc = "ready" /\ s \in sc.todo
    BY <1>15, <1>b DEF CreateInvalid, SCType
  <2>2. Settled(E, sc'.st)
    BY <1>a, <1>d, <2>1
  <2>3. \A q \in sc'.todo : sc'.st[q].plr = NoPlr
    BY <1>a, <1>b, <2>1 DEF UpdateTestStatusIfChanged, UpdateTestStatus, AllStatuses, SCType
  <2>4. QED
    BY <1>15, <1>c, <2>2, <2>3, Zenon DEF CreateInvalid, SettledSC
<1>16. CASE WriteStatuses
  <2>1. sc'.st = NoStatuses /\ sc'.pc \notin {"ready", "mark"}
    BY <1>16, <1>b DEF WriteStatuses, SCType
  <2>2. SettledSnapshot(E, snap') /\ SettledSnapshot(E, cache')
    BY <1>16, <1>a, PatchSettled DEF WriteStatuses
  <2>3. QED
    BY <1>a, <2>1, <2>2 DEF SettledSC
<1>17. CASE WriteStatusesError \/ DeferredEmptyPatch
  <2>1. sc'.st \in {sc.st, NoStatuses} /\ sc'.pc \notin {"ready", "mark"}
    BY <1>17, <1>b, Zenon DEF WriteStatusesError, DeferredEmptyPatch, SCType
  <2>2. QED
    BY <1>17, <1>a, <1>c, <2>1 DEF WriteStatusesError, DeferredEmptyPatch, SettledSC
<1>18. CASE PassIfNoRequired \/ PassIfNoRequiredListError
  <2>1. SettledSnapshot(E, snap') /\ SettledSnapshot(E, cache')
    BY <1>18, <1>c, PatchSettled DEF PassIfNoRequired, PassIfNoRequiredListError
  <2>2. QED
    BY <1>18, <1>a, <2>1 DEF PassIfNoRequired, PassIfNoRequiredListError
<1>19. QED
  BY <1>1, <1>2, <1>3, <1>4, <1>5, <1>6, <1>7, <1>8, <1>9, <1>10, <1>12, <1>13, <1>14,
     <1>15, <1>16, <1>17, <1>18 DEF SnapshotController

(* The integrationpipeline controller gives a final status only to a       *)
(* PipelineRun that it saw finished or being deleted, and names it in the  *)
(* entry of its own scenario.                                              *)
LEMMA ICSettled ==
  ASSUME NEW CONSTANT E, TypeOK, AllSettled(E), Releasable \subseteq E, IntegrationPipelineController
  PROVE  AllSettled(E)'
<1> DEFINE Goal == SettledSnapshot(E, snap') /\ SettledSnapshot(E, cache') /\ SettledIC(E, ic')
<1> SUFFICES Goal
  <2>1. UNCHANGED <<sc, sr>>
    BY Zenon DEF IntegrationPipelineController, ICStart, ICLoad, ICLoadExpired, ICError, ICWrite,
           ICRelease, ICRequeue, ICFrame
  <2>2. QED
    BY <2>1, ZenonT(30) DEF AllSettled
<1>a. /\ SettledIC(E, ic) /\ SettledIC(E, ICIdle) /\ Settled(E, NoStatuses) /\ ic \in ICType
      /\ Settled(E, cache.ann) /\ cache.ann \in AllStatuses
  BY SettledNothing, WithType DEF AllSettled, TypeOK, SettledSnapshot
<1>b. \A again : NoPatch(again) => SettledSnapshot(E, snap') /\ SettledSnapshot(E, cache')
  BY PatchSettled
<1>c. ASSUME NEW status, NEW next, ICReport(status, next),
             (IsFinal(status) \/ ic.seen.scenario \in FailFastChildren) => ic.plr \in E,
             next = "finalizer" => ic.plr \in E
      PROVE  SettledIC(E, ic')
  <2> DEFINE st == UpdateTestStatus(cache.ann, ic.seen.scenario, status, ic.plr, "integrationpipeline")
  <2>1. Settled(E, st)
    BY <1>a, <1>c, SettledUpdate
  <2>2. /\ NoPipelineRun.state \notin PlrFinished /\ ~NoPipelineRun.deleting
        /\ NoPipelineRun.scenario \notin FailFastChildren
    BY ChildrenAreScenarios DEF NoPipelineRun, PlrFinished, PlrSucceeded
  <2> HIDE DEF st
  <2>3. \/ ic' = ICIdle
        \/ next = "finalizer" /\ ic' = [ic EXCEPT !.pc = "release"]
        \/ /\ ic' = [ic EXCEPT !.pc = IF next = "finalizer" THEN "writeAndRelease" ELSE "write",
                               !.seen = NoPipelineRun, !.st = st]
    BY <1>c DEF ICReport, st
  <2>4. CASE next = "finalizer" /\ ic' = [ic EXCEPT !.pc = "release"]
    BY <1>a, <1>c, <2>4 DEF ICType, SettledIC
  <2>5. CASE ic' = [ic EXCEPT !.pc = IF next = "finalizer" THEN "writeAndRelease" ELSE "write",
                              !.seen = NoPipelineRun, !.st = st]
    <3>1. /\ ic'.st = st /\ ic'.seen = NoPipelineRun /\ ic'.plr = ic.plr
          /\ ic'.pc = IF next = "finalizer" THEN "writeAndRelease" ELSE "write"
      BY <1>a, <2>5 DEF ICType
    <3>2. QED
      BY <1>c, <2>1, <2>2, <3>1 DEF SettledIC
  <2>6. QED
    BY <1>a, <2>3, <2>4, <2>5
<1>1. ASSUME NEW p \in Plrs, ICStart(p) PROVE Goal
  <2>1. (plr[p].state \in PlrFinished \/ plr[p].deleting \/ plr[p].scenario \in FailFastChildren) =>
          p \in E
    BY DEF Releasable
  <2>2. SettledIC(E, [ICIdle EXCEPT !.pc = "load", !.plr = p, !.seen = plr[p]])
    BY <1>a, <2>1 DEF ICIdle, SettledIC
  <2>3. QED
    BY <1>1, <1>a, <1>b, <2>2 DEF ICStart
<1>2. CASE ICLoad
  <2>1. /\ (IsFinal(PipelineRunStatus(ic.seen)) \/ ic.seen.scenario \in FailFastChildren) => ic.plr \in E
        /\ ICNext(PipelineRunStatus(ic.seen)) = "finalizer" => ic.plr \in E
    <3>1. ~(ic.seen.state \in PlrFinished \/ ic.seen.deleting) => PipelineRunStatus(ic.seen) = "InProgress"
      BY DEF PipelineRunStatus, PlrFinished, PlrSucceeded
    <3>2. ~IsFinal("InProgress")
      BY DEF IsFinal, FinalStatuses, PassedStatuses
    <3>3. QED
      BY <1>a, <3>1, <3>2 DEF SettledIC, ICNext
  <2>2. QED
    BY <1>2, <1>b, <1>c, <2>1 DEF ICLoad
<1>3. CASE ICLoadExpired
  <2>1. ic.plr \in E
    BY <1>3, <1>a DEF ICLoadExpired, SettledIC, PlrFinished
  <2>2. SettledIC(E, [ic EXCEPT !.pc = "release"])
    BY <1>a, <2>1 DEF ICType, SettledIC
  <2>3. QED
    BY <1>3, <1>a, <1>b, <1>c, <2>1, <2>2 DEF ICLoadExpired
<1>4. CASE ICError \/ ICRelease
  BY <1>4, <1>a, <1>b DEF ICError, ICRequeue, ICRelease
<1>5. CASE ICWrite
  <2>1. ic.pc = "writeAndRelease" => SettledIC(E, [ic EXCEPT !.pc = "release", !.st = NoStatuses])
    BY <1>a DEF ICType, SettledIC
  <2>2. SettledSnapshot(E, snap') /\ SettledSnapshot(E, cache')
    BY <1>5, <1>a, PatchSettled DEF ICWrite, SettledIC
  <2>3. QED
    BY <1>5, <1>a, <2>1, <2>2 DEF ICWrite
<1>6. QED
  BY <1>1, <1>2, <1>3, <1>4, <1>5 DEF IntegrationPipelineController

(* The statusreport controller releases what a final status names.         *)
LEMMA SRSettled ==
  ASSUME NEW CONSTANT E, TypeOK, AllSettled(E), StatusReportController
  PROVE  AllSettled(E)'
<1> DEFINE Goal == SettledSnapshot(E, snap') /\ SettledSnapshot(E, cache') /\ sr'.release \subseteq E
<1> SUFFICES Goal
  <2>1. UNCHANGED <<sc, ic>>
    BY DEF StatusReportController, SRStart, SRFinish, SRVerdict, SRReport, SRReportGivesUp,
           SRError, SRRemoveFinalizer, SRFrame
  <2>2. QED
    BY <2>1 DEF AllSettled
<1>a. /\ sr.release \subseteq E /\ SRIdle.release \subseteq E /\ sr \in SRType
      /\ ToRelease(snap.ann) \subseteq E /\ ToRelease(cache.ann) \subseteq E
  <2>1. sr.release \subseteq E /\ SRIdle.release \subseteq E /\ sr \in SRType
    BY SettledNothing DEF AllSettled, TypeOK
  <2>2. Settled(E, snap.ann) /\ Settled(E, cache.ann)
    BY DEF AllSettled, SettledSnapshot
  <2>3. \A st : Settled(E, st) => ToRelease(st) \subseteq E
    BY DEF Settled, ToRelease
  <2>4. QED
    BY <2>1, <2>2, <2>3
<1>b. \A again : NoPatch(again) => SettledSnapshot(E, snap') /\ SettledSnapshot(E, cache')
  BY PatchSettled
<1>c. \A pc, ps : SRGoto(pc, ps).release = ps
  BY DEF SRGoto, SRIdle
<1>d. \A cond, required, passed, ps : SRDecided(cond, required, passed, ps).release = ps
  BY <1>c DEF SRDecided
<1>1. CASE SRStart
  <2>1. sr'.release = ToRelease(cache.ann)
    <3> DEFINE required == its \ Optional
               passed == AllPassed(cache.ann, required)
               ps == ToRelease(cache.ann)
    <3>1. \/ sr' = SRGoto("report", ps)
          \/ sr' = SRDecided(cache.cond, required, passed, ps)
          \/ sr' = [pc |-> "finish", cond |-> cache.cond, required |-> required,
                    passed |-> passed, release |-> ps]
      BY <1>1 DEF SRStart
    <3> HIDE DEF required, passed, ps
    <3>2. sr'.release = ps
      BY <1>c, <1>d, <3>1
    <3>3. QED
      BY <3>2 DEF ps
  <2>2. QED
    BY <1>1, <1>a, <2>1 DEF SRStart, AllSettled
<1>2. CASE SRFinish \/ SRVerdict
  <2>1. sr'.release = ToRelease(snap.ann)
    BY <1>2, <1>c, <1>d DEF SRFinish, SRVerdict
  <2>2. SettledSnapshot(E, snap') /\ SettledSnapshot(E, cache')
    BY <1>2, PatchSettled DEF SRFinish, SRVerdict
  <2>3. QED
    BY <1>a, <2>1, <2>2
<1>3. CASE SRReport
  <2>1. sr'.release \subseteq E
    BY <1>3, <1>a, <1>c DEF SRReport, SRRelease
  <2>2. QED
    BY <1>3, <1>b, <2>1 DEF SRReport
<1>4. CASE SRReportGivesUp \/ SRError
  BY <1>4, <1>a, <1>b DEF SRReportGivesUp, SRError
<1>5. ASSUME NEW p \in Plrs, SRRemoveFinalizer(p) PROVE Goal
  <2>1. [sr EXCEPT !.release = @ \ {p}].release \subseteq E
    BY <1>a DEF SRType
  <2>2. QED
    BY <1>5, <1>a, <1>b, <2>1 DEF SRRemoveFinalizer
<1>6. QED
  BY <1>1, <1>2, <1>3, <1>4, <1>5 DEF StatusReportController

(* Tekton, the users, the informers and a restart write no status.         *)
LEMMA EnvSettled ==
  ASSUME NEW CONSTANT E, TypeOK, AllSettled(E), Tekton \/ Users \/ Sync \/ Restart
  PROVE  AllSettled(E)'
<1>1. CASE Tekton
  BY <1>1 DEF Tekton, PlrAppear, PlrStart, PlrFinish, NoPatch, EnvFrame, AllSettled
<1>2. ASSUME NEW p \in Plrs, PlrDelete(p) PROVE AllSettled(E)'
  BY <1>2 DEF PlrDelete, NoPatch, EnvFrame, AllSettled
<1>3. ASSUME NEW label, UserRerun(label) PROVE AllSettled(E)'
  <2>1. SettledSnapshot(E, snap') /\ SettledSnapshot(E, cache')
    BY <1>3, PatchSettled DEF UserRerun
  <2>2. QED
    BY <1>3, <2>1 DEF UserRerun, EnvFrame, AllSettled
<1>4. ASSUME NEW s \in Scenarios, UserEdit(s) PROVE AllSettled(E)'
  BY <1>4 DEF UserEdit, NoPatch, EnvFrame, AllSettled
<1>5. CASE Sync
  BY <1>5 DEF Sync, EnvFrame, AllSettled
<1>6. CASE Restart
  BY <1>6, SettledNothing DEF Restart, AllSettled
<1>7. QED
  BY <1>1, <1>2, <1>3, <1>4, <1>5, <1>6 DEF Users

(* What a step may do to the PipelineRuns: an end is never taken back, and *)
(* a finalizer goes only from a PipelineRun that it may be taken from.     *)
EndsStay == Releasable \subseteq Releasable'

HeldInv == UnusedNames /\ FinalizerHeld

(* A step that changes one PipelineRun.                                    *)
LEMMA OneChange ==
  ASSUME TypeOK, HeldInv, NEW p \in Plrs, NEW new \in PipelineRuns, plr' = [plr EXCEPT ![p] = new],
         p \in Releasable =>
           new.state \in PlrFinished \/ new.deleting \/ new.scenario \in FailFastChildren,
         \/ new.finalizer \/ new.deleting \/ new.state \in PlrFinished
         \/ new.scenario \in FailFastChildren,
         new.state # "none"
  PROVE  EndsStay /\ HeldInv'
<1>1. \A q \in Plrs : plr'[q] = IF q = p THEN new ELSE plr[q]
  BY DEF TypeOK
<1>2. EndsStay
  BY <1>1 DEF EndsStay, Releasable
<1>3. QED
  BY <1>1, <1>2 DEF HeldInv, UnusedNames, FinalizerHeld

(* A finalizer is removed from a PipelineRun that it may be taken from.    *)
LEMMA HeldRemove ==
  ASSUME TypeOK, HeldInv, NEW p \in Releasable, RemoveFinalizer(p)
  PROVE  EndsStay /\ HeldInv'
<1>1. /\ p \in Plrs /\ plr[p] \in PipelineRuns
      /\ plr[p].state \in PlrFinished \/ plr[p].deleting \/ plr[p].scenario \in FailFastChildren
  BY DEF Releasable, TypeOK
<1>2. PICK new : new = [plr[p] EXCEPT !.finalizer = FALSE]
  BY Zenon
<1>3. /\ new \in PipelineRuns /\ new.state = plr[p].state /\ new.deleting = plr[p].deleting
      /\ new.scenario = plr[p].scenario
  BY <1>1, <1>2, Zenon DEF PipelineRuns
<1>4. plr' = [plr EXCEPT ![p] = new]
  BY <1>2 DEF RemoveFinalizer
<1>5. new.state # "none"
  BY <1>1, <1>3, ChildrenAreScenarios DEF HeldInv, UnusedNames, PlrFinished, PlrSucceeded
<1>6. QED
  BY <1>1, <1>3, <1>4, <1>5, OneChange, Zenon

(* createIntegrationPipelineRun creates the object with the finalizer.     *)
LEMMA HeldCreate ==
  ASSUME TypeOK, FreshNames, HeldInv, NEW s \in Scenarios, CreatePlr(s)
  PROVE  EndsStay /\ HeldInv'
<1>1. created \in Nat /\ created + 1 \in Plrs
  BY MaxPlrsAssumption DEF TypeOK, CreatePlr, Plrs
<1>2. PICK new : new = [scenario |-> s, state |-> IF CacheLag THEN "created" ELSE "pending",
                        finalizer |-> TRUE, deleting |-> FALSE]
  BY Zenon
<1>3. new \in PipelineRuns /\ new.finalizer /\ new.state # "none"
  BY <1>2 DEF PipelineRuns, PlrStates
<1>4. created + 1 \notin Releasable
  BY <1>1, ChildrenAreScenarios DEF FreshNames, HeldInv, UnusedNames, Releasable, PlrFinished, PlrSucceeded
<1>5. plr' = [plr EXCEPT ![created + 1] = new]
  BY <1>2 DEF CreatePlr
<1>6. QED
  BY <1>1, <1>3, <1>4, <1>5, OneChange, Zenon

(* Every step keeps the ends and takes a finalizer only from a PipelineRun *)
(* that it may be taken from.                                              *)
LEMMA HeldStep ==
  ASSUME TypeOK, FreshNames, HeldInv, AllSettled(Releasable), Next
  PROVE  EndsStay /\ HeldInv'
<1> DEFINE Goal == EndsStay /\ HeldInv'
<1> SUFFICES Goal
  OBVIOUS
<1>a. plr \in [Plrs -> PipelineRuns]
  BY DEF TypeOK
<1>1. ASSUME UNCHANGED plr PROVE Goal
  BY <1>1 DEF EndsStay, Releasable, HeldInv, UnusedNames, FinalizerHeld
<1>3. CASE SnapshotController
  <2>1. UNCHANGED plr \/ \E s \in Scenarios : CreatePlr(s)
    BY <1>3, Zenon
       DEF SnapshotController, SCStart, SCError, RerunCreate, RerunCreateLost, RerunCreateInvalid,
           RerunMark, RerunWrite, DropLabel, ResetSnapshotStatusConditions, EnsureStart, EnsureSkip,
           AdoptExisting, CreateNew, CreateError, CreateLost, CreateInvalid, MarkInLoop,
           WriteStatuses, WriteStatusesError, DeferredEmptyPatch, PassIfNoRequired,
           PassIfNoRequiredListError, PassIfNoRequiredPatchError, SCRequeue, SCDone, NoPlrChange
  <2>2. QED
    BY <1>1, <2>1, HeldCreate
<1>4. CASE IntegrationPipelineController
  <2>1. UNCHANGED plr \/ ICRelease
    BY <1>4, Zenon DEF IntegrationPipelineController, ICStart, ICLoad, ICLoadExpired, ICError, ICWrite,
                ICRequeue
  <2>2. ICRelease => ic.plr \in Releasable /\ RemoveFinalizer(ic.plr)
    BY DEF ICRelease, AllSettled, SettledIC
  <2>3. QED
    BY <1>1, <2>1, <2>2, HeldRemove, ZenonT(30)
<1>5. CASE StatusReportController
  <2>1. UNCHANGED plr \/ \E p \in sr.release : RemoveFinalizer(p)
    BY <1>5 DEF StatusReportController, SRStart, SRFinish, SRVerdict, SRReport, SRReportGivesUp,
                SRError, SRRemoveFinalizer
  <2>2. sr.release \subseteq Releasable
    BY DEF AllSettled
  <2>3. QED
    BY <1>1, <2>1, <2>2, HeldRemove
<1>6. ASSUME NEW p \in Plrs, PlrAppear(p) \/ PlrStart(p) \/ PlrFinish(p) PROVE Goal
  <2>1. PICK state \in {"pending", "running"} \cup PlrFinished :
          /\ plr[p].state \in {"created", "pending", "running"}
          /\ plr' = [plr EXCEPT ![p] = [plr[p] EXCEPT !.state = state]]
    <3>1. CASE PlrAppear(p)
      BY <3>1, Zenon DEF PlrAppear
    <3>2. CASE PlrStart(p)
      BY <3>2, Zenon DEF PlrStart, PlrChange
    <3>3. CASE PlrFinish(p)
      <4>1. Outcomes \subseteq PlrFinished
        BY SettingAssumption DEF TypeOK, Outcomes, PlrFinished, PlrSucceeded
      <4>2. QED
        BY <3>3, <4>1, Zenon DEF PlrFinish, PlrChange
    <3>4. QED
      BY <1>6, <3>1, <3>2, <3>3
  <2>2. PICK new : new = [plr[p] EXCEPT !.state = state]
    BY Zenon
  <2>3. /\ new \in PipelineRuns /\ new.state = state /\ new.deleting = plr[p].deleting
        /\ new.finalizer = plr[p].finalizer /\ new.scenario = plr[p].scenario
    BY <1>a, <2>1, <2>2 DEF PipelineRuns, PlrStates
  <2>4. /\ state # "none"
        /\ plr[p].state \notin PlrFinished /\ plr[p].state # "none"
    BY <2>1 DEF PlrFinished, PlrSucceeded
  <2>5. new.finalizer \/ new.deleting \/ new.scenario \in FailFastChildren
    BY <2>3, <2>4 DEF HeldInv, FinalizerHeld
  <2>6. p \in Releasable => new.deleting \/ new.scenario \in FailFastChildren
    BY <2>3, <2>4 DEF Releasable
  <2>7. QED
    BY <2>1, <2>2, <2>3, <2>4, <2>5, <2>6, OneChange, Zenon
<1>7. ASSUME NEW p \in Plrs, PlrDelete(p) PROVE Goal
  <2>1. plr' = [plr EXCEPT ![p] = [plr[p] EXCEPT !.deleting = TRUE]]
    <3>1. CASE plr[p].finalizer
      BY <1>7, <3>1 DEF PlrDelete, PlrChange
    <3>2. CASE ~plr[p].finalizer
      BY <1>7, <3>2 DEF PlrDelete
    <3>3. QED
      BY <3>1, <3>2
  <2>2. PICK new : new = [plr[p] EXCEPT !.deleting = TRUE]
    BY Zenon
  <2>3. new \in PipelineRuns /\ new.deleting /\ new.state = plr[p].state
    BY <1>a, <2>2, Zenon DEF PipelineRuns
  <2>4. plr[p].state # "none"
    BY <1>7 DEF PlrDelete, Visible, Exists
  <2>5. QED
    BY <2>1, <2>2, <2>3, <2>4, OneChange, Zenon
<1>8. ASSUME Sync \/ (\E label : UserRerun(label)) \/ (\E s \in Scenarios : UserEdit(s))
      PROVE  Goal
  BY <1>1, <1>8, Zenon DEF Sync, UserRerun, UserEdit
<1>9. CASE Restart
  <2>1. \A p \in Plrs : /\ plr'[p].finalizer = plr[p].finalizer /\ plr'[p].deleting = plr[p].deleting
                        /\ plr'[p].scenario = plr[p].scenario
                        /\ \/ plr'[p].state = plr[p].state
                           \/ plr[p].state = "created" /\ plr'[p].state = "pending"
    BY <1>9, <1>a DEF Restart, PipelineRuns
  <2>2. QED
    BY <2>1 DEF EndsStay, Releasable, HeldInv, UnusedNames, FinalizerHeld, PlrFinished, PlrSucceeded
<1>10. QED
  BY <1>3, <1>4, <1>5, <1>6, <1>7, <1>8, <1>9 DEF Next, Tekton, Users

(* The more finalizers may go, the more is settled.                        *)
LEMMA SettledMonotone ==
  ASSUME NEW D, NEW E, D \subseteq E, AllSettled(D)
  PROVE  AllSettled(E)
<1>1. \A st : Settled(D, st) => Settled(E, st)
  BY DEF Settled
<1>2. SettledSC(E, sc)
  BY <1>1 DEF AllSettled, SettledSC
<1>3. SettledIC(E, ic)
  BY <1>1 DEF AllSettled, SettledIC
<1>4. QED
  BY <1>1, <1>2, <1>3 DEF AllSettled, SettledSnapshot

(* A final status names a PipelineRun whose finalizer may go, in every     *)
(* copy of the annotation.                                                 *)
LEMMA SettledStep ==
  ASSUME TypeOK, FreshNames, HeldInv, AllSettled(Releasable), [Next]_vars
  PROVE  HeldInv' /\ AllSettled(Releasable)'
<1>1. CASE UNCHANGED vars
  BY <1>1 DEF vars, HeldInv, UnusedNames, FinalizerHeld, AllSettled, Releasable
<1>2. CASE Next
  <2>1. EndsStay /\ HeldInv'
    BY <1>2, HeldStep
  <2>2. PICK E : E = Releasable'
    OBVIOUS
  <2>3. Releasable \subseteq E /\ Releasable' \subseteq E
    BY <2>1, <2>2 DEF EndsStay
  <2>4. AllSettled(E)
    BY <2>3, SettledMonotone
  <2>5. AllSettled(E)'
    BY <1>2, <2>3, <2>4, SCSettled, ICSettled, SRSettled, EnvSettled DEF Next
  <2>6. QED
    BY <2>1, <2>2, <2>5
<1>3. QED
  BY <1>1, <1>2

(* The finalizer of a PipelineRun is taken only when the PipelineRun has   *)
(* ended or is being deleted, or a failFast edge leads to its scenario,    *)
(* for every TestGraph and whatever copy of the Snapshot                   *)
(* EnsureStatusReportedInSnapshot and                                      *)
(* EnsureSnapshotTestStatusReportedToGitProvider acted upon.               *)
THEOREM FinalizersAreHeld == Spec => []FinalizerHeld
<1>1. Init => HeldInv /\ AllSettled(Releasable)
  <2> SUFFICES ASSUME Init PROVE HeldInv /\ AllSettled(Releasable)
    OBVIOUS
  <2>1. HeldInv
    BY DEF Init, HeldInv, UnusedNames, FinalizerHeld, NoPipelineRun
  <2>2. /\ snap.ann = NoStatuses /\ cache.ann = NoStatuses
        /\ sc = SCIdle /\ ic = ICIdle /\ sr = SRIdle
    BY DEF Init, NewSnapshot
  <2>3. AllSettled(Releasable)
    BY <2>2, SettledNothing DEF AllSettled, SettledSnapshot
  <2>4. QED
    BY <2>1, <2>3
<1>2. TypeOK /\ VerdictInv /\ HeldInv /\ AllSettled(Releasable) /\ [Next]_vars => (HeldInv /\ AllSettled(Releasable))'
  BY SettledStep DEF VerdictInv
<1>3. HeldInv => FinalizerHeld
  BY DEF HeldInv
<1>4. Init => VerdictInv
  BY BackedNothing
     DEF Init, VerdictInv, AllBacked, BackedSnapshot, NewSnapshot, FreshNames, NoPipelineRun
<1>5. QED
  BY <1>1, <1>2, <1>3, <1>4, VerdictInvStep, TypeCorrect, PTL DEF Spec
=============================================================================
