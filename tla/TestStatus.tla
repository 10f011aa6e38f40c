----------------------------- MODULE TestStatus -----------------------------
(***************************************************************************)
(* The per-scenario test statuses of a Snapshot: the value of its          *)
(* annotation test.appstudio.openshift.io/status and the operations on it  *)
(* (pkg/integrationteststatus), together with the reading of a             *)
(* ComponentGroup's TestGraph (pkg/dag/utils.go).                          *)
(*                                                                         *)
(* A set of statuses is a function from Scenarios to details.  A scenario  *)
(* without an entry has the detail Absent.                                 *)
(***************************************************************************)
EXTENDS Naturals

CONSTANTS
  Scenarios,  \* names of IntegrationTestScenarios
  Optional,   \* the scenarios labelled test.appstudio.openshift.io/optional
  Parents,    \* TestGraph: Parents[s] is the set of nodes that s runs after
  FailFast,   \* TestGraph: the edges <<child, parent>> with failFast: true
  MaxPlrs     \* bound on the PipelineRuns created for the Snapshot

ASSUME ScenariosAssumption ==
  /\ Optional \subseteq Scenarios
  /\ Parents \in [Scenarios -> SUBSET Scenarios]
  /\ FailFast \subseteq {e \in Scenarios \X Scenarios : e[2] \in Parents[e[1]]}

ASSUME MaxPlrsAssumption == MaxPlrs \in Nat

-----------------------------------------------------------------------------
(* PipelineRuns are numbered in the order in which they are created.       *)
Plrs == 1..MaxPlrs
NoPlr == 0

PassedStatuses == {"TestPassed", "TestWarning"}
FinalStatuses == PassedStatuses \cup {"TestFail", "TestInvalid", "Deleted"}
Statuses == {"none", "Pending", "InProgress"} \cup FinalStatuses

MutantIsPassedUnlessFailed(status) == status \in FinalStatuses \ {"TestFail"}

IsFinal(status) == status \in FinalStatuses
IsPassed(status) == status \in PassedStatuses

(* `by' stands for the text of the details, which is a function of the     *)
(* status, the PipelineRun and the controller that wrote it: two writes    *)
(* of the same value are the ones that leave the statuses clean.           *)
Writers == {"snapshot", "integrationpipeline"}

Details == [status: Statuses, plr: Plrs \cup {NoPlr}, by: Writers]

Absent == [status |-> "none", plr |-> NoPlr, by |-> "snapshot"]

AllStatuses == [Scenarios -> Details]

NoStatuses == [s \in Scenarios |-> Absent]

Present(st) == {s \in Scenarios : st[s].status # "none"}

-----------------------------------------------------------------------------
MutantKeepsOldName(st, s, status, p, by) ==
  [st EXCEPT ![s] = [status |-> status, by |-> by,
                     plr |-> IF st[s].plr = NoPlr THEN p ELSE st[s].plr]]

(* UpdateTestStatusIfChanged, which creates an entry that is missing,      *)
(* followed by UpdateTestPipelineRunName.                                  *)
UpdateTestStatus(st, s, status, p, by) ==
  [st EXCEPT ![s] = [status |-> status, plr |-> p, by |-> by]]

(* UpdateTestStatusIfChanged alone keeps the PipelineRun's name.           *)
UpdateTestStatusIfChanged(st, s, status, by) ==
  UpdateTestStatus(st, s, status, st[s].plr, by)

ResetStatus(st, s) == UpdateTestStatus(st, s, "Pending", NoPlr, "snapshot")

(* The parents of a node that are scenarios of this Snapshot.  The lists   *)
(* are stored with the statuses, but the code that reads them calls        *)
(* InitStatuses first, which computes them anew: they are a function of    *)
(* the applicable scenarios, the ones with a status.                       *)
GetRunAfterMap(s, applicable) == Parents[s] \cap applicable

(* Scenarios without a status get one, those that no longer apply lose it. *)
InitStatuses(st, applicable) ==
  [s \in Scenarios |->
     IF s \notin applicable THEN Absent
     ELSE IF st[s].status = "none" THEN [Absent EXCEPT !.status = "Pending"]
     ELSE st[s]]

-----------------------------------------------------------------------------
(* The scenarios that fail fast because of a failed one: the least set     *)
(* that holds the failed scenarios and every unfinished dependent that an  *)
(* edge with failFast: true leads to.                                      *)
Failed(st) == {s \in Scenarios : IsFinal(st[s].status) /\ ~IsPassed(st[s].status)}

MutantCascadeOnEveryEdge(st, X) ==
  \A s \in Present(st) :
    (GetRunAfterMap(s, Present(st)) \cap X # {} /\ ~IsFinal(st[s].status)) => s \in X

ClosedUnderFailFast(st, X) ==
  \A e \in FailFast :
    (e[2] \in X /\ e[1] \in Present(st) /\ ~IsFinal(st[e[1]].status)) => e[1] \in X

FailFastClosure(st) ==
  {s \in Scenarios :
     \A X \in SUBSET Scenarios :
       (Failed(st) \subseteq X /\ ClosedUnderFailFast(st, X)) => s \in X}

CascadeFailFast(st) ==
  [s \in Scenarios |->
     IF s \in FailFastClosure(st) \ Failed(st)
     THEN [st[s] EXCEPT !.status = "TestFail", !.by = "snapshot"]
     ELSE st[s]]

MutantParentsNeedNotFinish(st, s) ==
  /\ s \in Present(st)
  /\ \A q \in GetRunAfterMap(s, Present(st)) :
       IsFinal(st[q].status) => (IsPassed(st[q].status) \/ <<s, q>> \notin FailFast)

(* The scenario may start: every scenario it runs after has finished, and  *)
(* the ones that failed are not on an edge with failFast: true.            *)
AreRunAfterRequirementsSatisfied(st, s) ==
  /\ s \in Present(st)
  /\ \A q \in GetRunAfterMap(s, Present(st)) :
       /\ IsFinal(st[q].status)
       /\ IsPassed(st[q].status) \/ <<s, q>> \notin FailFast

IsScenarioPendingWithoutPLR(st, s) ==
  s \in Present(st) => st[s].status = "Pending" /\ st[s].plr = NoPlr

FindScenariosReadyToRunWithoutPLR(st, applicable) ==
  {s \in applicable : /\ IsScenarioPendingWithoutPLR(st, s)
                      /\ AreRunAfterRequirementsSatisfied(st, s)}

-----------------------------------------------------------------------------
(* determineIfAllRequiredIntegrationTestsFinishedAndPassed                 *)
AllFinished(st, required) == \A s \in required : IsFinal(st[s].status)
AllPassed(st, required) ==
  \A s \in required : s \in Present(st) => IsPassed(st[s].status)
=============================================================================
