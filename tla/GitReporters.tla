---------------------------- MODULE GitReporters ----------------------------
(***************************************************************************)
(* What the reporters of package status show on a git provider: GitHub     *)
(* check runs (the app is installed), GitHub commit statuses (a webhook),  *)
(* GitLab commit statuses and Forgejo commit statuses, with the choice and *)
(* the initialization of a reporter and the text of comments reduced to    *)
(* the statuses it lists.                                                  *)
(***************************************************************************)
EXTENDS Naturals, Sequences, FiniteSets, Functions

FailedCreations == {"BuildPLRFailed", "SnapshotCreationFailed", "GroupSnapshotCreationFailed"}
Failures == {"TestFail", "TestInvalid"}
Waiting == {"Pending", "InProgress", "BuildPLRInProgress"}
Passes == {"TestPassed", "TestWarning"}

(* Final for IntegrationTestStatus.IsFinal.                                *)
Finals == Failures \cup Passes \cup {"Deleted"}

-----------------------------------------------------------------------------
(* Which reporter? *)

Providers == {"github", "gitlab", "forgejo", "gitea", "other"}

(* GetReporter: the first reporter whose Detect accepts the git provider   *)
(* of the Snapshot, and the updater that GitHubReporter.Initialize picks.  *)
GetReporter(provider, installed) ==
  CASE provider = "github" /\ installed -> "checkrun"
    [] provider = "github" /\ ~installed -> "commitstatus"
    [] provider = "gitlab" -> "gitlab"
    [] provider \in {"forgejo", "gitea"} -> "forgejo"
    [] OTHER -> "none"

Reporters == {GetReporter(p, i) : p \in Providers, i \in BOOLEAN} \ {"none"}

(* GetPACGitProviderToken and resolveSnapshotRepository need, in order ... *)
TokenNeeds == <<"repo-url", "repository", "token-key">>
RepositoryNeeds == <<"repo-url", "repository", "repository-path">>

(* ... and GetAppCredentials.                                              *)
AppNeeds == <<"app-id", "private-key", "installation">>

(* What Initialize requires of the Snapshot and of the namespace, for each *)
(* reporter.  When something is missing, it returns an error that is an    *)
(* UnrecoverableMetadataError.                                             *)
GithubNeeds(installed) ==
  RepositoryNeeds \o <<"sha">> \o (IF installed THEN AppNeeds ELSE TokenNeeds)

GitlabNeeds(pull) ==
  TokenNeeds \o <<"sha", "target-project", "source-project">>
             \o (IF pull THEN <<"pull-request">> ELSE <<>>)

ForgejoNeeds(pull) ==
  TokenNeeds \o <<"repository-path", "sha">> \o (IF pull THEN <<"pull-request">> ELSE <<>>)

InitializeNeeds(reporter, pull) ==
  CASE reporter = "checkrun" -> GithubNeeds(TRUE)
    [] reporter = "commitstatus" -> GithubNeeds(FALSE)
    [] reporter = "gitlab" -> GitlabNeeds(pull)
    [] reporter = "forgejo" -> ForgejoNeeds(pull)
    [] OTHER -> <<>>

Needs == {"repo-url", "repository", "token-key", "repository-path", "app-id", "private-key",
          "installation", "sha", "target-project", "source-project", "pull-request"}

MetadataError(reporter, pull, missing) ==
  \E need \in missing : need \in Range(InitializeNeeds(reporter, pull))

-----------------------------------------------------------------------------
(* What is shown for a status? *)

(* (The title of a check run tells the same as its conclusion.)            *)
GenerateCheckRunConclusion(status, optional) ==
  CASE status \in Failures \cup {"Deleted"} -> IF optional THEN "neutral" ELSE "failure"
    [] status = "TestPassed" -> "success"
    [] status \in Waiting -> "none"
    [] status \in FailedCreations -> "cancelled"
    [] status = "TestWarning" -> "neutral"

generateGithubCommitState(status) ==
  CASE status \in FailedCreations \cup {"TestFail"} -> "failure"
    [] status \in {"Deleted", "TestInvalid"} -> "error"
    [] status \in Passes -> "success"
    [] status \in Waiting -> "pending"

GenerateGitlabCommitState(status, optional) ==
  CASE status \in {"Pending", "BuildPLRInProgress"} -> "pending"
    [] status = "InProgress" -> IF optional THEN "pending" ELSE "running"
    [] status \in Failures -> IF optional THEN "skipped" ELSE "failed"
    [] status \in FailedCreations \cup {"Deleted"} -> "canceled"
    [] status \in Passes -> "success"

GenerateForgejoCommitState(status, optional) ==
  CASE status \in Waiting -> "pending"
    [] status = "TestInvalid" -> IF optional THEN "success" ELSE "error"
    [] status \in FailedCreations \cup {"Deleted"} -> "error"
    [] status = "TestPassed" -> "success"
    [] status = "TestFail" -> IF optional THEN "warning" ELSE "error"
    [] status = "TestWarning" -> "warning"

(* The state that a reporter posts.                                        *)
Posted(reporter, status, optional) ==
  CASE reporter = "checkrun" -> GenerateCheckRunConclusion(status, optional)
    [] reporter = "commitstatus" -> generateGithubCommitState(status)
    [] reporter = "gitlab" -> GenerateGitlabCommitState(status, optional)
    [] reporter = "forgejo" -> GenerateForgejoCommitState(status, optional)

MutantRunningIsSticky(overall, status, optional) ==
  CASE status = "InProgress" -> IF overall \in {"success", "pending"} THEN "running" ELSE overall
    [] status \in {"Pending", "BuildPLRInProgress"} -> IF overall = "success" THEN "pending" ELSE overall
    [] status \in Failures \cup FailedCreations -> IF optional \/ overall = "running" THEN overall ELSE "failed"
    [] OTHER -> overall

(* One round of the loop of ReportConsolidatedStatus.                      *)
Consolidate(overall, status, optional) ==
  CASE status = "InProgress" -> IF overall \in {"success", "pending"} THEN "running" ELSE overall
    [] status \in {"Pending", "BuildPLRInProgress"} -> IF overall = "success" THEN "pending" ELSE overall
    [] status \in Failures \cup FailedCreations -> IF optional THEN overall ELSE "failed"
    [] OTHER -> overall

(* reports gives each scenario its [status, optional]; a round only raises *)
(* the state, so the order of the rounds does not matter.                  *)
ConsolidatedState(reports) ==
  FoldFunction(LAMBDA r, overall : Consolidate(overall, r.status, r.optional), "success", reports)

-----------------------------------------------------------------------------
(* What a state of a provider means to the one who wants to merge.  These  *)
(* are the references that the conversions are compared with.              *)
Waits(reporter, state) == state \in {"none", "pending", "running"}

Allows(reporter, state) == state \in {"success", "neutral", "skipped", "warning"}

(* The state tells what the status of a scenario means: tests that have    *)
(* not finished wait, a failed mandatory test does not allow the merge,    *)
(* and a failed optional one does (GitHub commit statuses do not look at   *)
(* optional).                                                              *)
Tells(reporter, state, status, optional) ==
  /\ Waits(reporter, state) <=> status \in Waiting
  /\ status \in Passes => Allows(reporter, state)
  /\ ~optional /\ status \notin Passes => ~Allows(reporter, state)
  /\ optional /\ status \in Failures /\ reporter # "commitstatus" => Allows(reporter, state)

(* The consolidated state, without a loop: a failed mandatory test decides,*)
(* then a running test, then a pending one.                                *)
TellsAll(state, statusOf, optionals) ==
  LET S == DOMAIN statusOf
  IN  state = IF \E s \in S \ optionals : statusOf[s] \in Failures \cup FailedCreations THEN "failed"
              ELSE IF \E s \in S : statusOf[s] = "InProgress" THEN "running"
              ELSE IF \E s \in S : statusOf[s] \in Waiting THEN "pending"
              ELSE "success"
=============================================================================
