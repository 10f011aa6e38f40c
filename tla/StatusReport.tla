---------------------------- MODULE StatusReport ----------------------------
(***************************************************************************)
(* The statusreport controller for one Snapshot: it reports the statuses   *)
(* of the Snapshot's integration tests to the git provider of every        *)
(* destination (the Snapshot itself, or the component Snapshots of a group *)
(* Snapshot), and remembers in an annotation which update of which         *)
(* scenario each destination has got.                                      *)
(*                                                                         *)
(* The tests change while a reconcile is under way, the reconcile works on *)
(* a copy from the informer cache, calls to a provider and patches fail,   *)
(* and the service restarts.                                               *)
(***************************************************************************)
EXTENDS GitReporters

CONSTANTS
  Scenarios,
  Optional,               \* the optional scenarios
  MaxDests,               \* bound on the number of destinations
  Layouts,                \* the destinations that a Snapshot may have
  MaxUpdates,             \* bound on the updates of the statuses
  MaxIndividualStatuses,  \* a GitLab destination gets one status for more scenarios than that
  Budgets                 \* how often each disturbance happens

Disturbances == {"update", "fault", "reject", "lost", "crash", "age", "cancel", "groupfail"}

Destinations == [reporter: Reporters \cup {"none"}, pull: BOOLEAN, quiet: BOOLEAN,
                 missing: SUBSET Needs]

ASSUME ReportAssumption ==
  /\ IsFiniteSet(Scenarios)
  /\ Optional \subseteq Scenarios
  /\ MaxDests \in Nat \ {0} /\ MaxUpdates \in Nat
  /\ MaxIndividualStatuses \in Nat
  /\ Budgets \subseteq [Disturbances -> 0 .. MaxUpdates]
  /\ \A ds \in Layouts : ds \in Seq(Destinations) /\ Len(ds) \in 1 .. MaxDests

VARIABLES
  dests,      \* the destinations: provider and metadata (never change)
  test,       \* the status annotation of the Snapshot
  srs,        \* its report annotation (SnapshotReportStatus)
  note,       \* its group creation annotation
  cache,      \* these three in the informer cache
  queued,     \* the Snapshot is in the work queue
  finished,   \* the conditions say that the tests have finished
  young,      \* the Snapshot is younger than SnapshotRetryTimeout
  canceled,   \* the Snapshot has been canceled
  w,          \* the worker
  prov,       \* what each destination's provider shows
  accepted,   \* history: the newest update that each provider accepted
  dropped,    \* history: destinations with a report that was given up
  left        \* the disturbances still to come

vars == <<dests, test, srs, note, cache, queued, finished, young, canceled, w, prov, accepted,
          dropped, left>>

snapshot == <<test, srs, note>>
provider == <<prov, accepted>>
quiet == <<dests, finished, young, canceled>>

-----------------------------------------------------------------------------
N == Len(dests)

(* time counts the updates of a scenario's status; at time 0 it has none.  *)
Details == [status: Finals \cup {"none", "Pending", "InProgress"}, time: Nat]

Marks == [Scenarios -> [1 .. MaxDests -> Nat]]

Notes == {"none", "failed", "reported"}

Pcs == {"idle", "dest", "post", "write", "comment", "save", "group", "groupnote"}

Idle == [pc |-> "idle", test |-> [s \in Scenarios |-> [status |-> "none", time |-> 0]],
         mem |-> [s \in Scenarios |-> [d \in 1 .. MaxDests |-> 0]],
         ann |-> [s \in Scenarios |-> [d \in 1 .. MaxDests |-> 0]],
         dirty |-> FALSE, note |-> "none", at |-> 0, todo |-> {}, last |-> {}, err |-> FALSE,
         failed |-> {}]

Workers ==
  [pc: Pcs, test: [Scenarios -> Details], mem: Marks, ann: Marks, dirty: BOOLEAN, note: Notes,
   at: 0 .. MaxDests + 1, todo: SUBSET Scenarios, last: SUBSET Scenarios, err: BOOLEAN,
   failed: SUBSET (1 .. MaxDests)]

TypeOK ==
  /\ dests \in Layouts
  /\ test \in [Scenarios -> Details]
  /\ srs \in Marks
  /\ note \in Notes
  /\ cache \in [test: [Scenarios -> Details], srs: Marks, note: Notes]
  /\ queued \in BOOLEAN /\ finished \in BOOLEAN /\ young \in BOOLEAN /\ canceled \in BOOLEAN
  /\ w \in Workers
  /\ DOMAIN prov = 1 .. N /\ \A d \in 1 .. N : "group" \in DOMAIN prov[d]
  /\ accepted \in Marks
  /\ dropped \subseteq 1 .. MaxDests
  /\ left \in [Disturbances -> Nat]

Disturb(d) ==
  /\ left[d] > 0
  /\ left' = [left EXCEPT ![d] = @ - 1]

Present(t) == {s \in Scenarios : t[s].time > 0}

StatusOf(t) == [s \in Scenarios |-> t[s].status]

-----------------------------------------------------------------------------
(* Around the controller *)

(* What another controller may make of a scenario's status: the test is    *)
(* created, runs and ends, and may be run again.                           *)
Follows(status) ==
  CASE status = "none" -> {"Pending", "InProgress"}
    [] status = "Pending" -> {"InProgress", "TestInvalid"}
    [] status = "InProgress" -> {"TestPassed", "TestWarning", "TestFail", "TestInvalid", "Deleted"}
    [] OTHER -> {"Pending", "InProgress"}

(* A rerun resets the conditions of the Snapshot.                          *)
Update(s, status) ==
  /\ Disturb("update")
  /\ status \in Follows(test[s].status)
  /\ test' = [test EXCEPT ![s] = [status |-> status, time |-> @.time + 1]]
  /\ finished' = (finished /\ status \in Finals)
  /\ UNCHANGED <<dests, srs, note, cache, queued, young, canceled, w, provider, dropped>>

(* The snapshot controller could not create the group Snapshot.            *)
GroupFails ==
  /\ Disturb("groupfail")
  /\ note = "none" /\ N = 1
  /\ note' = "failed"
  /\ UNCHANGED <<quiet, test, srs, cache, queued, w, provider, dropped>>

Now == [test |-> test, srs |-> srs, note |-> note]

(* HasSnapshotTestAnnotationChanged, the predicate of Update events.       *)
Wakes(old, new) == old.test # new.test \/ old.note # new.note

(* The informer delivers the Snapshot.                                     *)
Sync ==
  /\ cache # Now
  /\ cache' = Now
  /\ queued' = (queued \/ Wakes(cache, Now))
  /\ UNCHANGED <<quiet, snapshot, w, provider, dropped, left>>

(* The service restarts.  A Snapshot whose tests have finished is not      *)
(* queued, so nobody completes its report.                                 *)
Restart ==
  /\ Disturb("crash")
  /\ w' = Idle
  /\ cache' = Now
  /\ queued' = (~finished /\ Present(test) # {})
  /\ dropped' = IF queued' THEN dropped ELSE 1 .. N
  /\ UNCHANGED <<quiet, snapshot, provider>>

Age ==
  /\ Disturb("age")
  /\ young /\ young' = FALSE
  /\ UNCHANGED <<dests, snapshot, cache, queued, finished, canceled, w, provider, dropped>>

(* A newer build supersedes the Snapshot.                                  *)
Cancel ==
  /\ Disturb("cancel")
  /\ ~canceled /\ canceled' = TRUE
  /\ UNCHANGED <<dests, snapshot, cache, queued, finished, young, w, provider, dropped>>

-----------------------------------------------------------------------------
(* The annotation *)

(* SnapshotReportStatus.IsNewer; the mark of an unknown key is 0.          *)
IsNewer(marks, s, d, time) == marks[s][d] < time

MutantMarksCache(wk, S) ==
  [wk EXCEPT !.mem = [s \in Scenarios |-> IF s \in S THEN [@[s] EXCEPT ![wk.at] = cache.test[s].time]
                                          ELSE @[s]],
             !.dirty = TRUE]

(* SetLastUpdateTime for the scenarios S at the present destination.       *)
SetLastUpdateTime(wk, S) ==
  [wk EXCEPT !.mem = [s \in Scenarios |-> IF s \in S THEN [@[s] EXCEPT ![wk.at] = wk.test[s].time]
                                          ELSE @[s]],
             !.dirty = TRUE]

(* WriteSnapshotReportStatus.  The annotation of the worker's copy is set  *)
(* before the patch, so a value that failed once makes an empty patch.     *)
(* After a patch the copy is the object on the API server.                 *)
Written(wk) == [wk EXCEPT !.ann = wk.mem, !.dirty = FALSE, !.note = note]

WriteOK(wk) == srs' = IF wk.dirty /\ wk.mem # wk.ann THEN wk.mem ELSE srs

WriteFails(wk) ==
  /\ wk.dirty
  /\ Disturb("fault")
  /\ srs' = srs

-----------------------------------------------------------------------------
(* A reconcile *)

End(requeue, failed) ==
  /\ w' = Idle
  /\ queued' = (queued \/ requeue)
  /\ dropped' = IF requeue THEN dropped ELSE failed

Goto(wk, pc) == w' = [wk EXCEPT !.pc = pc] /\ UNCHANGED <<queued, dropped>>

(* The guards of EnsureGroupSnapshotCreationStatusReportedToGitProvider.   *)
GroupFailed(wk) == wk.note = "failed" /\ N = 1 /\ dests[1].pull

ToGroup(wk) == IF GroupFailed(wk) THEN Goto(wk, "group") ELSE End(FALSE, wk.failed)

MutantRetriesForever(wk, recoverable) ==
  IF young THEN End(TRUE, wk.failed) ELSE ToGroup(wk)

(* EnsureSnapshotTestStatusReportedToGitProvider, when the report failed.  *)
ReportFailed(wk, recoverable) ==
  IF young /\ recoverable THEN End(TRUE, wk.failed) ELSE ToGroup(wk)

NextDest(wk, err) ==
  LET next == [wk EXCEPT !.at = @ + 1, !.err = err, !.todo = {}, !.last = {}]
  IN  IF wk.at < N THEN Goto(next, "dest")
      ELSE IF err THEN ReportFailed(next, TRUE)
      ELSE ToGroup(next)

Failed(wk) == [wk EXCEPT !.failed = @ \cup {wk.at}]

(* EnsureSnapshotFinishedAllTests, and the start of the report.            *)
Start ==
  /\ w.pc = "idle" /\ queued
  /\ w' =
     LET wk == [Idle EXCEPT !.test = cache.test, !.mem = cache.srs, !.ann = cache.srs,
                            !.note = cache.note, !.at = 1, !.failed = dropped]
     IN  IF canceled \/ Present(cache.test) = {}
         THEN [wk EXCEPT !.pc = "group"] ELSE [wk EXCEPT !.pc = "dest"]
  /\ queued' = FALSE
  /\ finished' = (finished \/ \A s \in Scenarios : cache.test[s].status \in Finals)
  /\ UNCHANGED <<dests, young, canceled, snapshot, cache, provider, dropped, left>>

dest == dests[w.at]

Newer == {s \in Present(w.test) : IsNewer(w.mem, s, w.at, w.test[s].time)}

(* The destinations that are not reached when the loop ends here.          *)
Rest(wk) == [wk EXCEPT !.failed = @ \cup wk.at .. N]

(* One round of ReportSnapshotStatus, up to the first post.  The reporter  *)
(* is detected and initialized, and the reports are generated.             *)
Initialize ==
  /\ w.pc = "dest"
  /\ UNCHANGED <<quiet, test, note, cache, provider>>
  /\ \/ /\ dest.reporter = "none"
        /\ NextDest(Failed(w), w.err)
        /\ UNCHANGED <<srs, left>>
     \/ /\ dest.reporter # "none"
        /\ \/ /\ MetadataError(dest.reporter, dest.pull, dest.missing)
              /\ ReportFailed(Rest(w), FALSE)
              /\ UNCHANGED <<srs, left>>
           \/ Disturb("fault") /\ ReportFailed(Rest(w), TRUE) /\ UNCHANGED srs
           \/ /\ dest.reporter = "checkrun"
              /\ Disturb("reject") /\ ReportFailed(Rest(w), FALSE) /\ UNCHANGED srs
           \/ /\ ~MetadataError(dest.reporter, dest.pull, dest.missing)
              /\ Newer = {} /\ UNCHANGED <<srs, left>>
              /\ IF w.dirty THEN Goto(w, "save") ELSE NextDest(w, FALSE)
           \/ /\ ~MetadataError(dest.reporter, dest.pull, dest.missing)
              /\ Newer # {}
              /\ \/ Goto([w EXCEPT !.todo = Newer, !.failed = @ \ {w.at}], "post") /\ UNCHANGED <<srs, left>>
                 \/ /\ Disturb("fault")       \* GenerateTestReport
                    /\ WriteOK(w)
                    /\ NextDest(Failed(Written(w)), TRUE)

useConsolidated ==
  dest.reporter = "gitlab" /\ Cardinality(Present(w.test)) > MaxIndividualStatuses

UsesComments(d) == dests[d].reporter \in {"gitlab", "forgejo"} /\ dests[d].pull /\ ~dests[d].quiet

(* After the posts: the comment of a GitLab or Forgejo merge request.      *)
AfterPosts(wk) == Goto(wk, IF UsesComments(wk.at) THEN "comment" ELSE "save")

-----------------------------------------------------------------------------
(* The providers *)

(* CheckRunStatusUpdater.UpdateStatus: a check run is created when there   *)
(* is none or the newest one has completed, else it is updated.            *)
CheckRunUpdated(p, s, state) == [p EXCEPT !.shown[s] = state]

(* CommitStatusExists: was a status with this state, description and       *)
(* context ever created?  The description is a function of the status.     *)
CommitStatusExists(p, s, status) == status \in p.ever[s]

(* CommitStatusUpdater.UpdateStatus creates a status that does not exist.  *)
CommitStatusCreated(p, s, status, state) ==
  IF CommitStatusExists(p, s, status) THEN p
  ELSE [p EXCEPT !.shown[s] = state, !.ever[s] = @ \cup {status}]

(* updateStatusInComment: the comment of the scenario is edited.           *)
CommentEdited(p, s, status) ==
  LET old == IF p.notes = {} THEN [t \in Scenarios |-> "none"] ELSE CHOOSE n \in p.notes : TRUE
  IN  [p EXCEPT !.notes = {[old EXCEPT ![s] = status]}]

(* setCommitStatus of GitLab, on the target project or, when that fails,   *)
(* on the source project; both are one project here.                       *)
GitlabStatusSet(p, s, state) ==
  IF state \in {"running", "pending"} /\ p.shown[s] = state THEN p
  ELSE [p EXCEPT !.shown[s] = state]

(* setCommitStatus of Forgejo.                                             *)
ForgejoStatusSet(p, s, state) ==
  IF state = "pending" /\ p.shown[s] = state THEN p ELSE [p EXCEPT !.shown[s] = state]

(* The provider of destination d after a report of a scenario.             *)
Reported(d, s, status) ==
  LET p == prov[d]
      reporter == dests[d].reporter
      state == Posted(reporter, status, s \in Optional)
  IN  CASE reporter = "checkrun" -> CheckRunUpdated(p, s, state)
        [] reporter = "gitlab" -> GitlabStatusSet(p, s, state)
        [] reporter = "forgejo" -> ForgejoStatusSet(p, s, state)
        [] reporter = "commitstatus" ->
             LET q == CommitStatusCreated(p, s, status, state)
             IN  IF dests[d].pull THEN CommentEdited(q, s, status) ELSE q

(* The commit status is created, but not its comment.                      *)
HalfReported(d, s, status) ==
  IF dests[d].reporter = "commitstatus"
  THEN CommitStatusCreated(prov[d], s, status, Posted("commitstatus", status, FALSE))
  ELSE prov[d]

Accept(S) ==
  accepted' = [s \in Scenarios |->
                 IF s \in S THEN [accepted[s] EXCEPT ![w.at] = w.test[s].time] ELSE accepted[s]]

-----------------------------------------------------------------------------
(* reportPerScenarioStatuses: the scenarios in the order of a Go map.  The *)
(* annotation is written before the scenario just reported is marked.      *)
PostScenario(s) ==
  LET d == w.at
      status == w.test[s].status
      rest == [w EXCEPT !.todo = @ \ {s}]
  IN  /\ w.pc = "post" /\ ~useConsolidated /\ s \in w.todo
      /\ UNCHANGED <<quiet, snapshot, cache>>
      /\ \/ /\ prov' = [prov EXCEPT ![d] = Reported(d, s, status)]
            /\ Accept({s})
            /\ UNCHANGED left
            /\ IF w.dirty THEN Goto([rest EXCEPT !.last = {s}], "write")
               ELSE IF rest.todo # {} THEN Goto(SetLastUpdateTime(rest, {s}), "post")
               ELSE AfterPosts(SetLastUpdateTime(rest, {s}))
         \/ /\ Disturb("fault")               \* after three tries
            /\ prov' \in {prov, [prov EXCEPT ![d] = HalfReported(d, s, status)]}
            /\ NextDest(Failed(w), TRUE)
            /\ UNCHANGED accepted
         \/ /\ Disturb("lost")                \* only the answer is lost
            /\ prov' = [prov EXCEPT ![d] = Reported(d, s, status)]
            /\ Accept({s})
            /\ NextDest(Failed(w), TRUE)
         \/ /\ Disturb("reject")              \* ReturnCodeIsUnrecoverable
            /\ AfterPosts([Failed(w) EXCEPT !.todo = {}])
            /\ UNCHANGED provider

(* The write after a scenario, and SetLastUpdateTime.                      *)
WriteMarks ==
  /\ w.pc = "write"
  /\ UNCHANGED <<quiet, test, note, cache, provider>>
  /\ \/ /\ WriteOK(w)
        /\ LET wk == [SetLastUpdateTime(Written(w), w.last) EXCEPT !.last = {}]
           IN  IF wk.todo # {} THEN Goto(wk, "post") ELSE AfterPosts(wk)
        /\ UNCHANGED left
     \/ /\ WriteFails(w)
        /\ NextDest(Failed([w EXCEPT !.ann = w.mem]), TRUE)

(* reportConsolidatedStatuses: one status, every scenario is marked, and   *)
(* the marks are written before the comment.                               *)
PostConsolidated ==
  LET d == w.at
      state == ConsolidatedState([s \in Present(w.test) |-> [status |-> w.test[s].status,
                                                            optional |-> s \in Optional]])
      marked == SetLastUpdateTime(w, Present(w.test))
  IN  /\ w.pc = "post" /\ useConsolidated
      /\ UNCHANGED <<quiet, test, note, cache>>
      /\ \/ /\ prov' = [prov EXCEPT ![d].all = state]
            /\ Accept(Present(w.test))
            /\ \/ WriteOK(marked) /\ AfterPosts([Written(marked) EXCEPT !.todo = {}]) /\ UNCHANGED left
               \/ WriteFails(marked) /\ NextDest(Failed([marked EXCEPT !.ann = marked.mem]), TRUE)
         \/ /\ Disturb("fault")
            /\ NextDest(Failed(w), TRUE)
            /\ UNCHANGED <<srs, provider>>
         \/ /\ Disturb("lost")
            /\ prov' = [prov EXCEPT ![d].all = state]
            /\ Accept(Present(w.test))
            /\ NextDest(Failed(w), TRUE)
            /\ UNCHANGED srs
         \/ /\ Disturb("reject")
            /\ AfterPosts([Failed(w) EXCEPT !.todo = {}])
            /\ UNCHANGED <<srs, provider>>

(* The text of the comment: the reports of all scenarios.                  *)
CommentText(t) == StatusOf(t)

(* UpdateStatusInComment of GitLab and of Forgejo: the first comment found *)
(* is updated and the others are deleted; when they cannot be listed, a    *)
(* new one is created.                                                     *)
GitlabComments(notes, text, listed) == IF listed THEN {text} ELSE notes \cup {text}

ForgejoComments(notes, text, listed) == IF listed THEN {text} ELSE notes \cup {text}

Comments(d, text, listed) ==
  IF dests[d].reporter = "gitlab" THEN GitlabComments(prov[d].notes, text, listed)
  ELSE ForgejoComments(prov[d].notes, text, listed)

(* The comment of the merge request.                                       *)
PostComment ==
  LET d == w.at
      text == CommentText(w.test)
  IN  /\ w.pc = "comment"
      /\ UNCHANGED <<quiet, snapshot, cache, accepted>>
      /\ \/ /\ prov' = [prov EXCEPT ![d].notes = Comments(d, text, TRUE)]
            /\ Goto(w, "save") /\ UNCHANGED left
         \/ /\ Disturb("fault")
            /\ \/ prov' = [prov EXCEPT ![d].notes = Comments(d, text, FALSE)] /\ Goto(w, "save")
               \/ prov' = prov /\ NextDest(Failed(w), TRUE)
         \/ /\ Disturb("reject")
            /\ prov' = prov /\ Goto(Failed(w), "save")

(* The write at the end of a round.  Its result replaces the result of the *)
(* destinations before.                                                    *)
Save ==
  /\ w.pc = "save"
  /\ UNCHANGED <<quiet, test, note, cache, provider>>
  /\ \/ WriteOK(w) /\ NextDest(IF w.dirty THEN Written(w) ELSE w, FALSE) /\ UNCHANGED left
     \/ WriteFails(w) /\ NextDest(Failed([w EXCEPT !.ann = w.mem]), TRUE)

-----------------------------------------------------------------------------
(* EnsureGroupSnapshotCreationStatusReportedToGitProvider *)

GroupState(reporter) == Posted(reporter, "GroupSnapshotCreationFailed", FALSE)

GroupReportFailed(wk, recoverable) == End(young /\ recoverable, wk.failed)

(* The failure is reported for the scenarios of the group.  An answer that *)
(* a retry will not change counts as reported.                             *)
ReportGroupFailure ==
  LET d == dests[1]
      answered(answer) == prov' = [prov EXCEPT ![1].group = answer]
  IN  /\ w.pc = "group"
      /\ UNCHANGED <<quiet, snapshot, cache, accepted>>
      /\ \/ ~GroupFailed(w) /\ End(FALSE, w.failed) /\ UNCHANGED <<prov, left>>
         \/ /\ GroupFailed(w)
            /\ \/ /\ d.reporter = "none"
                  /\ answered("impossible") /\ Goto(w, "groupnote") /\ UNCHANGED left
               \/ /\ d.reporter # "none" /\ MetadataError(d.reporter, d.pull, d.missing)
                  /\ GroupReportFailed(w, FALSE)
                  /\ UNCHANGED <<prov, left>>
               \/ /\ Disturb("fault")         \* the scenarios cannot be listed
                  /\ End(TRUE, w.failed)
                  /\ UNCHANGED prov
               \/ /\ Disturb("fault") /\ d.reporter # "none"
                  /\ \/ UNCHANGED prov
                     \/ answered(GroupState(d.reporter))
                  /\ GroupReportFailed(w, TRUE)
               \/ /\ ~MetadataError(d.reporter, d.pull, d.missing) /\ d.reporter # "none"
                  /\ \/ answered(GroupState(d.reporter)) /\ UNCHANGED left
                     \/ Disturb("reject") /\ answered("impossible")
                  /\ Goto(w, "groupnote")

AnnotateGroupFailure ==
  /\ w.pc = "groupnote"
  /\ UNCHANGED <<quiet, test, srs, cache, provider>>
  /\ \/ note' = "reported" /\ End(FALSE, w.failed) /\ UNCHANGED left
     \/ note' = note /\ End(TRUE, w.failed) /\ Disturb("fault")

-----------------------------------------------------------------------------
NoProvider == [shown |-> [s \in Scenarios |-> "nothing"], ever |-> [s \in Scenarios |-> {}],
               all |-> "nothing", notes |-> {}, group |-> "nothing"]

ReportInit ==
  /\ dests \in Layouts
  /\ test = Idle.test /\ srs = Idle.mem /\ note = "none"
  /\ cache = [test |-> Idle.test, srs |-> Idle.mem, note |-> "none"]
  /\ queued = FALSE /\ finished = FALSE /\ young = TRUE /\ canceled = FALSE
  /\ w = Idle
  /\ prov = [d \in 1 .. N |-> NoProvider]
  /\ accepted = Idle.mem
  /\ dropped = {}
  /\ left \in Budgets

ReportStep ==
  \/ Start \/ Initialize
  \/ \E s \in Scenarios : PostScenario(s)
  \/ WriteMarks \/ PostConsolidated \/ PostComment \/ Save
  \/ ReportGroupFailure \/ AnnotateGroupFailure

ReportNext ==
  \/ \E s \in Scenarios, status \in Finals \cup {"Pending", "InProgress"} : Update(s, status)
  \/ GroupFails \/ Sync \/ Restart \/ Age \/ Cancel
  \/ ReportStep

(* The informer delivers what has changed, and a worker that has something *)
(* to do goes on.                                                          *)
ReportFairness == WF_vars(Sync) /\ WF_vars(ReportStep)

-----------------------------------------------------------------------------
(* A mark in the annotation means that the provider of the destination     *)
(* accepted that update of the scenario or a later one, although marks are *)
(* written late, patches fail, copies are stale and the service restarts.  *)
(* (reportPerScenarioStatuses, WriteSnapshotReportStatus)                  *)
MarkedMeansAccepted ==
  \A s \in Scenarios, d \in 1 .. N : srs[s][d] <= accepted[s][d]

(* Nothing is left to do: no event is under way and the queue is empty.    *)
AtRest == w.pc = "idle" /\ ~queued /\ cache = Now

Owed == {d \in 1 .. N : d \notin dropped /\ ~canceled}

Consolidated(d) ==
  dests[d].reporter = "gitlab" /\ Cardinality(Present(test)) > MaxIndividualStatuses

(* At rest, every destination whose last report was not given up shows     *)
(* what the newest status of every scenario means.                         *)
ShownAtRest ==
  AtRest =>
    \A d \in Owed :
      IF Consolidated(d)
      THEN TellsAll(prov[d].all, [s \in Present(test) |-> test[s].status], Optional)
      ELSE dests[d].reporter # "commitstatus" =>
             \A s \in Present(test) :
               Tells(dests[d].reporter, prov[d].shown[s], test[s].status, s \in Optional)

(* At rest, a comment of every pull request that gets comments lists the   *)
(* newest statuses, also when the comment failed at first.  (With the      *)
(* consolidated status of GitLab it may not: the marks are written before  *)
(* the comment.)                                                           *)
CommentAtRest ==
  AtRest =>
    \A d \in Owed :
      (UsesComments(d) /\ ~Consolidated(d) /\ Present(test) # {}) => CommentText(test) \in prov[d].notes

(* A failed creation of a group Snapshot is only recorded as reported when *)
(* the provider shows it or will never show it.                            *)
GroupFailureReported ==
  note = "reported" => prov[1].group # "nothing"

(* What is recorded as reported was reported, or can never be.             *)
RecordedMeansReported == MarkedMeansAccepted /\ GroupFailureReported

(* At rest the providers show the newest statuses, and so do the comments. *)
ProvidersAtRest == ShownAtRest /\ CommentAtRest

(* The controller comes to rest: with a bounded number of disturbances it  *)
(* does not retry forever.                                                 *)
ComesToRest == <>[]AtRest
=============================================================================
