-------------------------- MODULE PullRequestGroup --------------------------
(***************************************************************************)
(* The pull requests of one PR group: branches of the same name in the     *)
(* repositories of several components.  Each component has one pull        *)
(* request, which is built several times.                                  *)
(*                                                                         *)
(* The build controller labels a build with its group, tells the Snapshots *)
(* and the builds of the group about it, reports its state to the pull     *)
(* request, creates its component Snapshot and cancels the older ones.     *)
(* The snapshot controller creates the group Snapshot when all builds are  *)
(* done, starts the tests and cancels what is superseded.  Both have one   *)
(* worker and read PipelineRuns and Snapshots from informer caches.        *)
(***************************************************************************)
EXTENDS Naturals, FiniteSets, FiniteSetsExt

CONSTANTS
  NB,            \* number of builds; build b is the b-th one to be started
  Components,
  ComponentOf,   \* the component of a build
  MaxGroups,     \* bound on the group Snapshots
  Budgets        \* how often each disturbance happens

Builds == 1 .. NB
Groups == NB + 1 .. NB + MaxGroups

(* The component Snapshot of build b is called b.                          *)
Snapshots == Builds \cup Groups

(* What is bounded: faults of the service and of the provider, but also    *)
(* the builds that fail, that wait for their signature, that end before    *)
(* the first reconcile or that overlap with an older build of the same     *)
(* component, their updates on the way, and the tests that end.  "builds"  *)
(* is the number of builds.                                                *)
Disturbances == {"builds", "fault", "reject", "refuse", "crash", "lag", "close", "failed", "unsigned",
                 "fast", "overlap", "progress", "tested"}

ASSUME GroupAssumption ==
  /\ NB \in Nat /\ MaxGroups \in Nat
  /\ ComponentOf \in [Builds -> Components]
  /\ Budgets \subseteq [Disturbances -> Nat]

VARIABLES
  model,      \* "application" or "componentgroup" (never changes)
  enforced,   \* group Snapshots are always created (never changes)
  plr,        \* the build PipelineRuns
  snap,       \* the Snapshots
  members,    \* the component Snapshots in each group Snapshot
  pr,         \* the pull request of each component
  seen,       \* PipelineRuns and Snapshots in the informer caches
  behind,     \* the informers that lag
  toBuild,    \* the queue of the build controller
  toSnap,     \* the queue of the snapshot controller
  bw, sw,     \* their workers
  shown,      \* what the pull requests show about their builds
  announced,  \* history: builds that were reported, also for the group
  plan,       \* how often each disturbance happens (never changes)
  left        \* the disturbances still to come

vars == <<model, enforced, plr, snap, members, pr, seen, behind, toBuild, toSnap, bw, sw, shown,
          announced, plan, left>>

fixed == <<model, enforced, plan>>
provider == <<shown, announced>>

-----------------------------------------------------------------------------
(* "waiting" is the text that a new build writes; every other text counts  *)
(* as processed (HasPRGroupProcessed).                                     *)
Notes == {"none", "waiting", "failed", "running", "few", "created", "forbidden"}

(* named: the annotation "snapshot", listed: the annotation "snapshots";   *)
(* refused: the failure to create a Snapshot has been recorded.            *)
PipelineRuns == [state: {"none", "running", "succeeded", "signed", "failed"}, grouped: BOOLEAN,
                 note: Notes, named: BOOLEAN, listed: BOOLEAN, refused: BOOLEAN,
                 report: {"none", "BuildPLRInProgress", "BuildPLRFailed", "SnapshotCreationFailed",
                          "SnapshotCreated"}]

NoPlr == [state |-> "none", grouped |-> FALSE, note |-> "none", named |-> FALSE, listed |-> FALSE,
          refused |-> FALSE, report |-> "none"]

NoSnap == [made |-> FALSE, note |-> "none", canceled |-> FALSE, finished |-> FALSE, tests |-> "none"]

IdleB == [pc |-> "idle", b |-> 0, p |-> NoPlr]

IdleS == [pc |-> "idle", s |-> 0, finished |-> FALSE, msg |-> "none", infos |-> {}]

Disturb(d) ==
  /\ left[d] > 0
  /\ left' = [left EXCEPT ![d] = @ - 1]

BuildsOf(c) == {b \in Builds : ComponentOf[b] = c}

Finished(p) == p.state \in {"succeeded", "signed", "failed"}

-----------------------------------------------------------------------------
(* The informer caches *)

(* The predicates of the build controller.  After an update it looks at    *)
(* the new object only.                                                    *)
BuildWakes(old, new) ==
  \/ old.state = "none"
  \/ new.state = "signed" /\ ~new.named
  \/ new.grouped /\ ~new.named
  \/ new.state = "failed"

(* The predicate of the snapshot controller.                               *)
SnapshotWakes(old, new) == ~old.made \/ (~old.finished /\ new.finished)

(* The caches get the objects p and s, except where an informer lags.      *)
Observe(p, s, late, tb, ts) ==
  LET new == [plr |-> IF "plr" \in late THEN seen.plr ELSE p,
              snap |-> IF "snap" \in late THEN seen.snap ELSE s]
  IN  /\ seen' = new
      /\ toBuild' = tb \cup {b \in Builds : new.plr[b] # seen.plr[b] /\ BuildWakes(seen.plr[b], new.plr[b])}
      /\ toSnap' = ts \cup {t \in Snapshots : new.snap[t] # seen.snap[t] /\ SnapshotWakes(seen.snap[t], new.snap[t])}

WritePlr(p, tb) ==
  plr' = p /\ snap' = snap /\ Observe(p, snap, behind, tb, toSnap)

WriteSnap(s, ts) ==
  snap' = s /\ plr' = plr /\ Observe(plr, s, behind, toBuild, ts)

NoWrite(tb, ts) ==
  toBuild' = tb /\ toSnap' = ts /\ UNCHANGED <<plr, snap, seen>>

FallBehind(k) ==
  /\ Disturb("lag")
  /\ behind' = behind \cup {k} /\ behind # behind'
  /\ NoWrite(toBuild, toSnap)
  /\ UNCHANGED <<fixed, members, pr, bw, sw, provider>>

CatchUp ==
  /\ behind # {} /\ behind' = {}
  /\ Observe(plr, snap, {}, toBuild, toSnap)
  /\ UNCHANGED <<fixed, plr, snap, members, pr, bw, sw, provider, left>>

-----------------------------------------------------------------------------
(* Around the controllers *)

env == <<fixed, members, behind, bw, sw, provider>>

StartBuild(b) ==
  /\ plr[b].state = "none" /\ b <= plan["builds"]
  /\ \A a \in Builds : a < b => plr[a].state # "none"
  /\ IF \E a \in BuildsOf(ComponentOf[b]) : plr[a].state = "running" THEN Disturb("overlap") ELSE UNCHANGED left
  /\ WritePlr([plr EXCEPT ![b].state = "running"], toBuild)
  /\ UNCHANGED <<env, pr>>

(* Tekton Chains signs a build that succeeded, at once or later.           *)
EndBuild(b) ==
  /\ plr[b].state = "running"
  /\ \/ WritePlr([plr EXCEPT ![b].state = "signed"], toBuild)
        /\ IF plr[b].report = "none" THEN Disturb("fast") ELSE UNCHANGED left
     \/ WritePlr([plr EXCEPT ![b].state = "succeeded"], toBuild) /\ Disturb("unsigned")
     \/ WritePlr([plr EXCEPT ![b].state = "failed"], toBuild) /\ Disturb("failed")
  /\ UNCHANGED <<env, pr>>

Sign(b) ==
  /\ plr[b].state = "succeeded"
  /\ WritePlr([plr EXCEPT ![b].state = "signed"], toBuild)
  /\ UNCHANGED <<env, pr, left>>

(* A task of a running build ends, which is an update of the build.        *)
Progress(b) ==
  /\ Disturb("progress")
  /\ seen.plr[b].state = "running" /\ BuildWakes(seen.plr[b], seen.plr[b])
  /\ NoWrite(toBuild \cup {b}, toSnap)
  /\ UNCHANGED <<env, pr>>

ClosePR(c) ==
  /\ Disturb("close")
  /\ pr[c] = "open" /\ pr' = [pr EXCEPT ![c] = "closed"]
  /\ NoWrite(toBuild, toSnap)
  /\ UNCHANGED env

(* The tests of a Snapshot end.  The statusreport controller gives the     *)
(* Snapshot its verdict unless it has been canceled.                       *)
TestsEnd(s) ==
  /\ snap[s].tests = "running" /\ Disturb("tested")
  /\ WriteSnap([snap EXCEPT ![s].tests = "ended", ![s].finished = @ \/ ~snap[s].canceled], toSnap)
  /\ UNCHANGED <<env, pr>>

(* The service restarts: every object is delivered by a Create event.      *)
Restart ==
  /\ Disturb("crash")
  /\ bw' = IdleB /\ sw' = IdleS
  /\ behind' = {} /\ seen' = [plr |-> plr, snap |-> snap]
  /\ toBuild' = {b \in Builds : plr[b].state # "none"}
  /\ toSnap' = {s \in Snapshots : snap[s].made}
  /\ UNCHANGED <<fixed, plr, snap, members, pr, provider>>

-----------------------------------------------------------------------------
(* The lists that the loader reads from the caches *)

(* GetPipelineRunsWithPRGroupHash                                          *)
GroupBuilds == {b \in Builds : seen.plr[b].grouped}

(* IsLatestBuildPipelineRunInComponent; build b itself may be missing in   *)
(* the list.                                                               *)
IsLatest(b) == \A a \in GroupBuilds : ComponentOf[a] = ComponentOf[b] => a <= b

LatestBuilds == {b \in GroupBuilds : IsLatest(b)}

(* GetMatchingComponentSnapshotsForComponentAndPRGroupHash                 *)
ComponentSnapshots(c) == {b \in BuildsOf(c) : seen.snap[b].made}

(* The first one of SortSnapshots.                                         *)
LatestSnapshot(c) == Max(ComponentSnapshots(c))

(* GetAllPullSnapshotsForPR: the Snapshots of the only pull request of c.  *)
PullSnapshots(c) == ComponentSnapshots(c)

(* GetMatchingGroupSnapshotsForPRGroupHash                                 *)
GroupSnapshots == {g \in Groups : seen.snap[g].made}

(* GetComponentsFromSnapshotForPRGroup                                     *)
ComponentsFromSnapshots == {c \in Components : ComponentSnapshots(c) # {}}

(* IsPRMRInSnapshotOpened: the provider is asked.                          *)
IsPROpened(c) == pr[c] = "open"

(* FindSnapshotWithOpenedPR for component c, seen from component own.      *)
HasOpenedPR(c, own) == c = own \/ IsPROpened(c)

(* getComponentsFromLatestFlightBuildPLR                                   *)
InFlight == {ComponentOf[b] : b \in {a \in LatestBuilds : ~seen.plr[a].named}}

(* isGroupSnapshotExpectedForBuildPLR, for a build of component own.       *)
IsGroupSnapshotExpected(own) ==
  \/ enforced
  \/ Cardinality(InFlight \cup {c \in ComponentsFromSnapshots : HasOpenedPR(c, own)}) > 1

-----------------------------------------------------------------------------
(* The build controller *)

buildEnv == <<fixed, members, pr, behind, sw>>

(* getIntegrationTestStatusFromBuildPLR                                    *)
StatusFromBuild(p) ==
  LET status == CASE p.state = "running" -> "BuildPLRInProgress"
                  [] p.state = "failed" -> "BuildPLRFailed"
                  [] p.state \in {"succeeded", "signed"} /\ p.refused /\ ~p.named -> "SnapshotCreationFailed"
                  [] OTHER -> "none"
  IN  IF status = p.report THEN "none" ELSE status

MutantReportsOnce(p) == IF p.listed THEN p.report # "SnapshotCreated" ELSE p.report = "none" /\ StatusFromBuild(p) # "none"

MustReport(p) == IF p.listed THEN p.report # "SnapshotCreated" ELSE StatusFromBuild(p) # "none"

MustCreate(p) == p.state = "signed" /\ ~(IF model = "application" THEN p.named ELSE p.listed)

MutantSupersedesAlways(done, b, p) ==
  LET pc == CASE done = "group" /\ MustReport(p) -> "report"
              [] done \in {"group", "report"} /\ MustCreate(p) -> "snapshot"
              [] OTHER -> "supersede"
  IN  bw' = [pc |-> pc, b |-> b, p |-> p]

(* The operations run in this order on the worker's copy p of the build;   *)
(* one that has nothing to do is passed over.                              *)
BNext(done, b, p) ==
  LET pc == CASE done = "group" /\ MustReport(p) -> "report"
              [] done \in {"group", "report"} /\ MustCreate(p) -> "snapshot"
              [] done \in {"group", "report", "snapshot", "name"} /\ ~Finished(p) -> "supersede"
              [] OTHER -> "idle"
  IN  bw' = IF pc = "idle" THEN IdleB ELSE [pc |-> pc, b |-> b, p |-> p]

(* RequeueWithError                                                        *)
BRequeue(b, p, s) ==
  /\ Disturb("fault")
  /\ bw' = IdleB
  /\ plr' = p /\ snap' = s /\ Observe(p, s, behind, toBuild \cup {b}, toSnap)

(* notifySnapshotsInGroupAboutBuild: the latest Snapshot of each component *)
(* is annotated, and then the other components' unfinished builds.         *)
Notified(b) ==
  IF IsLatest(b)
  THEN [snaps |-> {LatestSnapshot(c) : c \in ComponentsFromSnapshots},
        plrs |-> {a \in GroupBuilds : ~Finished(seen.plr[a]) /\ ComponentOf[a] # ComponentOf[b]}]
  ELSE [snaps |-> {}, plrs |-> {}]

Noted(objects, which, msg) ==
  [o \in DOMAIN objects |-> IF o \in which THEN [objects[o] EXCEPT !.note = msg] ELSE objects[o]]

(* addPRGroupToBuildPLRMetadata                                            *)
Grouped(p) == [p EXCEPT !.grouped = TRUE]

(* A reconcile reads the build and starts with EnsurePRGroupAnnotated.  A  *)
(* patch returns the present object, which replaces the worker's copy.  An *)
(* error ends the notification early.                                      *)
EnsurePRGroupAnnotated(b) ==
  LET read == seen.plr[b]
      base == IF read.grouped THEN plr ELSE [plr EXCEPT ![b] = Grouped(@)]
      p == IF read.grouped THEN read ELSE base[b]
      msg == IF read.grouped THEN "failed" ELSE "waiting"
      notify == IF read.grouped THEN read.state = "failed" ELSE ~Finished(p)
      to == IF notify THEN Notified(b) ELSE [snaps |-> {}, plrs |-> {}]
      newPlr == Noted(base, to.plrs, msg)
      newSnap == Noted(snap, to.snaps, msg)
  IN  /\ bw.pc = "idle" /\ b \in toBuild
      /\ UNCHANGED <<buildEnv, provider>>
      /\ \/ /\ plr' = newPlr /\ snap' = newSnap
            /\ Observe(newPlr, newSnap, behind, toBuild \ {b}, toSnap)
            /\ BNext("group", b, p)
            /\ UNCHANGED left
         \/ ~read.grouped /\ BRequeue(b, plr, snap)
         \/ \E some \in SUBSET to.snaps : BRequeue(b, base, Noted(snap, some, msg))

(* reportIntegrationStatusAndHandleGroups: the scenarios of the component, *)
(* and those of the group when a group Snapshot is expected.               *)
Post(b, status) ==
  /\ shown' = [shown EXCEPT ![ComponentOf[b]] = [b |-> b, status |-> status]]
  /\ announced' = [announced EXCEPT ![b] = IF IsGroupSnapshotExpected(ComponentOf[b]) THEN "group" ELSE "component"]

(* The first of them has been posted when an error occurs.                 *)
PostPart(b, status) ==
  /\ shown' = [shown EXCEPT ![ComponentOf[b]] = [b |-> b, status |-> status]]
  /\ UNCHANGED announced

(* ReportIntegrationTestStatusAccordingToBuildPLR, after which the build   *)
(* is annotated.  An answer that a retry will not change counts as         *)
(* reported.                                                               *)
ReportStatus(b, status, annotate) ==
  \/ annotate /\ Post(b, status) /\ UNCHANGED left
  \/ annotate /\ Disturb("reject") /\ UNCHANGED provider
  \/ BRequeue(b, plr, snap) /\ (PostPart(b, status) \/ UNCHANGED provider)

(* EnsureIntegrationTestReportedToGitProvider.  An error of the list makes *)
(* the build one that is not the latest.                                   *)
EnsureReported ==
  LET b == bw.b
      status == IF bw.p.listed THEN "SnapshotCreated" ELSE StatusFromBuild(bw.p)
      new == [plr EXCEPT ![b].report = status]
      skip == BNext("report", bw.b, bw.p) /\ NoWrite(toBuild, toSnap) /\ UNCHANGED provider
      annotate == WritePlr(new, toBuild) /\ BNext("report", bw.b, new[b])
  IN  /\ bw.pc = "report"
      /\ UNCHANGED buildEnv
      /\ \/ Disturb("fault") /\ skip
         \/ ~IsLatest(b) /\ skip /\ UNCHANGED left
         \/ /\ IsLatest(b) /\ bw.p.listed
            /\ UNCHANGED provider
            /\ (annotate /\ UNCHANGED left) \/ BRequeue(bw.b, plr, snap)
         \/ /\ IsLatest(b) /\ ~bw.p.listed
            /\ ReportStatus(b, status, annotate)

(* CopySnapshotLabelsAndAnnotations: the note on a build is one of those   *)
(* that its Snapshot gets.                                                 *)
Copied(p) == [NoSnap EXCEPT !.made = TRUE, !.note = p.note]

(* EnsureSnapshotExists and EnsureSnapshotExistsApplication, of which      *)
(* BuildPipeline has the details.                                          *)
EnsureSnapshotExists ==
  LET b == bw.b
      refused == [plr EXCEPT ![b].refused = TRUE]
  IN  /\ bw.pc = "snapshot"
      /\ UNCHANGED <<buildEnv, provider>>
      /\ \/ /\ IF snap[b].made THEN NoWrite(toBuild, toSnap) ELSE WriteSnap([snap EXCEPT ![b] = Copied(bw.p)], toSnap)
            /\ bw' = [bw EXCEPT !.pc = "name"] /\ UNCHANGED left
         \/ /\ ~snap[b].made /\ Disturb("refuse")
            /\ WritePlr(refused, toBuild) /\ BNext("snapshot", bw.b, refused[b])
         \/ BRequeue(bw.b, plr, snap)

(* annotateBuildPipelineRunWithSnapshot                                    *)
NameSnapshot ==
  LET new == [plr EXCEPT ![bw.b].named = (model = "application"), ![bw.b].listed = TRUE]
  IN  /\ bw.pc = "name"
      /\ UNCHANGED <<buildEnv, provider>>
      /\ \/ WritePlr(new, toBuild) /\ BNext("name", bw.b, new[bw.b]) /\ UNCHANGED left
         \/ BRequeue(bw.b, plr, snap)

(* cancelAllPipelineRunsForSnapshot                                        *)
Stopped(x, known) == IF x.tests = "running" /\ known.tests = "running" THEN [x EXCEPT !.tests = "cancelled"] ELSE x

(* EnsureSupercededSnapshotsCanceled: for all Snapshots of the pull        *)
(* request, the tests of one without a verdict are cancelled, and then it  *)
(* is marked.  An error that lasts is only logged.                         *)
EnsureSuperseded ==
  LET old == PullSnapshots(ComponentOf[bw.b])
      stopped == [s \in Snapshots |-> IF s \in old /\ ~seen.snap[s].finished
                                      THEN Stopped(snap[s], seen.snap[s]) ELSE snap[s]]
      marked(S) == [s \in Snapshots |-> IF s \in S THEN [stopped[s] EXCEPT !.canceled = TRUE] ELSE stopped[s]]
  IN  /\ bw.pc = "supersede"
      /\ bw' = IdleB
      /\ UNCHANGED <<buildEnv, provider>>
      /\ \/ WriteSnap(marked(old), toSnap) /\ UNCHANGED left
         \/ \E s \in old : WriteSnap(marked(old \ {s}), toSnap) /\ Disturb("fault")

-----------------------------------------------------------------------------
(* The snapshot controller *)

snapEnv == <<fixed, pr, behind, bw, provider>>

SRequeue(s, new) ==
  /\ Disturb("fault")
  /\ sw' = IdleS
  /\ WriteSnap(new, toSnap \cup {s})
  /\ UNCHANGED members

MutantAnyNote(x) == x.note # "none"

(* An annotation that a new build wrote does not count.                    *)
HasPRGroupProcessed(x) == x.note \notin {"none", "waiting"}

(* What haveAllPipelineRunProcessedForPrGroup finds wrong with a build,    *)
(* and notes on Snapshot s.                                                *)
Complaint(b, s) ==
  CASE ~Finished(seen.plr[b]) -> "running"
    [] seen.plr[b].state = "failed" -> "failed"
    [] seen.plr[b].state \in {"succeeded", "signed"} /\ ~seen.plr[b].named /\ b # s -> "none"
    [] OTHER -> "ok"

(* prepareGroupSnapshot and prepareGroupSnapshotApplication: the latest    *)
(* Snapshot of every component whose pull request is open; the other       *)
(* components come from the Global Candidate List.                         *)
Infos(own) == {LatestSnapshot(c) : c \in {d \in ComponentsFromSnapshots : HasOpenedPR(d, own)}}

TooFew(own) == IF enforced THEN Infos(own) = {} ELSE Cardinality(Infos(own)) < 2

(* The start of EnsureGroupSnapshotExist: what comes next, and the note    *)
(* (if not "none") that the Snapshot gets.  The first build found wrong    *)
(* decides; one that has no Snapshot yet leaves no note.                   *)
GroupDecisions(s) ==
  LET complaints == {Complaint(b, s) : b \in LatestBuilds} \ {"ok"}
  IN  IF s \in Groups \/ HasPRGroupProcessed(seen.snap[s]) \/ seen.snap[s].canceled THEN {<<"tests", "none">>}
      ELSE IF complaints # {} THEN {<<"tests", note>> : note \in complaints}
      ELSE IF TooFew(ComponentOf[s]) THEN {<<"tests", "few">>}
      ELSE {<<"create", "none">>}

SStart(s) ==
  /\ sw.pc = "idle" /\ s \in toSnap
  /\ UNCHANGED snapEnv
  /\ \/ \E d \in GroupDecisions(s) :
          LET new == IF d[2] = "none" THEN snap ELSE [snap EXCEPT ![s].note = d[2]]
          IN  /\ WriteSnap(new, toSnap \ {s})
              /\ sw' = [pc |-> d[1], s |-> s, msg |-> "none",
                        finished |-> IF d[2] = "none" THEN seen.snap[s].finished ELSE snap[s].finished,
                        infos |-> IF d[1] = "create" THEN Infos(ComponentOf[s]) ELSE {}]
              /\ UNCHANGED <<members, left>>
     \/ s \in Builds /\ SRequeue(s, snap)

Unmade == {g \in Groups : ~snap[g].made}

CreateGroupSnapshot ==
  LET g == Min(Unmade)
  IN  /\ sw.pc = "create"
      /\ UNCHANGED snapEnv
      /\ \/ /\ Unmade # {}
            /\ WriteSnap([snap EXCEPT ![g].made = TRUE], toSnap)
            /\ members' = [members EXCEPT ![g] = sw.infos]
            /\ sw' = [sw EXCEPT !.pc = "notify", !.msg = "created"]
            /\ UNCHANGED left
         \/ /\ Disturb("refuse")               \* Forbidden
            /\ sw' = [sw EXCEPT !.pc = "notify", !.msg = "forbidden"]
            /\ NoWrite(toBuild, toSnap) /\ UNCHANGED members
         \/ SRequeue(sw.s, snap)

(* NotifyComponentSnapshotsInGroupSnapshot                                 *)
NotifyMembers ==
  /\ sw.pc = "notify"
  /\ UNCHANGED snapEnv
  /\ \/ /\ WriteSnap(Noted(snap, sw.infos, sw.msg), toSnap)
        /\ sw' = IF sw.msg = "created" THEN [sw EXCEPT !.pc = "tests", !.msg = "none", !.infos = {}] ELSE IdleS
        /\ UNCHANGED <<members, left>>
     \/ \E some \in SUBSET sw.infos : some # sw.infos /\ SRequeue(sw.s, Noted(snap, some, sw.msg))

MutantGroupsAlone(s) == IF s \in Builds THEN ComponentSnapshots(ComponentOf[s]) ELSE {s}

(* getSortedPRSnapshotsForSupersession                                     *)
Rivals(s) ==
  IF s \in Builds THEN ComponentSnapshots(ComponentOf[s]) ELSE GroupSnapshots

(* isSnapshotSupersededInPRGroup                                           *)
IsSuperseded(s) == Rivals(s) # {} /\ Max(Rivals(s)) # s

(* checkAndCancelOldSnapshotsPipelineRun: all but the newest one.          *)
OldSnapshots(s) == {t \in Rivals(s) : t # Max(Rivals(s)) /\ ~seen.snap[t].canceled}

(* EnsureIntegrationPipelineRunsExist, of which SnapshotTesting has the    *)
(* details: the tests are started unless a newer Snapshot exists.          *)
EnsureTests ==
  LET s == sw.s
  IN  /\ sw.pc = "tests"
      /\ UNCHANGED <<snapEnv, members, left>>
      /\ sw' = IF sw.finished \/ OldSnapshots(s) = {} THEN IdleS ELSE [sw EXCEPT !.pc = "old"]
      /\ IF sw.finished \/ IsSuperseded(s) \/ snap[s].tests # "none" THEN NoWrite(toBuild, toSnap)
         ELSE WriteSnap([snap EXCEPT ![s].tests = "running"], toSnap)

(* The older Snapshots are marked, and after each mark its tests are       *)
(* cancelled.  The first error ends the loop and is only logged.           *)
CancelOld ==
  LET old == OldSnapshots(sw.s)
      cancel(S, T) == [s \in Snapshots |->
                         LET marked == IF s \in S THEN [snap[s] EXCEPT !.canceled = TRUE] ELSE snap[s]
                         IN  IF s \in T THEN Stopped(marked, seen.snap[s]) ELSE marked]
  IN  /\ sw.pc = "old"
      /\ sw' = IdleS
      /\ UNCHANGED <<snapEnv, members>>
      /\ \/ WriteSnap(cancel(old, old), toSnap) /\ UNCHANGED left
         \/ \E t \in old : WriteSnap(cancel({t}, {}), toSnap) /\ Disturb("fault")

-----------------------------------------------------------------------------
GroupInit ==
  /\ model \in {"application", "componentgroup"} /\ enforced \in BOOLEAN
  /\ plr = [b \in Builds |-> NoPlr]
  /\ snap = [s \in Snapshots |-> NoSnap]
  /\ members = [g \in Groups |-> {}]
  /\ pr = [c \in Components |-> "open"]
  /\ seen = [plr |-> plr, snap |-> snap] /\ behind = {}
  /\ toBuild = {} /\ toSnap = {}
  /\ bw = IdleB /\ sw = IdleS
  /\ shown = [c \in Components |-> [b |-> 0, status |-> "none"]]
  /\ announced = [b \in Builds |-> "no"]
  /\ plan \in Budgets /\ left = plan

BuildStep ==
  \/ \E b \in Builds : EnsurePRGroupAnnotated(b)
  \/ EnsureReported \/ EnsureSnapshotExists \/ NameSnapshot \/ EnsureSuperseded

SnapshotStep ==
  \/ \E s \in Snapshots : SStart(s)
  \/ CreateGroupSnapshot \/ NotifyMembers \/ EnsureTests \/ CancelOld

GroupNext ==
  \/ \E b \in Builds : StartBuild(b) \/ EndBuild(b) \/ Sign(b) \/ Progress(b)
  \/ \E c \in Components : ClosePR(c)
  \/ \E s \in Snapshots : TestsEnd(s)
  \/ \E k \in {"plr", "snap"} : FallBehind(k)
  \/ CatchUp \/ Restart \/ BuildStep \/ SnapshotStep

-----------------------------------------------------------------------------
AtRest ==
  /\ bw.pc = "idle" /\ sw.pc = "idle" /\ behind = {} /\ toBuild = {} /\ toSnap = {}
  /\ \A b \in Builds : plr[b].state \notin {"running", "succeeded"}

(* In behaviours without the disturbances ds.                              *)
Without(ds) == \A d \in ds : plan[d] = 0

Built == {c \in Components : \E b \in BuildsOf(c) : plr[b].state # "none"}

Newest(c) == Max({b \in BuildsOf(c) : plr[b].state # "none"})

LiveGroups == {g \in Groups : snap[g].made /\ ~snap[g].canceled}

(* When the builds of several components of an Application all succeeded   *)
(* and got their Snapshots, and the pull requests are open, there is in    *)
(* the end a group Snapshot of the newest ones that is not canceled:       *)
(* although the last Snapshot may have been processed while another build  *)
(* was unfinished, someone has noticed the last one (notification by the   *)
(* builds, HasPRGroupProcessed, EnsureGroupSnapshotExist).                 *)
GroupAtRest ==
  (/\ AtRest /\ Without({"fault", "crash", "lag", "overlap"})
   /\ model = "application" /\ Cardinality(Built) > 1
   /\ \A b \in Builds : plr[b].state = "none" \/ snap[b].made
   /\ \A c \in Components : pr[c] = "open"
   /\ \A b \in Builds : snap[b].note # "forbidden") =>
     \E g \in LiveGroups : members[g] = {Newest(c) : c \in Built}

(* Of the group Snapshots that were created for a PR group at most one is  *)
(* not canceled in the end, faults, restarts and stale caches or not       *)
(* (checkAndCancelOldSnapshotsPipelineRun).                                *)
OneLiveGroup == AtRest => Cardinality(LiveGroups) <= 1

(* A component Snapshot is only canceled for a newer build of its          *)
(* component, unless builds of a component overlap                         *)
(* (EnsureSupercededSnapshotsCanceled).                                    *)
CanceledForNewer ==
  Without({"overlap"}) =>
    \A b \in Builds : snap[b].canceled =>
      \E a \in BuildsOf(ComponentOf[b]) : a > b /\ plr[a].state # "none"

(* In the end a pull request shows that its newest build failed, or that   *)
(* no Snapshot could be created for it, whatever was shown before and even *)
(* after a restart (EnsureIntegrationTestReportedToGitProvider).           *)
FailureShown ==
  (AtRest /\ Without({"fault", "reject"})) =>
    \A c \in Built :
      LET b == Newest(c) IN
      /\ plr[b].state = "failed" => shown[c] = [b |-> b, status |-> "BuildPLRFailed"]
      /\ plr[b].refused => shown[c] = [b |-> b, status |-> "SnapshotCreationFailed"]

(* Some pull request of a group Snapshot was told by its build that tests  *)
(* of the group would follow, so that not all of them can be merged        *)
(* without these tests (isGroupSnapshotExpectedForBuildPLR).               *)
GroupAnnounced ==
  Without({"lag", "close"}) =>
    \A g \in Groups : snap[g].made => \E b \in members[g] : announced[b] # "component"

(* The pull requests of a PR group are told what they have to wait for and *)
(* what failed.                                                            *)
PullRequestsTold == FailureShown /\ GroupAnnounced
=============================================================================
