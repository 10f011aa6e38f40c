------------------------------- MODULE Releases -------------------------------
(***************************************************************************)
(* What becomes of a tested Snapshot: the snapshot controller releases it   *)
(* to the ReleasePlans (EnsureAllReleasesExist) and creates the Snapshots   *)
(* of the ComponentGroups its group is nested in (EnsureParentSnapshots-    *)
(* Exist), while the garbage collector deletes Snapshots.                   *)
(*                                                                          *)
(* Builds and users create the first Snapshots; the others are parent       *)
(* Snapshots, of kind "free" until they are created.  The tests themselves (SnapshotTesting), group         *)
(* Snapshots (PullRequestGroup) and candidate lists (CandidateList) have    *)
(* modules of their own.  The conditions of a Snapshot are one list, which  *)
(* a merge patch replaces as a whole.                                       *)
(***************************************************************************)
EXTENDS SnapshotGC

CONSTANTS
  MaxSnapshots,
  Groups, Components, Plans,
  StartTimes,              \* build start times; 0 is a missing annotation
  SecondsMax, Scale,       \* times up to SecondsMax are in seconds, of Scale units
  KeepPr, KeepNonPr, KeepPerComponent   \* the flags of the garbage collector

Snapshots == 1 .. MaxSnapshots

ASSUME ReleaseAssumption ==
  /\ MaxSnapshots \in Nat
  /\ StartTimes \subseteq Nat /\ SecondsMax \in Nat /\ Scale \in Nat
  /\ {KeepPr, KeepNonPr, KeepPerComponent} \subseteq Nat

Disturbances == {"fault", "lost", "crash", "lag", "age", "gc", "overlap", "tests"}

VARIABLES
  snap,     \* the Snapshots on the API server
  rel,      \* the Releases
  gate,     \* what each ReleasePlan says about automatic releases (never changes)
  nest,     \* the ComponentGroups that contain a group (never changes)
  seen,     \* the Snapshots, and the Releases, in the informer caches
  seenRel,
  stale,    \* the caches that do not follow
  queue,    \* Snapshots queued for the snapshot controller
  w,        \* its worker
  gc,       \* the garbage collector
  plan,     \* the disturbances this behaviour may meet (never changes)
  left      \* how many of them are left

vars == <<snap, rel, gate, nest, seen, seenRel, stale, queue, w, gc, plan, left>>

Gates == {"label", "off", "always", "component", "broken"}

(* made = 0: not created yet.  The pull request image in a Snapshot        *)
(* ("unmerged") is all that the properties tell of its contents.           *)
Conditions == [verdict: {"none", "pass", "fail"}, status: {"none", "finished", "invalid", "error"},
               auto: {"none", "released", "superseded", "noplans"}, done: BOOLEAN]
NoConditions == [verdict |-> "none", status |-> "none", auto |-> "none", done |-> FALSE]

Idle == [pc |-> "idle", s |-> 0]

Alive(x) == x.made > 0 /\ ~x.gone
Clock(S) == Cardinality({s \in Snapshots : S[s].made > 0})

Spend(d) == left[d] > 0 /\ left' = [left EXCEPT ![d] = @ - 1]
Without(D) == \A d \in D : plan[d] = 0

-----------------------------------------------------------------------------
(* Events.  A Snapshot is queued by its creation and by the verdict on its *)
(* tests, when they are in the cache.                                      *)
Awakened(old, new) ==
  {s \in Snapshots : /\ Alive(new[s])
                     /\ ~Alive(old[s]) \/ (old[s].cond.verdict = "none" /\ new[s].cond.verdict # "none")}

Requeued(also) == queue' = queue \cup also

Store(new, also) ==
  /\ snap' = new
  /\ IF "snapshots" \in stale THEN UNCHANGED seen /\ Requeued(also)
     ELSE seen' = new /\ Requeued(also \cup Awakened(seen, new))

StoreRel(new) ==
  /\ rel' = new
  /\ IF "releases" \in stale THEN UNCHANGED seenRel ELSE seenRel' = new

fixed == <<gate, nest, plan>>

FallBehind(k) ==
  /\ k \notin stale /\ Spend("lag")
  /\ stale' = stale \cup {k}
  /\ UNCHANGED <<snap, rel, seen, seenRel, queue, w, gc, fixed>>

CatchUp(k) ==
  /\ k \in stale
  /\ stale' = stale \ {k}
  /\ \/ /\ k = "snapshots" /\ seen' = snap /\ UNCHANGED seenRel
        /\ Requeued(Awakened(seen, snap))
     \/ k = "releases" /\ seenRel' = rel /\ UNCHANGED <<seen, queue>>
  /\ UNCHANGED <<snap, rel, w, gc, fixed, left>>

(* The service restarts: a Create event queues every Snapshot.             *)
Crash ==
  /\ Spend("crash")
  /\ w' = Idle /\ stale' = {} /\ seen' = snap /\ seenRel' = rel
  /\ queue' = {s \in Snapshots : Alive(snap[s])}
  /\ UNCHANGED <<snap, rel, gc, fixed>>

(* A build, or a user, creates Snapshot s.                                 *)
Arrive(s) ==
  /\ snap[s].made = 0 /\ snap[s].kind # "free"
  /\ Store([snap EXCEPT ![s].made = Clock(snap) + 1], {})
  /\ UNCHANGED <<rel, seenRel, stale, w, gc, fixed, left>>

(* The tests of s, which a reconcile of s has started, get their verdict.  *)
(* The statusreport controller records it while the worker is elsewhere,   *)
(* or creates the parent Snapshots of s.                                   *)
Tested(s, verdict) ==
  /\ Alive(snap[s]) /\ snap[s].cond.verdict = "none" /\ snap[s].cond.status # "invalid"
  /\ s \notin queue /\ Alive(seen[s])
  /\ w.s = s => w.pc \in {"parents", "record"} /\ left.overlap > 0
  /\ Spend("tests")
  /\ Store([snap EXCEPT ![s].cond.verdict = verdict, ![s].cond.status = "finished"], {})
  /\ UNCHANGED <<rel, seenRel, stale, w, gc, fixed>>

GrowOld(s) ==
  /\ Alive(snap[s]) /\ snap[s].age # "days" /\ Spend("age")
  /\ Store([snap EXCEPT ![s].age = IF @ = "young" THEN "hours" ELSE "days"], {})
  /\ UNCHANGED <<rel, seenRel, stale, w, gc, fixed>>

-----------------------------------------------------------------------------
(* The reconcile of a Snapshot.  w.me is the adapter's copy of it, which a *)
(* patch that succeeds replaces by the answer of the API server.           *)

End == w' = Idle
Failed == Store(snap, {w.s}) /\ End

Patch(cond, parents, pc) ==
  /\ Alive(snap[w.s])
  /\ LET new == [snap EXCEPT ![w.s].cond = cond, ![w.s].parents = @ \cup parents]
     IN  /\ Store(new, {})
         /\ w' = IF pc = "idle" THEN Idle ELSE [w EXCEPT !.pc = pc, !.me = new[w.s]]

(* A call about Snapshot w.s fails: it is gone, or the API server is ill.  *)
CallFails == IF Alive(snap[w.s]) THEN Spend("fault") ELSE UNCHANGED left

Begin(s) ==
  /\ w.pc = "idle" /\ s \in queue
  /\ queue' = queue \ {s}
  /\ w' = IF ~Alive(seen[s]) THEN Idle
          ELSE [pc |-> IF seen[s].kind = "override" /\ seen[s].cond.status # "invalid" /\ ~seen[s].valid
                       THEN "validate" ELSE "release",
                s |-> s, me |-> seen[s], missing |-> {}, msg |-> "none"]
  /\ UNCHANGED <<snap, rel, seen, seenRel, stale, gc, fixed, left>>

(* EnsureOverrideSnapshotValid *)
MarkInvalid ==
  /\ w.pc = "validate"
  /\ \/ Patch([w.me.cond EXCEPT !.status = "invalid"], {}, "release") /\ UNCHANGED left
     \/ CallFails /\ Failed
  /\ UNCHANGED <<rel, seenRel, stale, gc, fixed>>

IsPush(x) == x.event # "pull"

CanSnapshotBePromoted(x) ==
  /\ x.cond.verdict = "pass" /\ x.cond.status # "invalid"
  /\ IsPush(x) /\ ~x.off

ShouldProcessReleases(x) == CanSnapshotBePromoted(x) /\ x.cond.auto = "none"

(* A ReleasePlan with an auto-release expression (a CEL annotation) is     *)
(* asked that expression; the others follow SHOULD_RELEASE.                *)
Allows(p, x) ==
  CASE gate[p] = "label" -> x.should
    [] gate[p] = "always" -> TRUE
    [] gate[p] = "component" -> x.kind = "component" /\ x.comp \in Components
    [] OTHER -> FALSE

AutoReleasePlans(x) == {p \in Plans : Allows(p, x)}
PlansFail == \E p \in Plans : gate[p] = "broken"

Millis(t) == IF t <= SecondsMax THEN t * Scale ELSE t

Siblings(x) == {s \in Snapshots : /\ Alive(seen[s]) /\ seen[s].kind = "component"
                                  /\ seen[s].comp = x.comp /\ seen[s].group = x.group
                                  /\ IsPush(seen[s])}

MutantOlderByCreation(x) ==
  \E s \in Siblings(x) : seen[s].made > x.made

IsOlderThanLastBuild(x) ==
  /\ x.kind = "component" /\ x.start # 0
  /\ \E s \in Siblings(x) : seen[s].start # 0 /\ Millis(seen[s].start) > Millis(x.start)

MutantAlwaysMissing(x) == AutoReleasePlans(x)

(* The plans FindMatchingReleaseWithReleasePlan finds no Release for.      *)
MissingReleases(x) ==
  {p \in AutoReleasePlans(x) : ~\E r \in seenRel : r.snap = w.s /\ r.plan = p}

To(pc) == w' = [w EXCEPT !.pc = pc]

(* EnsureAllReleasesExist up to its first call that changes something.  A  *)
(* failure to list the sibling Snapshots counts as "not superseded".       *)
Decide ==
  /\ w.pc = "release"
  /\ \/ ~ShouldProcessReleases(w.me) /\ To("parents") /\ UNCHANGED left
     \/ /\ ShouldProcessReleases(w.me) /\ ~PlansFail
        /\ \/ /\ AutoReleasePlans(w.me) = {} /\ UNCHANGED left
              /\ w' = [w EXCEPT !.pc = "mark", !.msg = "noplans"]
           \/ /\ AutoReleasePlans(w.me) # {} /\ ~w.me.ignore /\ IsOlderThanLastBuild(w.me)
              /\ w' = [w EXCEPT !.pc = "mark", !.msg = "superseded"] /\ UNCHANGED left
           \/ /\ AutoReleasePlans(w.me) # {}
              /\ IF w.me.ignore \/ ~IsOlderThanLastBuild(w.me) THEN UNCHANGED left ELSE Spend("fault")
              /\ w' = [w EXCEPT !.pc = "create", !.missing = MissingReleases(w.me)]
  /\ UNCHANGED <<snap, rel, seen, seenRel, stale, queue, gc, fixed>>

MutantGivesUp ==
  /\ Store([snap EXCEPT ![w.s].cond = [w.me.cond EXCEPT !.status = "error"]], {})
  /\ End

(* handleReleaseError: the error is noted, and the Snapshot comes back     *)
(* unless it is older than three hours.                                    *)
HandleReleaseError ==
  LET old == snap[w.s].age # "young"
      pc == IF old THEN "parents" ELSE "idle"
  IN  \/ /\ Alive(snap[w.s])
         /\ LET new == [snap EXCEPT ![w.s].cond = [w.me.cond EXCEPT !.status = "error"]]
            IN  /\ Store(new, IF old THEN {} ELSE {w.s})
                /\ w' = IF old THEN [w EXCEPT !.pc = pc, !.me = new[w.s]] ELSE Idle
      \/ /\ Store(snap, IF old THEN {} ELSE {w.s})
         /\ w' = IF old THEN [w EXCEPT !.pc = pc] ELSE Idle

PlansError ==
  /\ w.pc = "release" /\ ShouldProcessReleases(w.me)
  /\ IF PlansFail THEN UNCHANGED left ELSE Spend("fault")
  /\ HandleReleaseError
  /\ UNCHANGED <<rel, seenRel, stale, gc, fixed>>

NewRelease(s, p) ==
  [snap |-> s, plan |-> p, n |-> Cardinality({r \in rel : r.snap = s /\ r.plan = p}), automated |-> FALSE]

(* createAutomatedRelease: the Release is created, then its status is      *)
(* patched.  A creation whose answer is lost is retried; the name is       *)
(* generated anew, so it does not collide.                                 *)
CreateRelease(p) ==
  /\ w.pc = "create" /\ p \in w.missing
  /\ LET first == NewRelease(w.s, p)
         again == [first EXCEPT !.n = @ + 1]
     IN  \/ /\ StoreRel(rel \cup {first}) /\ UNCHANGED left
            /\ w' = [w EXCEPT !.pc = "automate", !.missing = @ \ {p}, !.msg = first]
         \/ /\ StoreRel(rel \cup {first, again}) /\ Spend("lost")
            /\ w' = [w EXCEPT !.pc = "automate", !.missing = @ \ {p}, !.msg = again]
  /\ UNCHANGED <<snap, seen, stale, queue, gc, fixed>>

MarkAutomated ==
  /\ w.pc = "automate"
  /\ StoreRel((rel \ {w.msg}) \cup {[w.msg EXCEPT !.automated = TRUE]})
  /\ w' = [w EXCEPT !.pc = "create", !.msg = "none"]
  /\ UNCHANGED <<snap, seen, stale, queue, gc, fixed, left>>

(* The Releases cannot be listed, or one cannot be created or patched.     *)
ReleaseFails ==
  /\ w.pc \in {"create", "automate"} /\ (w.pc = "create" => w.missing # {})
  /\ Spend("fault")
  /\ HandleReleaseError
  /\ UNCHANGED <<rel, seenRel, stale, gc, fixed>>

Released ==
  /\ w.pc = "create" /\ w.missing = {}
  /\ w' = [w EXCEPT !.pc = "mark", !.msg = "released"]
  /\ UNCHANGED <<snap, rel, seen, seenRel, stale, queue, gc, fixed, left>>

MarkSnapshotAsAutoReleased ==
  /\ w.pc = "mark"
  /\ \/ Patch([w.me.cond EXCEPT !.auto = w.msg], {}, "parents") /\ UNCHANGED left
     \/ CallFails /\ Failed
  /\ UNCHANGED <<rel, seenRel, stale, gc, fixed>>

-----------------------------------------------------------------------------
(* EnsureParentSnapshotsExist.  w.me.parents grows in memory; the deferred *)
(* patch writes it on every way out.                                       *)

(* A parent Snapshot takes over the new images of a component or override  *)
(* Snapshot; of a Snapshot without a type label it takes none.  It has no  *)
(* labels of its own.                                                      *)
PrepareParentSnapshot(x, s, g) ==
  [x EXCEPT !.kind = "parent", !.event = "none", !.group = g, !.start = 0, !.should = TRUE,
            !.off = FALSE, !.ignore = FALSE, !.keep = "no", !.pr = "open", !.age = "young",
            !.made = Clock(snap) + 1, !.from = s, !.cond = NoConditions, !.parents = {},
            !.unmerged = x.unmerged /\ x.kind # "parent"]

Orphans == nest[w.me.group] \ w.me.parents

Free == {s \in Snapshots : snap[s].kind = "free"}

CreateParent(g) ==
  /\ w.pc = "parents" /\ ~w.me.cond.done /\ g \in Orphans
  /\ Free # {}
  /\ Store([snap EXCEPT ![Min(Free)] = PrepareParentSnapshot(w.me, w.s, g)], {})
  /\ w' = [w EXCEPT !.me.parents = @ \cup {g}]
  /\ UNCHANGED <<rel, seenRel, stale, gc, fixed, left>>

MutantParentNotRetried ==
  /\ w.pc = "parents" /\ ~w.me.cond.done /\ Spend("fault")
  /\ To("record")
  /\ UNCHANGED <<snap, rel, seen, seenRel, stale, queue, gc, fixed>>

(* The parent groups cannot be listed, or a Snapshot cannot be prepared or *)
(* created.  What was created is recorded.                                 *)
ParentFails ==
  /\ w.pc = "parents" /\ ~w.me.cond.done /\ Spend("fault")
  /\ IF Alive(snap[w.s]) /\ ~w.me.parents \subseteq snap[w.s].parents
     THEN Store([snap EXCEPT ![w.s].parents = @ \cup w.me.parents], {w.s})
     ELSE Store(snap, {w.s})
  /\ End
  /\ UNCHANGED <<rel, seenRel, stale, gc, fixed>>

NoParents ==
  /\ w.pc = "parents"
  /\ \/ w.me.cond.done /\ End
     \/ ~w.me.cond.done /\ Orphans = {} /\ To("record")
  /\ UNCHANGED <<snap, rel, seen, seenRel, stale, queue, gc, fixed, left>>

(* The deferred patch; its failure is only logged.                         *)
RecordParents ==
  /\ w.pc = "record"
  /\ \/ Patch([w.me.cond EXCEPT !.done = TRUE], w.me.parents, "idle") /\ UNCHANGED left
     \/ CallFails /\ End /\ UNCHANGED <<snap, seen, queue>>
  /\ UNCHANGED <<rel, seenRel, stale, gc, fixed>>

-----------------------------------------------------------------------------
(* The garbage collector reads from the API server.                        *)

GCReleases ==
  /\ gc.pc = "idle" /\ Spend("gc")
  /\ gc' = [gc EXCEPT !.pc = "list", !.released = {r.snap : r \in rel}]
  /\ UNCHANGED <<snap, rel, seen, seenRel, stale, queue, w, fixed>>

Named(S) == {[n |-> s, made |-> snap[s].made, kind |-> snap[s].kind, event |-> snap[s].event,
              comp |-> snap[s].comp, keep |-> snap[s].keep, pr |-> snap[s].pr, age |-> snap[s].age] : s \in S}

Candidates == {s \in Snapshots : Alive(snap[s])} \ gc.released

Chosen == {x.n : x \in CollectNamespace(Named(Candidates), Cardinality(gc.released),
                                        [pr |-> KeepPr, nonPr |-> KeepNonPr], KeepPerComponent)}

GCChoose ==
  /\ gc.pc = "list"
  /\ gc' = IF Chosen = {} THEN [gc EXCEPT !.pc = "idle", !.released = {}]
           ELSE [gc EXCEPT !.pc = "delete", !.todo = Chosen]
  /\ UNCHANGED <<snap, rel, seen, seenRel, stale, queue, w, fixed, left>>

GCDelete(s) ==
  /\ gc.pc = "delete" /\ s \in gc.todo
  /\ gc' = IF gc.todo = {s} THEN [pc |-> "idle", released |-> {}, todo |-> {}]
           ELSE [gc EXCEPT !.todo = @ \ {s}]
  /\ \/ Store([snap EXCEPT ![s].gone = TRUE], {}) /\ UNCHANGED left
     \/ Spend("fault") /\ UNCHANGED <<snap, seen, queue>>
  /\ UNCHANGED <<rel, seenRel, stale, w, fixed>>

-----------------------------------------------------------------------------
Kinds == [kind: {"component", "override", "parent"}, event: {"push", "pull", "none"},
          comp: Components, group: Groups, start: StartTimes \cup {0}, should: BOOLEAN,
          valid: BOOLEAN, off: BOOLEAN, ignore: BOOLEAN,
          keep: {"no", "true", "ttl", "bad"}, pr: {"open", "gone", "waiting"},
          age: {"young", "hours", "days"}]

NewSnapshot(k, made) ==
  [kind |-> k.kind, event |-> k.event, comp |-> k.comp, group |-> k.group, start |-> k.start,
   should |-> k.should, valid |-> k.valid, off |-> k.off, ignore |-> k.ignore, keep |-> k.keep,
   pr |-> k.pr, age |-> k.age, unmerged |-> k.event = "pull",
   made |-> made, gone |-> FALSE, from |-> 0, cond |-> NoConditions, parents |-> {}]

(* The Snapshots of kinds ks that others create; with "present" they are   *)
(* there already.                                                          *)
ReleaseInit(ks, present, gates, nesting, budget) ==
  /\ snap = [s \in Snapshots |->
               IF s <= Len(ks) THEN NewSnapshot(ks[s], IF present THEN s ELSE 0)
               ELSE [NewSnapshot(ks[1], 0) EXCEPT !.kind = "free"]]
  /\ rel = {} /\ seenRel = {}
  /\ gate = gates /\ nest = nesting
  /\ seen = snap /\ stale = {} /\ queue = {}
  /\ w = Idle
  /\ gc = [pc |-> "idle", released |-> {}, todo |-> {}]
  /\ plan = budget /\ left = budget

ReleaseNext ==
  \/ \E s \in Snapshots : \/ Arrive(s) \/ Begin(s) \/ GrowOld(s) \/ GCDelete(s)
                          \/ \E v \in {"pass", "fail"} : Tested(s, v)
  \/ \E k \in {"snapshots", "releases"} : FallBehind(k) \/ CatchUp(k)
  \/ Crash
  \/ MarkInvalid \/ Decide \/ PlansError \/ Released \/ MarkAutomated \/ ReleaseFails
  \/ \E p \in Plans : CreateRelease(p)
  \/ MarkSnapshotAsAutoReleased
  \/ \E g \in Groups : CreateParent(g)
  \/ ParentFails \/ NoParents \/ RecordParents
  \/ GCReleases \/ GCChoose

-----------------------------------------------------------------------------
(* The service has nothing left to do.                                     *)
AtRest == w.pc = "idle" /\ queue = {} /\ stale = {}

(* Builds of one component are released in the order in which they were    *)
(* started: once a Snapshot is released, none of an older build is,        *)
(* although builds end and tests pass in any order and the list of         *)
(* Snapshots is read long before the Release is created.  (Without the     *)
(* garbage collector, which may delete a Snapshot while it is released,    *)
(* and without a failure to list the Snapshots.)                           *)
InOrder(r) ==
  \A q \in rel : LET x == snap[r.snap]
                     y == snap[q.snap]
                 IN  ~ /\ x.kind = "component" /\ y.kind = "component" /\ ~x.ignore
                       /\ x.comp = y.comp /\ x.group = y.group /\ x.start # 0
                       /\ Millis(x.start) < Millis(y.start)
ReleasedInOrder ==
  [][Without({"fault", "gc"}) => \A r \in rel' \ rel : (\E q \in rel : q.snap = r.snap /\ q.plan = r.plan) \/ InOrder(r)]_vars

(* A Snapshot has one Release per ReleasePlan, and only if it may be       *)
(* promoted: retries after a failure in the middle of the list find the    *)
(* Releases that are there.                                                *)
OneReleasePerPlan ==
  /\ Without({"lag", "lost"}) =>
       \A q, r \in rel : q.snap = r.snap /\ q.plan = r.plan => q = r
  /\ \A r \in rel : CanSnapshotBePromoted([snap[r.snap] EXCEPT !.cond.status = "finished"])

(* When the service is at rest a Snapshot that may be promoted is marked:  *)
(* with Releases for all plans that want one, or as superseded, which then *)
(* a newer Snapshot is to blame for.  Only a Snapshot that was too old to  *)
(* be retried is left.                                                     *)
ReleasedAtRest ==
  Without({"overlap", "lag"}) /\ AtRest =>
    \A s \in Snapshots : LET x == snap[s] IN
      Alive(x) /\ CanSnapshotBePromoted(x) =>
        \/ x.cond.auto = "released" /\ \A p \in AutoReleasePlans(x) : \E r \in rel : r.snap = s /\ r.plan = p
        \/ x.cond.auto = "noplans" /\ AutoReleasePlans(x) = {}
        \/ x.cond.auto = "superseded" /\ \E t \in Snapshots : snap[t].made > 0 /\ Millis(snap[t].start) > Millis(x.start)
        \/ x.age # "young" /\ (plan.fault > 0 \/ PlansFail)

(* At rest every group that contains the group of a Snapshot has got its   *)
(* own Snapshot for it, and only one unless the record was lost.           *)
ParentsAtRest ==
  AtRest /\ Without({"lag", "overlap"}) =>
    \A s \in Snapshots : Alive(snap[s]) =>
      \A g \in nest[snap[s].group] :
        LET copies == {t \in Snapshots : snap[t].from = s /\ snap[t].group = g /\ snap[t].made > 0}
        IN  /\ copies # {}
            /\ Without({"fault", "crash"}) => Cardinality(copies) <= 1

(* The garbage collector never deletes a component Snapshot of a push      *)
(* unless as many newer ones of the component as the flag says are there   *)
(* after it, whatever was created and deleted while it ran.                *)
NewestKept ==
  \A s \in Snapshots :
    LET x == snap[s]
        newer == {t \in Snapshots : /\ Alive(snap[t]) /\ snap[t].made > x.made
                                    /\ snap[t].kind = "component" /\ snap[t].comp = x.comp
                                    /\ IsNonPrSnapshot(snap[t])}
    IN  x.gone /\ x.kind = "component" /\ IsNonPrSnapshot(x) => Cardinality(newer) >= KeepPerComponent

(* A Snapshot that nothing protects is kept exactly when those kept before *)
(* it (the annotated ones, the released ones and the newer ones) leave     *)
(* room for it, although the numbers to keep may be used up, or more than  *)
(* used up, before the loop starts.                                        *)
LimitsMet ==
  gc.pc = "list" =>
    LET all == Named(Candidates)
        Alike(x) == {y \in all : IsNonPrSnapshot(y) = IsNonPrSnapshot(x)}
        spared == Preserved({x \in all : ~Reserved(x)}, KeepPerComponent)
                    \cup {x \in all : Reserved(x) \/ (~IsNonPrSnapshot(x) /\ ExpectsGroup(x))}
        Before(x) == {y \in Alike(x) : y.n \notin Chosen /\ (Reserved(y) \/ y.made > x.made)}
        Room(x) == IF IsNonPrSnapshot(x) THEN KeepNonPr - Cardinality(gc.released) ELSE KeepPr
    IN  \A x \in all :
          x.n \in Chosen <=> x \notin spared /\ (CancelledOrMerged(x) \/ Cardinality(Before(x)) >= Room(x))

(* The garbage collector deletes what it must and nothing else.            *)
CollectorIsRight == NewestKept /\ LimitsMet

(* Recording the parent Snapshots in the status of a Snapshot leaves the   *)
(* verdict on its tests alone.                                             *)
VerdictKept ==
  [][\A s \in Snapshots : snap[s].cond.verdict # "none" => snap'[s].cond.verdict # "none"]_vars

=============================================================================
