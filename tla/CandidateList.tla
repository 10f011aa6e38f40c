---------------------------- MODULE CandidateList ----------------------------
(***************************************************************************)
(* The Global Candidate Lists of ComponentGroups and their three writers:  *)
(* the build controller, which promotes the image of a build, the snapshot *)
(* controller, which applies an override Snapshot, and the componentgroup  *)
(* controller, which aligns the list with spec.components.                 *)
(*                                                                         *)
(* A writer reads a ComponentGroup from its informer cache and patches the *)
(* whole list with the resourceVersion it read; the API server refuses the *)
(* patch when the version is not the current one, and the writer reads     *)
(* again (retry.RetryOnConflict).  view[w][g] is what writer w last read,  *)
(* so a cache that lags is a view that is not refreshed; g is in fresh[w]  *)
(* as long as no one has written a newer version of g.                     *)
(***************************************************************************)
EXTENDS Naturals, FiniteSets

CONSTANTS
  Groups, Components,
  Builds, Overrides,   \* builds and override Snapshots, named by their images
  NoImage,
  BuildOf,             \* the component of a build
  Latest               \* builds start at times 1 .. Latest

Writers == {"build", "override", "align"}

Images == Builds \cup Overrides

ASSUME ListAssumption ==
  /\ BuildOf \in [Builds -> Components]
  /\ NoImage \notin Images /\ Builds \cap Overrides = {}
  /\ Latest \in Nat

VARIABLES
  start,    \* the start time of each build (never changes)
  group,    \* the ComponentGroups on the API server
  view,     \* the ComponentGroups as each writer last read them
  fresh,    \* the groups whose resourceVersion a writer has is the current one
  toAlign   \* groups queued for the componentgroup controller

listVars == <<start, group, view, fresh, toAlign>>

-----------------------------------------------------------------------------
(* A candidate (ComponentState); time 0 stands for the nil time of an      *)
(* entry that no build has filled yet.                                     *)
ComponentState == [image: Images \cup {NoImage}, time: 0 .. Latest]

Blank == [image |-> NoImage, time |-> 0]

CandidateLists == UNION {[S -> ComponentState] : S \in SUBSET Components}

ComponentGroups == [spec: SUBSET Components, list: CandidateLists]

ListTypeOK ==
  /\ start \in [Builds -> 1 .. Latest]
  /\ group \in [Groups -> ComponentGroups]
  /\ view \in [Writers -> [Groups -> ComponentGroups]]
  /\ fresh \in [Writers -> SUBSET Groups]
  /\ toAlign \subseteq Groups

(* Does the optimistic lock of a patch by writer w hold?                   *)
Current(w, g) == g \in fresh[w]

(* A new version of g, written by w, or by someone who is not a writer.    *)
NewVersion(w, g, new) ==
  /\ group' = [group EXCEPT ![g] = new]
  /\ view' = [v \in Writers |-> IF v = w THEN [view[v] EXCEPT ![g] = new] ELSE view[v]]
  /\ fresh' = [v \in Writers |-> IF v = w THEN fresh[v] \cup {g} ELSE fresh[v] \ {g}]

MutantNoLock(w, g, list) ==
  IF list = group[g].list THEN UNCHANGED <<group, view, fresh>>
  ELSE NewVersion(w, g, [group[g] EXCEPT !.list = list])

(* Status().Patch with MergeFromWithOptimisticLock.  A patch that changes  *)
(* nothing leaves the version alone.                                       *)
PatchList(w, g, list) ==
  /\ Current(w, g)
  /\ IF list = group[g].list THEN UNCHANGED <<group, view, fresh>>
     ELSE NewVersion(w, g, [group[g] EXCEPT !.list = list])

(* The informer cache of a writer catches up.                              *)
Refresh(w, g) ==
  /\ ~Current(w, g)
  /\ view' = [view EXCEPT ![w][g] = group[g]]
  /\ fresh' = [fresh EXCEPT ![w] = @ \cup {g}]
  /\ UNCHANGED <<start, group, toAlign>>

(* A user edits spec.components; the predicate of the componentgroup       *)
(* controller accepts the change.                                          *)
EditSpec(g, S) ==
  /\ S # group[g].spec
  /\ NewVersion("user", g, [group[g] EXCEPT !.spec = S])
  /\ toAlign' = toAlign \cup {g}
  /\ UNCHANGED start

(* The service restarts: its caches are filled again, and every group is   *)
(* queued by its Create event.                                             *)
Restart ==
  /\ view' = [w \in Writers |-> group]
  /\ fresh' = [w \in Writers |-> Groups]
  /\ toAlign' = Groups
  /\ UNCHANGED <<start, group>>

-----------------------------------------------------------------------------
(* The componentgroup controller *)

MutantNeverRemoves(cg) ==
  [c \in cg.spec \cup DOMAIN cg.list |-> IF c \in DOMAIN cg.list THEN cg.list[c] ELSE Blank]

AlignedList(cg) ==
  [c \in cg.spec |-> IF c \in DOMAIN cg.list THEN cg.list[c] ELSE Blank]

(* EnsureGCLAlignedWithSpecComponents.  After five conflicts, or another   *)
(* error, the reconcile is requeued, which changes nothing here.           *)
Align(g) ==
  /\ g \in toAlign
  /\ PatchList("align", g, AlignedList(view["align"][g]))
  /\ toAlign' = toAlign \ {g}
  /\ UNCHANGED start

-----------------------------------------------------------------------------
(* The build controller *)

MutantPromoteOlder(cg, b) ==
  IF BuildOf[b] \notin DOMAIN cg.list THEN "notfound" ELSE "promoted"

(* What UpdateGCLEntry does with the copy cg of a group.  The comparison   *)
(* with an identical entry compares pointers, so it never ends the call;   *)
(* promoting the same build again is a patch that changes nothing.         *)
EntryOutcome(cg, b) ==
  IF BuildOf[b] \notin DOMAIN cg.list THEN "notfound"
  ELSE IF start[b] < cg.list[BuildOf[b]].time THEN "refused"
  ELSE "promoted"

UpdateGCLEntry(b, g) ==
  LET cg == view["build"][g]
  IN  /\ EntryOutcome(cg, b) = "promoted"
      /\ PatchList("build", g,
           [cg.list EXCEPT ![BuildOf[b]] = [image |-> b, time |-> start[b]]])

PromoteBuild(b, g) ==
  /\ UpdateGCLEntry(b, g)
  /\ UNCHANGED <<start, toAlign>>

-----------------------------------------------------------------------------
(* The snapshot controller *)

(* UpdateMultipleGCLEntries with the components S of override Snapshot o:  *)
(* the entries keep their build times.                                     *)
OverriddenList(cg, o, S) ==
  [c \in DOMAIN cg.list |->
     IF c \in S THEN [image |-> o, time |-> cg.list[c].time] ELSE cg.list[c]]

OverrideList(o, g, S) ==
  /\ PatchList("override", g, OverriddenList(view["override"][g], o, S))
  /\ UNCHANGED <<start, toAlign>>

-----------------------------------------------------------------------------
(* Some groups are new: their lists are empty and they are queued for      *)
(* alignment.  The other lists are aligned and wait for their first build. *)
ListInit ==
  \E S \in [Groups -> SUBSET Components], new \in SUBSET Groups :
    LET created == [g \in Groups |->
                      [spec |-> S[g],
                       list |-> [c \in (IF g \in new THEN {} ELSE S[g]) |-> Blank]]]
    IN  /\ start \in [Builds -> 1 .. Latest]
        /\ group = created
        /\ view = [w \in Writers |-> created]
        /\ fresh = [w \in Writers |-> Groups]
        /\ toAlign = new

ListNext ==
  \/ Restart
  \/ \E g \in Groups :
    \/ \E w \in Writers : Refresh(w, g)
    \/ \E S \in SUBSET Components : EditSpec(g, S)
    \/ Align(g)
    \/ \E b \in Builds : PromoteBuild(b, g)
    \/ \E o \in Overrides, S \in SUBSET Components : OverrideList(o, g, S)

ListSpec == ListInit /\ [][ListNext]_listVars

Register == INSTANCE CandidateRegister
              WITH reg <- [g \in Groups |-> group[g].list], Times <- 1 .. Latest

(* The lists, with their three writers that read stale caches, implement   *)
(* the register: an older build never replaces the candidate of a newer    *)
(* one, and no writer undoes what another one wrote.                       *)
ImplementsRegister == Register!RegSpec

(* A copy with the current version is the current object, so the lock is   *)
(* enough to make a writer's read and its patch one atomic step.           *)
LockIsEnough ==
  \A w \in Writers : \A g \in fresh[w] : view[w][g] = group[g]

(* Once a group is aligned its list has exactly the components of its      *)
(* spec, although other writers wrote lists of their own meanwhile.        *)
AlignedWithSpec ==
  \A g \in Groups : g \notin toAlign => DOMAIN group[g].list = group[g].spec
=============================================================================
