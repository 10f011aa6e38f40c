------------------------- MODULE BuildSnapshotProofs -------------------------
(***************************************************************************)
(* The Snapshots of finished builds: the finalizer of a build protects its *)
(* output until a Snapshot has it, and without edits a build of one owner  *)
(* gets one Snapshot (EnsureSnapshotExists).                               *)
(***************************************************************************)
EXTENDS BuildProofs

-----------------------------------------------------------------------------
(* The finalizer *)

(* The copy of the reconcile in flight is an earlier state of its build.   *)
CopyIsPast ==
  wk.pc # "idle" =>
    LET p == plr[wk.b]
        q == wk.copy
    IN  /\ q.state # "gone"
        /\ q.state \in {"succeeded", "failed"} => p.state \in {q.state, "gone"}
        /\ q.signed => p.signed
        /\ q.deleting /\ q.state = "running" => p.early
        /\ q.names \subseteq p.names
        /\ q.single => p.single

(* A build that is deleted while it runs remembers it.                     *)
EarlyIsKept ==
  \A b \in Builds : /\ plr[b].deleting /\ plr[b].state = "running" => plr[b].early
                    /\ plr[b].early => plr[b].deleting

HasSnapshot(b) == \E g \in Owners : snaps[b][g] > 0

(* The annotations of a build name Snapshots that exist.                   *)
NamesExist ==
  \A b \in Builds : plr[b].names # {} \/ plr[b].single => HasSnapshot(b)

(* The operation creates Snapshots of signed builds only, and annotates    *)
(* the build with one that exists.                                         *)
InCreation ==
  /\ wk.pc \in {"existing", "create", "annotate", "append"} =>
       wk.copy.state = "succeeded" /\ wk.copy.signed
  /\ wk.pc \in {"existing", "annotate", "append"} => HasSnapshot(wk.b)

(* canRemoveFinalizer is only set where nothing is left to be protected.   *)
RemoveIsSafe ==
  /\ wk.pc \in {"finalize", "promote", "time", "mark", "decide", "create"} => ~wk.remove
  /\ wk.pc = "release" => wk.remove
  /\ wk.pc # "idle" /\ wk.remove =>
       LET p == plr[wk.b]
       IN  \/ p.state \in {"failed", "gone"}
           \/ p.early
           \/ p.signed /\ (p.status = "failed" \/ wk.err # "none" \/ HasSnapshot(wk.b))

GuardInv == CopyIsPast /\ EarlyIsKept /\ NamesExist /\ InCreation /\ RemoveIsSafe

(* What the environment may do to a build: end it, sign it or delete it.   *)
Later(p, q) ==
  /\ p.state # "running" => q.state \in {p.state, "gone"}
  /\ p.signed => q.signed
  /\ p.early => q.early
  /\ q.names = p.names /\ q.single = p.single /\ q.status = p.status
  /\ q.deleting /\ q.state = "running" => q.early
  /\ q.early => q.deleting

(* A step of the environment keeps what the reconcile relies on.           *)
LEMMA GuardKept ==
  ASSUME TypeOK, GuardInv, NEW b \in Builds, NEW new \in PipelineRuns, Later(plr[b], new),
         plr' = [plr EXCEPT ![b] = new], UNCHANGED <<snaps, wk>>
  PROVE  GuardInv'
  <1>1. \A a \in Builds : plr'[a] = IF a = b THEN new ELSE plr[a]
    BY DEF TypeOK
  <1>2. \A a \in Builds : HasSnapshot(a)' <=> HasSnapshot(a)
    BY DEF HasSnapshot
  <1>3. EarlyIsKept' /\ NamesExist'
    BY <1>1, <1>2 DEF GuardInv, EarlyIsKept, NamesExist, Later
  <1>4. wk.pc # "idle" => wk.b \in Builds /\ wk.copy \in PipelineRuns /\ plr[wk.b] \in PipelineRuns
    BY DEF TypeOK, Reconciles
  <1>5. CopyIsPast'
    BY <1>1, <1>4 DEF GuardInv, CopyIsPast, EarlyIsKept, Later, PipelineRuns
  <1>6. InCreation'
    BY <1>2, <1>4, ZenonT(30) DEF GuardInv, InCreation, TypeOK
  <1>7. RemoveIsSafe'
    BY <1>1, <1>2, <1>4 DEF GuardInv, RemoveIsSafe, Later, PipelineRuns
  <1> QED BY <1>3, <1>5, <1>6, <1>7 DEF GuardInv

(* Without a reconcile in flight only the builds matter.                   *)
LEMMA GuardIdle ==
  ASSUME GuardInv, wk'.pc = "idle", UNCHANGED snaps,
         \A b \in Builds : /\ plr'[b].names = plr[b].names /\ plr'[b].single = plr[b].single
                           /\ plr'[b].early = plr[b].early /\ plr'[b].deleting = plr[b].deleting
                           /\ plr'[b].state \in {plr[b].state, "gone"}
  PROVE  GuardInv'
  <1>1. EarlyIsKept' /\ NamesExist'
    BY DEF GuardInv, EarlyIsKept, NamesExist, HasSnapshot
  <1> QED BY <1>1 DEF GuardInv, CopyIsPast, InCreation, RemoveIsSafe

(* The reconcile goes on with the copy it has.                             *)
LEMMA GuardMove ==
  ASSUME GuardInv, wk.pc # "idle", wk'.b = wk.b, wk'.copy = wk.copy, UNCHANGED <<plr, snaps>>,
         InCreation', RemoveIsSafe'
  PROVE  GuardInv'
  BY DEF GuardInv, CopyIsPast, EarlyIsKept, NamesExist, HasSnapshot

(* The reconcile patches its build and goes on with the new object.        *)
LEMMA GuardPatch ==
  ASSUME TypeOK, GuardInv, wk.pc # "idle", plr[wk.b].state # "gone", NEW new \in PipelineRuns,
         plr' = [plr EXCEPT ![wk.b] = new], UNCHANGED snaps, wk'.b = wk.b, wk'.copy = new,
         new.state = plr[wk.b].state, new.deleting = plr[wk.b].deleting,
         new.early = plr[wk.b].early,
         new.names # {} \/ new.single => HasSnapshot(wk.b),
         InCreation', RemoveIsSafe'
  PROVE  GuardInv'
  <1>1. wk.b \in Builds
    BY DEF TypeOK
  <1>2. \A a \in Builds : plr'[a] = IF a = wk.b THEN new ELSE plr[a]
    BY DEF TypeOK
  <1>3. \A a \in Builds : HasSnapshot(a)' <=> HasSnapshot(a)
    BY DEF HasSnapshot
  <1>4. EarlyIsKept' /\ NamesExist'
    BY <1>1, <1>2, <1>3 DEF GuardInv, EarlyIsKept, NamesExist
  <1>5. CopyIsPast'
    BY <1>1, <1>2, <1>4 DEF CopyIsPast, EarlyIsKept
  <1> QED BY <1>4, <1>5 DEF GuardInv

(* The ways in which an operation ends early.                              *)
LEMMA GuardReturns ==
  ASSUME TypeOK, GuardInv, wk.pc # "idle"
  PROVE  /\ FailAndReturn => GuardInv'
         /\ \A again \in BOOLEAN : NotFound(again) => GuardInv'
         /\ FailToFinal => GuardInv'
         /\ GoneToFinal => GuardInv'
  <1>1. FailAndReturn => GuardInv'
    BY GuardIdle, IdleType DEF FailAndReturn, Return
  <1>2. ASSUME NEW again \in BOOLEAN, NotFound(again) PROVE GuardInv'
    BY <1>2, GuardIdle, IdleType DEF NotFound, Return
  <1>3. ASSUME ToFinal(wk.remove, "api"), UNCHANGED <<plr, snaps>> PROVE GuardInv'
    <2>1. /\ wk'.pc = "final" /\ wk'.remove = wk.remove /\ wk'.err = "api"
          /\ wk'.b = wk.b /\ wk'.copy = wk.copy
      BY <1>3 DEF ToFinal, TypeOK, Reconciles
    <2>2. InCreation' /\ RemoveIsSafe'
      BY <1>3, <2>1 DEF GuardInv, InCreation, RemoveIsSafe, HasSnapshot
    <2> QED BY <1>3, <2>1, <2>2, GuardMove
  <1> QED BY <1>1, <1>2, <1>3 DEF FailToFinal, GoneToFinal

(* Up to the decision the reconcile has not set canRemoveFinalizer.        *)
LEMMA GuardBefore ==
  ASSUME TypeOK, GuardInv, NEW pc \in {"promote", "time", "mark", "decide"},
         wk.pc \in {"finalize", "promote", "time", "mark"},
         wk'.pc = pc, wk'.remove = wk.remove, wk'.b = wk.b, wk'.copy = wk.copy,
         UNCHANGED <<plr, snaps>>
  PROVE  GuardInv'
  <1>1. InCreation' /\ RemoveIsSafe'
    BY DEF GuardInv, InCreation, RemoveIsSafe
  <1> QED BY <1>1, GuardMove

(* A patch before EnsureSnapshotExists has decided what to do changes only *)
(* the promotion's annotation and the finalizer's presence.                *)
LEMMA GuardBeforePatch ==
  ASSUME TypeOK, GuardInv, NEW pc \in {"promote", "time", "mark", "decide"},
         wk.pc \in {"finalize", "promote", "time", "mark"},
         NEW new \in PipelineRuns, Annotate(new, pc),
         NEW added \in {"none", "true", "false"}, NEW finalizer \in BOOLEAN,
         new = [plr[wk.b] EXCEPT !.added = added, !.finalizer = finalizer]
  PROVE  GuardInv'
  <1>1. /\ wk'.pc = pc /\ wk'.remove = wk.remove /\ wk'.b = wk.b /\ wk'.copy = new
        /\ plr' = [plr EXCEPT ![wk.b] = new] /\ UNCHANGED snaps /\ plr[wk.b].state # "gone"
    BY DEF Annotate, Update, TypeOK, Reconciles
  <1>2. wk.b \in Builds /\ plr[wk.b] \in PipelineRuns
    BY DEF TypeOK
  <1>3. /\ new.state = plr[wk.b].state /\ new.deleting = plr[wk.b].deleting
        /\ new.early = plr[wk.b].early /\ new.names = plr[wk.b].names
        /\ new.single = plr[wk.b].single
    BY <1>2 DEF PipelineRuns
  <1>4. InCreation' /\ RemoveIsSafe'
    BY <1>1 DEF GuardInv, InCreation, RemoveIsSafe
  <1>5. new.names # {} \/ new.single => HasSnapshot(wk.b)
    BY <1>2, <1>3 DEF GuardInv, NamesExist
  <1> QED BY <1>1, <1>3, <1>4, <1>5, GuardPatch, Zenon

(* From the decision on canRemoveFinalizer is set where it is safe.        *)
LEMMA GuardDecide ==
  ASSUME TypeOK, GuardInv, Decide
  PROVE  GuardInv'
  <1> DEFINE q == wk.copy
             p == plr[wk.b]
  <1>a. wk.pc = "decide" /\ ~wk.remove /\ UNCHANGED <<plr, snaps>>
    BY DEF Decide, GuardInv, RemoveIsSafe
  <1>b. wk.b \in Builds /\ p \in PipelineRuns /\ q \in PipelineRuns
    BY <1>a DEF TypeOK, Reconciles
  <1>c. wk'.b = wk.b /\ wk'.copy = wk.copy
    BY ZenonT(30) DEF Decide, ToFinal, TypeOK, Reconciles
  <1>1. ASSUME NEW remove, NEW err, ToFinal(remove, err),
               remove => \/ p.state \in {"failed", "gone"} \/ p.early
                         \/ p.signed /\ HasSnapshot(wk.b)
        PROVE  InCreation' /\ RemoveIsSafe'
    <2>1. wk'.pc = "final" /\ wk'.remove = remove
      BY <1>1 DEF ToFinal, TypeOK, Reconciles
    <2> QED BY <1>1, <1>a, <1>c, <2>1 DEF InCreation, RemoveIsSafe, HasSnapshot
  <1>2. CASE ~HasPipelineRunSucceeded(q) /\ ToFinal(HasPipelineRunFinished(q) \/ q.deleting, "none")
    <2>1. HasPipelineRunFinished(q) \/ q.deleting => p.state \in {"failed", "gone"} \/ p.early
      BY <1>2, <1>a, <1>b DEF GuardInv, CopyIsPast, HasPipelineRunSucceeded,
                              HasPipelineRunFinished, PipelineRuns
    <2> HIDE DEF q, p
    <2>2. InCreation' /\ RemoveIsSafe'
      BY <1>1, <1>2, <2>1, Zenon
    <2> QED BY <1>a, <1>c, <2>2, GuardMove
  <1>3. CASE \E err \in {"unsigned", "plain"} : ToFinal(FALSE, err)
    <2>1. InCreation' /\ RemoveIsSafe'
      BY <1>1, <1>3, ZenonT(30)
    <2> QED BY <1>a, <1>c, <2>1, GuardMove
  <1>4. CASE /\ HasPipelineRunSucceeded(q) /\ q.signed /\ AlreadyAnnotated(q)
             /\ ToFinal(TRUE, "none")
    <2>1. p.signed /\ HasSnapshot(wk.b)
      BY <1>4, <1>a, <1>b DEF GuardInv, CopyIsPast, NamesExist, AlreadyAnnotated, PipelineRuns
    <2>2. InCreation' /\ RemoveIsSafe'
      BY <1>1, <1>4, <2>1, Zenon
    <2> QED BY <1>a, <1>c, <2>2, GuardMove
  <1>5. CASE /\ HasPipelineRunSucceeded(q) /\ q.signed
             /\ wk' = [wk EXCEPT
                        !.pc = IF wk.owners = {} THEN "final"
                               ELSE IF AllHaveSnapshots THEN "existing" ELSE "create",
                        !.todo = wk.owners, !.err = "none"]
    <2>1. wk'.remove = wk.remove /\ wk'.pc \in {"final", "existing", "create"}
      BY <1>5 DEF TypeOK, Reconciles
    <2>2. wk'.pc = "existing" => wk.owners # {} /\ AllHaveSnapshots
      BY <1>5 DEF TypeOK, Reconciles
    <2>3. wk'.pc = "existing" => HasSnapshot(wk.b)
      BY <2>2 DEF AllHaveSnapshots, HasSnapshot, TypeOK, Reconciles
    <2>4. InCreation'
      BY <1>5, <1>a, <1>c, <2>1, <2>3 DEF InCreation, HasPipelineRunSucceeded, HasSnapshot
    <2>5. RemoveIsSafe'
      BY <1>a, <2>1 DEF RemoveIsSafe
    <2> QED BY <1>a, <1>c, <2>4, <2>5, GuardMove
  <1> QED BY <1>2, <1>3, <1>4, <1>5, Zenon DEF Decide

(* Adopting or creating a Snapshot is done for a build that is signed and  *)
(* succeeded, and leaves a Snapshot behind.                                *)
LEMMA GuardCreate ==
  ASSUME TypeOK, GuardInv, NEW g \in Owners, AdoptExisting(g) \/ CreateSnapshot(g)
  PROVE  GuardInv'
  <1>a. wk.pc \in {"existing", "create"} /\ g \in wk.todo
    BY Zenon DEF AdoptExisting, CreateSnapshot
  <1>b. wk.b \in Builds /\ plr[wk.b] \in PipelineRuns /\ wk.copy \in PipelineRuns
    BY <1>a DEF TypeOK, Reconciles
  <1>c. wk.copy.state = "succeeded" /\ wk.copy.signed /\ plr[wk.b].signed
    BY <1>a, <1>b DEF GuardInv, InCreation, CopyIsPast
  <1>1. ASSUME NEW pc \in Steps, wk.pc = "existing", pc \in {"annotate", "final", "existing"},
               wk' = [wk EXCEPT !.todo = @ \ {g}, !.now = g, !.remove = TRUE, !.pc = pc],
               UNCHANGED <<plr, snaps>>
        PROVE  GuardInv'
    <2>1. wk'.pc = pc /\ wk'.remove /\ wk'.b = wk.b /\ wk'.copy = wk.copy /\ wk'.err = wk.err
      BY <1>1 DEF TypeOK, Reconciles
    <2>2. HasSnapshot(wk.b)
      BY <1>1 DEF GuardInv, InCreation
    <2>3. InCreation' /\ RemoveIsSafe'
      BY <1>1, <1>c, <2>1, <2>2 DEF InCreation, RemoveIsSafe, HasSnapshot
    <2> QED BY <1>1, <1>a, <2>1, <2>3, GuardMove
  <1>2. CASE AdoptExisting(g)
    BY <1>1, <1>2, <1>a, GuardReturns, Zenon DEF AdoptExisting, Steps
  <1>3. ASSUME wk.pc = "create",
               snaps' = [snaps EXCEPT ![wk.b][g] = IF @ < MaxSnaps THEN @ + 1 ELSE @],
               wk' = [wk EXCEPT !.todo = @ \ {g}, !.now = g, !.pc = "annotate"],
               UNCHANGED plr
        PROVE  GuardInv'
    <2>1. wk'.pc = "annotate" /\ wk'.remove = wk.remove /\ wk'.b = wk.b /\ wk'.copy = wk.copy
      BY <1>3 DEF TypeOK, Reconciles
    <2>2. \A b \in Builds, h \in Owners : snaps[b][h] \in Nat /\ snaps'[b][h] >= snaps[b][h]
      BY <1>3, <1>b, BuildAssumption DEF TypeOK
    <2>3. snaps'[wk.b][g] > 0
      BY <1>3, <1>b, BuildAssumption DEF TypeOK
    <2>4. \A b \in Builds : HasSnapshot(b) => HasSnapshot(b)'
      <3> SUFFICES ASSUME NEW b \in Builds, NEW h \in Owners, snaps[b][h] > 0 PROVE snaps'[b][h] > 0
        BY DEF HasSnapshot
      <3>1. snaps'[b][h] \in Nat
        BY <1>3, <1>b, BuildAssumption, SMTT(30) DEF TypeOK
      <3> QED BY <2>2, <3>1
    <2>5. CopyIsPast' /\ EarlyIsKept'
      BY <1>3, <1>a, <2>1 DEF GuardInv, CopyIsPast, EarlyIsKept
    <2>6. NamesExist'
      BY <1>3, <2>4 DEF GuardInv, NamesExist
    <2>7. InCreation'
      BY <1>c, <2>1, <2>3 DEF InCreation, HasSnapshot
    <2>8. RemoveIsSafe'
      BY <1>3, <2>1 DEF GuardInv, RemoveIsSafe
    <2> QED BY <2>5, <2>6, <2>7, <2>8 DEF GuardInv
  <1>4. ASSUME wk.pc = "create", ToFinal(TRUE, "none"), UNCHANGED snaps,
               \/ /\ plr[wk.b].state # "gone"
                  /\ Update(wk.b, [plr[wk.b] EXCEPT !.status = "failed"], FALSE)
               \/ plr[wk.b].state = "gone" /\ UNCHANGED <<plr, queue>>
        PROVE  GuardInv'
    <2> DEFINE new == [plr[wk.b] EXCEPT !.status = "failed"]
    <2>1. wk'.pc = "final" /\ wk'.remove /\ wk'.b = wk.b /\ wk'.copy = wk.copy
      BY <1>4 DEF ToFinal, TypeOK, Reconciles
    <2>2. CASE plr[wk.b].state = "gone" /\ UNCHANGED <<plr, queue>>
      <3>1. InCreation' /\ RemoveIsSafe'
        BY <2>1, <2>2 DEF InCreation, RemoveIsSafe
      <3> QED BY <1>4, <1>a, <2>1, <2>2, <3>1, GuardMove
    <2>3. CASE plr[wk.b].state # "gone" /\ Update(wk.b, new, FALSE)
      <3>1. \A a \in Builds : plr'[a] = IF a = wk.b THEN new ELSE plr[a]
        BY <2>3 DEF Update, TypeOK
      <3>2. /\ new.signed = plr[wk.b].signed /\ new.state = plr[wk.b].state
            /\ new.deleting = plr[wk.b].deleting /\ new.early = plr[wk.b].early
            /\ new.names = plr[wk.b].names /\ new.single = plr[wk.b].single
            /\ new.status = "failed"
        BY <1>b, ZenonT(30) DEF PipelineRuns
      <3> HIDE DEF new
      <3>3. CopyIsPast' /\ EarlyIsKept'
        BY <1>a, <1>b, <2>1, <3>1, <3>2 DEF GuardInv, CopyIsPast, EarlyIsKept
      <3>4. NamesExist'
        BY <1>4, <1>b, <3>1, <3>2 DEF GuardInv, NamesExist, HasSnapshot
      <3>5. InCreation' /\ RemoveIsSafe'
        BY <1>b, <1>c, <2>1, <3>1, <3>2, Zenon DEF InCreation, RemoveIsSafe
      <3> QED BY <3>3, <3>4, <3>5 DEF GuardInv
    <2> QED BY <1>4, <2>2, <2>3, Zenon
  <1>5. ASSUME wk.pc = "create", ToFinal(TRUE, "plain"), UNCHANGED <<plr, snaps>>
        PROVE  GuardInv'
    <2>1. wk'.pc = "final" /\ wk'.remove /\ wk'.b = wk.b /\ wk'.copy = wk.copy /\ wk'.err = "plain"
      BY <1>5 DEF ToFinal, TypeOK, Reconciles
    <2>2. InCreation' /\ RemoveIsSafe'
      BY <1>5, <1>c, <2>1 DEF InCreation, RemoveIsSafe
    <2> QED BY <1>5, <1>a, <2>1, <2>2, GuardMove
  <1>6. CASE CreateSnapshot(g)
    BY <1>3, <1>4, <1>5, <1>6, <1>a, GuardReturns, Zenon DEF CreateSnapshot
  <1> QED BY <1>2, <1>6

(* annotateBuildPipelineRunWithSnapshot                                    *)
LEMMA GuardAnnotate ==
  ASSUME TypeOK, GuardInv, AnnotateSingle \/ AppendName
  PROVE  GuardInv'
  <1>a. wk.pc \in {"annotate", "append"}
    BY Zenon DEF AnnotateSingle, AppendName
  <1>b. wk.b \in Builds /\ plr[wk.b] \in PipelineRuns /\ wk.copy \in PipelineRuns /\ wk.now \in Owners
    BY <1>a DEF TypeOK, Reconciles
  <1>c. /\ plr[wk.b].state \in {"succeeded", "gone"} /\ plr[wk.b].signed /\ HasSnapshot(wk.b)
    BY <1>a, <1>b DEF GuardInv, InCreation, CopyIsPast
  <1>1. ASSUME NEW new \in PipelineRuns, NEW names \in SUBSET Owners, NEW single \in BOOLEAN,
               new = [plr[wk.b] EXCEPT !.names = names, !.single = single],
               plr' = [plr EXCEPT ![wk.b] = new], UNCHANGED snaps, plr[wk.b].state # "gone",
               wk'.b = wk.b, wk'.copy = new,
               wk'.pc = "create" => ~wk'.remove,
               wk'.pc \in {"append", "existing", "create", "final"}
        PROVE  GuardInv'
    <2>1. /\ new.state = plr[wk.b].state /\ new.deleting = plr[wk.b].deleting
          /\ new.early = plr[wk.b].early /\ new.signed = plr[wk.b].signed
      BY <1>1, <1>b DEF PipelineRuns
    <2>2. plr'[wk.b] = new
      BY <1>1, <1>b, Zenon DEF TypeOK
    <2>3. InCreation'
      BY <1>1, <1>c, <2>1 DEF InCreation, HasSnapshot
    <2>4. RemoveIsSafe'
      BY <1>1, <1>c, <2>1, <2>2 DEF RemoveIsSafe, HasSnapshot
    <2> QED BY <1>1, <1>a, <1>c, <2>1, <2>3, <2>4, GuardPatch, Zenon
  <1>2. CASE AnnotateSingle
    <2> DEFINE new == [plr[wk.b] EXCEPT !.single = TRUE]
    <2>1. ASSUME Annotate(new, "append") PROVE GuardInv'
      <3>1. /\ new \in PipelineRuns /\ plr[wk.b].names \in SUBSET Owners
            /\ new = [plr[wk.b] EXCEPT !.names = plr[wk.b].names, !.single = TRUE]
        BY <1>b, Zenon DEF PipelineRuns
      <3>2. /\ plr' = [plr EXCEPT ![wk.b] = new] /\ UNCHANGED snaps /\ plr[wk.b].state # "gone"
            /\ wk'.b = wk.b /\ wk'.copy = new /\ wk'.pc = "append"
        BY <2>1 DEF Annotate, Update, TypeOK, Reconciles
      <3> QED BY <1>1, <3>1, <3>2, Zenon
    <2> QED BY <1>2, <1>a, <2>1, GuardReturns DEF AnnotateSingle
  <1>3. CASE AppendName
    <2> DEFINE new == [plr[wk.b] EXCEPT !.names = @ \cup {wk.now}]
    <2>1. ASSUME plr[wk.b].state # "gone", Update(wk.b, new, FALSE), UNCHANGED snaps,
                 wk' = [wk EXCEPT !.copy = new, !.pc = AfterAnnotate, !.remove = @ \/ wk.todo = {}]
          PROVE  GuardInv'
      <3>1. /\ new \in PipelineRuns /\ plr[wk.b].single \in BOOLEAN
            /\ plr[wk.b].names \cup {wk.now} \in SUBSET Owners
            /\ new = [plr[wk.b] EXCEPT !.names = plr[wk.b].names \cup {wk.now},
                                       !.single = plr[wk.b].single]
        BY <1>b, Zenon DEF PipelineRuns
      <3>2. /\ plr' = [plr EXCEPT ![wk.b] = new] /\ wk'.b = wk.b /\ wk'.copy = new
            /\ wk'.pc = AfterAnnotate /\ wk'.remove = (wk.remove \/ wk.todo = {})
        BY <2>1 DEF Update, TypeOK, Reconciles
      <3>3. /\ wk'.pc \in {"append", "existing", "create", "final"}
            /\ wk'.pc = "create" => ~wk'.remove
        BY <3>2, Zenon DEF AfterAnnotate
      <3> HIDE DEF new
      <3> QED BY <1>1, <2>1, <3>1, <3>2, <3>3, Zenon
    <2> QED BY <1>3, <1>a, <2>1, GuardReturns, Zenon DEF AppendName
  <1> QED BY <1>2, <1>3

(* updateBuildPipelineRunWithFinalInfo                                     *)
LEMMA GuardFinal ==
  ASSUME TypeOK, GuardInv, FinalAnnotate \/ RemoveFinalizer
  PROVE  GuardInv'
  <1>a. wk.pc \in {"final", "release"}
    BY Zenon DEF FinalAnnotate, RemoveFinalizer
  <1>b. wk.b \in Builds /\ plr[wk.b] \in PipelineRuns
    BY <1>a DEF TypeOK
  <1>1. ASSUME NEW new \in PipelineRuns, NEW again, Update(wk.b, new, again), wk' = Idle,
               UNCHANGED snaps,
               new.names = plr[wk.b].names, new.single = plr[wk.b].single,
               new.early = plr[wk.b].early, new.deleting = plr[wk.b].deleting,
               new.state \in {plr[wk.b].state, "gone"}
        PROVE  GuardInv'
    <2>1. \A a \in Builds : plr'[a] = IF a = wk.b THEN new ELSE plr[a]
      BY <1>1 DEF Update, TypeOK
    <2> QED BY <1>1, <1>b, <2>1, GuardIdle, IdleType
  <1>2. CASE FinalAnnotate
    <2> DEFINE p == plr[wk.b]
               new == IF p.deleting THEN p ELSE [p EXCEPT !.status = FinalStatus(p)]
    <2>1. new \in PipelineRuns
      BY <1>b DEF PipelineRuns, FinalStatus
    <2>2. /\ new.names = p.names /\ new.single = p.single /\ new.early = p.early
          /\ new.deleting = p.deleting /\ new.state = p.state /\ new.signed = p.signed
          /\ new.status = p.status \/ new.status = FinalStatus(p)
      BY <1>b DEF PipelineRuns
    <2>3. ASSUME wk.remove, Annotate(new, "release") PROVE GuardInv'
      <3> HIDE DEF new
      <3>1. /\ wk'.b = wk.b /\ wk'.copy = new /\ wk'.pc = "release" /\ wk'.remove = wk.remove
            /\ wk'.err = wk.err /\ plr' = [plr EXCEPT ![wk.b] = new]
            /\ UNCHANGED snaps /\ plr[wk.b].state # "gone"
        BY <2>3, Zenon DEF Annotate, Update, TypeOK, Reconciles
      <3>2. plr'[wk.b] = new
        BY <1>b, <3>1 DEF TypeOK
      <3>3. new.names # {} \/ new.single => HasSnapshot(wk.b)
        BY <1>b, <2>2 DEF GuardInv, NamesExist
      <3>4. InCreation'
        BY <3>1 DEF InCreation
      <3>5. p.signed /\ (p.status = "failed" \/ wk.err # "none" \/ HasSnapshot(wk.b))
              => new.status = "failed" \/ wk.err # "none" \/ HasSnapshot(wk.b)
        BY <2>2, <3>3, SMTT(30) DEF FinalStatus
      <3>6. RemoveIsSafe'
        BY <1>a, <2>2, <2>3, <3>1, <3>2, <3>5 DEF GuardInv, RemoveIsSafe, HasSnapshot
      <3> QED BY <1>a, <2>1, <2>2, <3>1, <3>3, <3>4, <3>6, GuardPatch, Zenon
    <2>4. ASSUME Update(wk.b, new, wk.err # "none"), wk' = Idle, UNCHANGED snaps PROVE GuardInv'
      <3> HIDE DEF new
      <3> QED BY <1>1, <2>1, <2>2, <2>4
    <2> QED BY <1>2, <1>a, <2>3, <2>4, GuardReturns, Zenon DEF FinalAnnotate
  <1>3. CASE RemoveFinalizer
    <2> DEFINE new == Released(plr[wk.b])
    <2>1. /\ new \in PipelineRuns
          /\ new.names = plr[wk.b].names /\ new.single = plr[wk.b].single
          /\ new.early = plr[wk.b].early /\ new.deleting = plr[wk.b].deleting
          /\ new.state \in {plr[wk.b].state, "gone"}
      BY <1>b, Zenon DEF PipelineRuns, Released
    <2>2. ASSUME Update(wk.b, new, wk.err # "none"), wk' = Idle, UNCHANGED snaps PROVE GuardInv'
      <3> HIDE DEF new
      <3> QED BY <1>1, <2>1, <2>2
    <2> QED BY <1>3, <1>a, <2>2, GuardReturns, Zenon DEF RemoveFinalizer
  <1> QED BY <1>2, <1>3

(* The operations before EnsureSnapshotExists do not release a build.      *)
LEMMA GuardPromote ==
  ASSUME TypeOK, GuardInv,
         AddFinalizer \/ PromoteNowhere \/ PromoteImage \/ PromoteTime \/ MarkAdded
           \/ \E g \in Groups : PromoteInGroup(g)
  PROVE  GuardInv'
  <1>a. wk.pc \in {"finalize", "promote", "time", "mark"}
    BY Zenon DEF AddFinalizer, PromoteNowhere, PromoteImage, PromoteTime, MarkAdded, PromoteInGroup
  <1>b. wk.b \in Builds /\ plr[wk.b] \in PipelineRuns
    BY <1>a DEF TypeOK
  <1>1. CASE AddFinalizer
    <2> DEFINE p == plr[wk.b]
               new == IF p.deleting THEN p ELSE [p EXCEPT !.finalizer = TRUE]
               pc == AfterFinalize(wk.b, new, wk.last)
    <2>1. new \in PipelineRuns /\ p.added \in {"none", "true", "false"} /\ new.finalizer \in BOOLEAN
      BY <1>b, ZenonT(30) DEF PipelineRuns
    <2>2. new = [p EXCEPT !.added = p.added, !.finalizer = new.finalizer]
      BY <1>b, Zenon DEF PipelineRuns
    <2>3. pc \in {"promote", "time", "mark", "decide"}
      BY DEF AfterFinalize
    <2>4. Annotate(new, pc) \/ NotFound(FALSE) \/ FailAndReturn
      BY <1>1, Zenon DEF AddFinalizer
    <2> HIDE DEF new, pc
    <2> QED BY <1>a, <2>1, <2>2, <2>3, <2>4, GuardBeforePatch, GuardReturns, Zenon
  <1>2. ASSUME NEW pc \in {"time", "mark"}, Goto(pc), UNCHANGED <<plr, snaps>> PROVE GuardInv'
    <2>1. wk'.pc = pc /\ wk'.remove = wk.remove /\ wk'.b = wk.b /\ wk'.copy = wk.copy
      BY <1>2 DEF Goto, TypeOK, Reconciles
    <2> QED BY <1>2, <1>a, <2>1, GuardBefore
  <1>3. CASE PromoteNowhere \/ PromoteImage \/ PromoteTime
    BY <1>2, <1>3, <1>a, GuardReturns DEF PromoteNowhere, PromoteImage, PromoteTime
  <1>4. CASE MarkAdded
    <2> DEFINE added == IF wk.err = "none" THEN "true" ELSE "false"
               new == [plr[wk.b] EXCEPT !.added = added]
    <2>1. /\ new \in PipelineRuns /\ plr[wk.b].finalizer \in BOOLEAN
          /\ new = [plr[wk.b] EXCEPT !.added = added, !.finalizer = plr[wk.b].finalizer]
      BY <1>b, ZenonT(30) DEF PipelineRuns
    <2>2. Annotate(new, "decide") => GuardInv'
      BY <1>a, <2>1, GuardBeforePatch, Zenon
    <2>3. Return(TRUE) /\ UNCHANGED <<plr, snaps>> => GuardInv'
      BY GuardIdle, IdleType DEF Return
    <2> QED BY <1>4, <1>a, <2>2, <2>3, GuardReturns, Zenon DEF MarkAdded
  <1>5. ASSUME NEW g \in Groups, PromoteInGroup(g) PROVE GuardInv'
    <2>1. /\ wk'.pc \in {"mark", "promote"} /\ wk'.remove = wk.remove
          /\ wk'.b = wk.b /\ wk'.copy = wk.copy
      BY <1>5, ZenonT(30) DEF PromoteInGroup, PromotedOne, TypeOK, Reconciles
    <2>2. UNCHANGED <<plr, snaps>>
      BY <1>5 DEF PromoteInGroup
    <2> QED BY <1>a, <2>1, <2>2, GuardBefore
  <1> QED BY <1>1, <1>3, <1>4, <1>5

(* A new reconcile starts with nothing decided about the finalizer.        *)
LEMMA GuardBegin ==
  ASSUME TypeOK, GuardInv, NEW b \in Builds, Begin(b)
  PROVE  GuardInv'
  <1> DEFINE p == plr[b]
  <1>a. UNCHANGED <<plr, snaps>> /\ p \in PipelineRuns
    BY DEF Begin, TypeOK
  <1>1. CASE p.state = "gone"
    BY <1>1, <1>a, GuardIdle, IdleType DEF Begin
  <1>2. CASE p.state # "gone"
    <2>1. /\ wk'.pc \in {"finalize", "promote", "mark", "decide"} /\ ~wk'.remove
          /\ wk'.b = b /\ wk'.copy = p
      BY <1>2 DEF Begin, AfterFinalize, Idle
    <2>2. EarlyIsKept' /\ NamesExist'
      BY <1>a DEF GuardInv, EarlyIsKept, NamesExist, HasSnapshot
    <2>3. CopyIsPast'
      BY <1>2, <1>a, <2>1 DEF GuardInv, CopyIsPast, EarlyIsKept
    <2>4. InCreation' /\ RemoveIsSafe'
      BY <2>1 DEF InCreation, RemoveIsSafe
    <2> QED BY <2>2, <2>3, <2>4 DEF GuardInv
  <1> QED BY <1>1, <1>2

(* What users, caches, other writers and the cluster do keeps the guard of *)
(* the finalizer; a deletion while the build runs is marked as early.      *)
LEMMA GuardCluster ==
  ASSUME TypeOK, GuardInv, Writes \/ Lists \/ Edits \/ Cluster
  PROVE  GuardInv'
  <1>1. ASSUME UNCHANGED <<plr, snaps, wk>> PROVE GuardInv'
    BY <1>1 DEF GuardInv, CopyIsPast, EarlyIsKept, NamesExist, InCreation, RemoveIsSafe, HasSnapshot
  <1>2. CASE Writes \/ Lists \/ Edits
    <2>1. UNCHANGED <<plr, snaps, wk>>
      BY <1>2, Zenon DEF Writes, OverrideBegin, OverrideGroup, OverrideTime, OverrideMark, OverrideImage,
                  Lists, Edits, buildVars
    <2> QED BY <1>1, <2>1
  <1>3. ASSUME NEW b \in Builds, EndBuild(b) \/ SignBuild(b) PROVE GuardInv'
    <2>1. \E new \in PipelineRuns : Later(plr[b], new) /\ plr' = [plr EXCEPT ![b] = new]
      <3>1. plr[b] \in PipelineRuns
        BY DEF TypeOK
      <3>2. ASSUME NEW st \in {"succeeded", "failed"}, plr[b].state = "running"
            PROVE  /\ [plr[b] EXCEPT !.state = st] \in PipelineRuns
                   /\ Later(plr[b], [plr[b] EXCEPT !.state = st])
        BY <3>1, <3>2 DEF PipelineRuns, Later, GuardInv, EarlyIsKept
      <3>3. /\ [plr[b] EXCEPT !.signed = TRUE] \in PipelineRuns
            /\ Later(plr[b], [plr[b] EXCEPT !.signed = TRUE])
        BY <3>1, Zenon DEF PipelineRuns, Later, GuardInv, EarlyIsKept
      <3> QED BY <1>3, <3>2, <3>3, Zenon DEF EndBuild, SignBuild, Update
    <2>2. UNCHANGED <<snaps, wk>>
      BY <1>3, Zenon DEF EndBuild, SignBuild
    <2> QED BY <2>1, <2>2, GuardKept, Zenon
  <1>4. ASSUME NEW b \in Builds, DeleteBuild(b) PROVE GuardInv'
    <2> DEFINE p == [plr[b] EXCEPT !.deleting = TRUE]
               q == [p EXCEPT !.early = p.state = "running"]
               new == IF q.finalizer THEN q ELSE Released(q)
    <2>1. plr[b] \in PipelineRuns
      BY DEF TypeOK
    <2>2. ~plr[b].deleting /\ ~plr[b].early
      BY <1>4, <2>1 DEF DeleteBuild, GuardInv, EarlyIsKept
    <2>3. /\ q \in PipelineRuns /\ q.state = plr[b].state /\ q.signed = plr[b].signed
          /\ q.names = plr[b].names /\ q.single = plr[b].single /\ q.status = plr[b].status
          /\ q.deleting /\ q.early = (q.state = "running")
      BY <2>1, Zenon DEF PipelineRuns
    <2> HIDE DEF q
    <2>4. new \in PipelineRuns /\ Later(plr[b], new)
      BY <2>2, <2>3, ZenonT(30) DEF PipelineRuns, Released, Later
    <2>5. plr' = [plr EXCEPT ![b] = new] /\ UNCHANGED <<snaps, wk>>
      BY <1>4 DEF DeleteBuild, Update, q
    <2> HIDE DEF new
    <2> QED BY <2>4, <2>5, GuardKept, Zenon
  <1>5. CASE Crash
    BY <1>5, GuardIdle, IdleType DEF Crash
  <1>6. ASSUME NEW g \in Groups, DeleteGroup(g) PROVE GuardInv'
    BY <1>1, <1>6 DEF DeleteGroup
  <1>7. ASSUME NEW c \in Components, RefreshComponent(c) PROVE GuardInv'
    BY <1>1, <1>7 DEF RefreshComponent
  <1> QED BY <1>2, <1>3, <1>4, <1>5, <1>6, <1>7, ZenonT(30) DEF Cluster

(* Every step keeps the guard of the finalizer.                            *)
LEMMA GuardStep == TypeOK /\ GuardInv /\ [BuildNext]_vars => GuardInv'
  <1> SUFFICES ASSUME TypeOK, GuardInv, [BuildNext]_vars PROVE GuardInv'
    BY ZenonT(30)
  <1>1. CASE UNCHANGED vars
    BY <1>1 DEF vars, buildVars, GuardInv, CopyIsPast, EarlyIsKept, NamesExist, InCreation,
                RemoveIsSafe, HasSnapshot
  <1>2. CASE Step
    BY <1>2, GuardPromote, GuardDecide, GuardCreate, GuardAnnotate, GuardFinal, ZenonT(30) DEF Step
  <1> QED BY <1>1, <1>2, GuardBegin, GuardCluster DEF BuildNext, Work

(* Nothing has been created or recorded of a new build.                    *)
LEMMA GuardInitial == BuildInit => GuardInv
  <1> SUFFICES ASSUME BuildInit PROVE GuardInv
    OBVIOUS
  <1>1. wk.pc = "idle"
    BY IdleType DEF BuildInit
  <1>2. \A b \in Builds : plr[b].names = {} /\ ~plr[b].single /\ ~plr[b].deleting /\ ~plr[b].early
    <2> DEFINE Fresh(p) == p.names = {} /\ ~p.single /\ ~p.deleting /\ ~p.early
    <2>a. Fresh(NewPipelineRun)
      BY DEF NewPipelineRun
    <2>b. Fresh(SignedPipelineRun) /\ Fresh(NoPipelineRun)
      BY <2>a, IdleType DEF SignedPipelineRun, NoPipelineRun, PipelineRuns
    <2>1. \A p \in {NewPipelineRun, SignedPipelineRun, NoPipelineRun} : Fresh(p)
      BY <2>a, <2>b
    <2>2. plr \in [Builds -> {NewPipelineRun, SignedPipelineRun, NoPipelineRun}]
      BY DEF BuildInit
    <2> QED BY <2>1, <2>2
  <1> QED BY <1>1, <1>2 DEF GuardInv, CopyIsPast, EarlyIsKept, NamesExist, InCreation, RemoveIsSafe

(* The finalizer is removed from a build that succeeded only when nothing  *)
(* of it would be lost: canRemoveFinalizer of EnsureSnapshotExists is set  *)
(* only where a Snapshot of the signed build exists or its failure is      *)
(* recorded, whatever fails, and whoever ends or deletes the build.        *)
THEOREM FinalizerIsGuarded == BuildSpec => FinalizerGuardsOutput
  <1>1. ASSUME TypeOK, GuardInv, [BuildNext]_vars, NEW b \in Builds, ReleasesSucceeded(b)
        PROVE  /\ plr[b].signed
               /\ \/ plr[b].status = "failed"
                  \/ wk.err # "none"
                  \/ \E g \in Owners : snaps[b][g] > 0
    <2>1. BuildNext
      BY <1>1 DEF ReleasesSucceeded, vars, buildVars
    <2>2. wk.pc = "release" /\ b = wk.b
      BY <1>1, <2>1, WhoPatches, Zenon DEF ReleasesSucceeded, RemoveFinalizer
    <2> QED BY <1>1, <2>2 DEF GuardInv, RemoveIsSafe, ReleasesSucceeded, HasPipelineRunSucceeded,
                              HasSnapshot
  <1>2. TypeOK /\ GuardInv /\ [BuildNext]_vars =>
          [\A b \in Builds : ReleasesSucceeded(b) =>
             /\ plr[b].signed
             /\ \/ plr[b].status = "failed"
                \/ wk.err # "none"
                \/ \E g \in Owners : snaps[b][g] > 0]_vars
    BY <1>1
  <1>3. BuildInv => TypeOK
    BY DEF BuildInv
  <1> QED BY <1>2, <1>3, BuildTypeCorrect, GuardInitial, GuardStep, PTL
          DEF BuildSpec, FinalizerGuardsOutput
-----------------------------------------------------------------------------
(* One Snapshot *)

(* No spec was edited and no group was deleted.                            *)
Calm == ~edited /\ gone = {}

(* Only an owner gets a Snapshot, and the only one gets it once.           *)
SnapsOnce ==
  \A b \in Builds :
    /\ \A g \in Owners : g \notin OwnersOf(b) => snaps[b][g] = 0
    /\ LoneOwner(b) => \A g \in Owners : snaps[b][g] <= 1

(* The reconcile serves the owners of its build, each once, and creates a  *)
(* Snapshot for the only one when there is none.                           *)
InTurn ==
  /\ wk.pc # "idle" => wk.owners = OwnersOf(wk.b)
  /\ wk.pc \in {"annotate", "append"} => wk.now \in wk.owners \ wk.todo
  /\ wk.pc = "create" /\ LoneOwner(wk.b) /\ wk.todo # {} => \A g \in wk.owners : snaps[wk.b][g] = 0

OnceInv ==
  /\ ~edited => SpecsAgree
  /\ Calm => SnapsOnce /\ InTurn

(* A step of a reconcile in a setting that stays the same.                 *)
LEMMA OnceStep ==
  ASSUME BuildInv, SnapsOnce, InTurn, Step, \A b \in Builds : OwnersOf(b)' = OwnersOf(b)
  PROVE  SnapsOnce' /\ InTurn'
  <1>a. TypeOK /\ wk.pc # "idle" /\ wk.b \in Builds /\ wk.owners = OwnersOf(wk.b)
    BY Zenon DEF BuildInv, TypeOK, InTurn, Step, AddFinalizer, PromoteNowhere, PromoteImage, PromoteTime,
           MarkAdded, PromoteInGroup, Decide, AdoptExisting, CreateSnapshot, AnnotateSingle,
           AppendName, FinalAnnotate, RemoveFinalizer
  <1>b. \A b \in Builds : LoneOwner(b)' <=> LoneOwner(b)
    BY DEF LoneOwner
  <1>c. UNCHANGED snaps => SnapsOnce'
    BY <1>b DEF SnapsOnce
  <1>1. ASSUME UNCHANGED snaps,
               \/ wk'.pc = "idle"
               \/ /\ wk'.b = wk.b /\ wk'.owners = wk.owners
                  /\ wk'.pc \notin {"annotate", "append", "create"}
        PROVE  SnapsOnce' /\ InTurn'
    BY <1>1, <1>a, <1>c DEF InTurn
  <1>2. /\ \A again : Return(again) => wk'.pc = "idle"
        /\ Idle.pc = "idle"
        /\ \A new, pc : Annotate(new, pc) =>
             wk'.b = wk.b /\ wk'.owners = wk.owners /\ wk'.pc = pc /\ wk'.todo = wk.todo /\ wk'.now = wk.now
        /\ \A remove, err : ToFinal(remove, err) =>
             wk'.b = wk.b /\ wk'.owners = wk.owners /\ wk'.pc = "final"
        /\ \A pc : Goto(pc) => wk'.b = wk.b /\ wk'.owners = wk.owners /\ wk'.pc = pc
    BY <1>a, IdleType, ZenonT(30) DEF Return, Annotate, ToFinal, Goto, TypeOK, Reconciles
  <1>3. (FailAndReturn \/ FailToFinal \/ GoneToFinal \/ \E again \in BOOLEAN : NotFound(again))
          => SnapsOnce' /\ InTurn'
    BY <1>1, <1>2, Zenon DEF FailAndReturn, FailToFinal, GoneToFinal, NotFound
  <1>4. CASE AddFinalizer \/ FinalAnnotate \/ RemoveFinalizer \/ MarkAdded
    <2>1. \A b, p, c : AfterFinalize(b, p, c) \notin {"annotate", "append", "create"}
      BY DEF AfterFinalize
    <2>2. ASSUME NEW new, NEW pc, Annotate(new, pc), pc \notin {"annotate", "append", "create"}
          PROVE  SnapsOnce' /\ InTurn'
      <3>1. UNCHANGED snaps
        BY <2>2 DEF Annotate
      <3>2. wk'.b = wk.b /\ wk'.owners = wk.owners /\ wk'.pc \notin {"annotate", "append", "create"}
        BY <1>2, <2>2
      <3> QED BY <1>1, <3>1, <3>2
    <2>3. CASE AddFinalizer
      BY <1>3, <2>1, <2>2, <2>3, Zenon DEF AddFinalizer
    <2>4. CASE FinalAnnotate
      BY <1>1, <1>2, <1>3, <2>2, <2>4, ZenonT(30) DEF FinalAnnotate
    <2>5. CASE RemoveFinalizer \/ MarkAdded
      BY <1>1, <1>2, <1>3, <2>2, <2>5, ZenonT(30) DEF RemoveFinalizer, MarkAdded
    <2> QED BY <1>4, <2>3, <2>4, <2>5
  <1>5. CASE PromoteNowhere \/ PromoteImage \/ PromoteTime
    BY <1>1, <1>2, <1>3, <1>5 DEF PromoteNowhere, PromoteImage, PromoteTime
  <1>6. ASSUME NEW g \in Groups, PromoteInGroup(g) PROVE SnapsOnce' /\ InTurn'
    <2>1. UNCHANGED snaps
      BY <1>6 DEF PromoteInGroup
    <2>2. wk'.b = wk.b /\ wk'.owners = wk.owners /\ wk'.pc \in {"mark", "promote"}
      BY <1>6, <1>a, ZenonT(30) DEF PromoteInGroup, PromotedOne, TypeOK, Reconciles
    <2> QED BY <1>1, <2>1, <2>2
  <1>7. CASE Decide
    <2>1. UNCHANGED snaps
      BY <1>7 DEF Decide
    <2>2. CASE \E remove, err : ToFinal(remove, err)
      BY <1>1, <1>2, <2>1, <2>2, ZenonT(30)
    <2>3. CASE wk' = [wk EXCEPT !.pc = IF wk.owners = {} THEN "final"
                                       ELSE IF AllHaveSnapshots THEN "existing" ELSE "create",
                                !.todo = wk.owners, !.err = "none"]
      <3>1. /\ wk'.b = wk.b /\ wk'.owners = wk.owners /\ wk'.pc \in {"final", "existing", "create"}
            /\ wk'.pc = "create" => ~AllHaveSnapshots
        BY <2>3, <1>a DEF TypeOK, Reconciles
      <3>2. ASSUME wk'.pc = "create", LoneOwner(wk.b)
            PROVE  \A g \in wk.owners : snaps[wk.b][g] = 0
        <4>1. PICK g \in wk.owners : ~(snaps[wk.b][g] > 0)
          BY <3>1, <3>2 DEF AllHaveSnapshots
        <4>2. snaps[wk.b][g] = 0
          BY <1>a, <4>1 DEF TypeOK, Reconciles
        <4> QED BY <1>a, <3>2, <4>2 DEF LoneOwner
      <3> QED BY <1>a, <1>b, <1>c, <2>1, <3>1, <3>2 DEF InTurn
    <2> QED BY <1>7, <2>2, <2>3, Zenon DEF Decide
  <1>8. ASSUME NEW g \in Owners, AdoptExisting(g) PROVE SnapsOnce' /\ InTurn'
    <2>1. ASSUME NEW pc \in {"annotate", "final", "existing"}, UNCHANGED snaps, g \in wk.todo,
                 wk' = [wk EXCEPT !.todo = @ \ {g}, !.now = g, !.remove = TRUE, !.pc = pc]
          PROVE  SnapsOnce' /\ InTurn'
      <3>1. /\ wk'.b = wk.b /\ wk'.owners = wk.owners /\ wk'.pc = pc
            /\ wk'.now = g /\ wk'.todo = wk.todo \ {g}
        BY <2>1, <1>a DEF TypeOK, Reconciles
      <3>2. g \in wk.owners
        BY <2>1, <1>a DEF TypeOK
      <3> QED BY <2>1, <1>a, <1>c, <3>1, <3>2 DEF InTurn
    <2> QED BY <1>3, <1>8, <2>1, Zenon DEF AdoptExisting
  <1>9. ASSUME NEW g \in Owners, CreateSnapshot(g) PROVE SnapsOnce' /\ InTurn'
    <2>1. ASSUME snaps' = [snaps EXCEPT ![wk.b][g] = IF @ < MaxSnaps THEN @ + 1 ELSE @],
                 wk' = [wk EXCEPT !.todo = @ \ {g}, !.now = g, !.pc = "annotate"]
          PROVE  SnapsOnce' /\ InTurn'
      <3>1. wk.pc = "create" /\ g \in wk.todo /\ g \in wk.owners
        BY <1>9, <1>a DEF CreateSnapshot, TypeOK
      <3>2. /\ wk'.b = wk.b /\ wk'.owners = wk.owners /\ wk'.pc = "annotate"
            /\ wk'.now = g /\ wk'.todo = wk.todo \ {g}
        BY <2>1, <1>a DEF TypeOK, Reconciles
      <3>3. InTurn'
        BY <1>a, <3>1, <3>2 DEF InTurn
      <3>4. \A b \in Builds, h \in Owners : b # wk.b \/ h # g => snaps'[b][h] = snaps[b][h]
        BY <2>1, <1>a DEF TypeOK
      <3>5. snaps[wk.b][g] = 0 => snaps'[wk.b][g] = 1
        BY <2>1, <1>a, BuildAssumption DEF TypeOK
      <3>6. LoneOwner(wk.b) => snaps[wk.b][g] = 0
        BY <3>1 DEF InTurn
      <3>7. SnapsOnce'
        BY <1>a, <1>b, <3>1, <3>4, <3>5, <3>6 DEF SnapsOnce
      <3> QED BY <3>3, <3>7
    <2>2. (\E remove, err : ToFinal(remove, err)) /\ UNCHANGED snaps => SnapsOnce' /\ InTurn'
      BY <1>1, <1>2
    <2> QED BY <1>3, <1>9, <2>1, <2>2, ZenonT(30) DEF CreateSnapshot
  <1>10. CASE AnnotateSingle
    <2>1. ASSUME NEW new, Annotate(new, "append") PROVE SnapsOnce' /\ InTurn'
      <3>1. UNCHANGED snaps
        BY <2>1 DEF Annotate
      <3>2. /\ wk'.b = wk.b /\ wk'.owners = wk.owners /\ wk'.pc = "append"
            /\ wk'.todo = wk.todo /\ wk'.now = wk.now
        BY <1>2, <2>1
      <3>3. wk.pc = "annotate"
        BY <1>10 DEF AnnotateSingle
      <3> QED BY <1>a, <1>c, <3>1, <3>2, <3>3 DEF InTurn
    <2> QED BY <1>3, <1>10, <2>1 DEF AnnotateSingle
  <1>11. CASE AppendName
    <2>1. ASSUME NEW new, UNCHANGED snaps,
                 wk' = [wk EXCEPT !.copy = new, !.pc = AfterAnnotate, !.remove = @ \/ wk.todo = {}]
          PROVE  SnapsOnce' /\ InTurn'
      <3>1. wk.pc \in {"annotate", "append"} /\ wk.now \in wk.owners \ wk.todo
        BY <1>11 DEF AppendName, InTurn
      <3>2. /\ wk'.b = wk.b /\ wk'.owners = wk.owners /\ wk'.pc \in {"existing", "create", "final"}
            /\ wk'.todo = wk.todo
        BY <2>1, <1>a DEF AfterAnnotate, TypeOK, Reconciles
      <3>3. LoneOwner(wk.b) => wk.todo = {}
        BY <1>a, <3>1 DEF LoneOwner, TypeOK
      <3> QED BY <1>a, <1>b, <1>c, <2>1, <3>2, <3>3 DEF InTurn
    <2> QED BY <1>3, <1>11, <2>1, Zenon DEF AppendName
  <1> QED BY <1>4, <1>5, <1>6, <1>7, <1>8, <1>9, <1>10, <1>11 DEF Step

(* Every step keeps that a build of a single owner has one Snapshot at     *)
(* most, and none while its reconcile is about to create one.              *)
LEMMA OnceKept == BuildInv /\ OnceInv /\ [BuildNext]_vars => OnceInv'
  <1> SUFFICES ASSUME BuildInv, OnceInv, [BuildNext]_vars PROVE OnceInv'
    OBVIOUS
  <1>1. ASSUME ~edited' PROVE SpecsAgree'
    <2>1. ~edited
      BY <1>1, SettingKept, Zenon DEF BuildInv, TypeOK
    <2> QED BY <1>1, <2>1, SpecsKept DEF OnceInv
  <1>2. ASSUME Calm' PROVE SnapsOnce' /\ InTurn'
    <2>1. ~edited' /\ gone' = {} /\ ~edited /\ gone = {}
      BY <1>2, SettingKept, Zenon DEF Calm, BuildInv, TypeOK
    <2>2. SnapsOnce /\ InTurn /\ SpecsAgree
      BY <2>1 DEF OnceInv, Calm
    <2>3. \A b \in Builds : OwnersOf(b)' = OwnersOf(b)
      BY <2>1, <2>2, OwnersKept
    <2>4. \A b \in Builds : LoneOwner(b)' <=> LoneOwner(b)
      BY <2>3 DEF LoneOwner
    <2>5. UNCHANGED snaps => SnapsOnce'
      BY <2>2, <2>3, <2>4 DEF SnapsOnce
    <2>6. ASSUME UNCHANGED <<snaps, wk>> PROVE SnapsOnce' /\ InTurn'
      <3>1. wk.pc # "idle" => wk.b \in Builds
        BY DEF BuildInv, TypeOK
      <3> QED BY <2>2, <2>3, <2>4, <2>5, <2>6, <3>1 DEF InTurn
    <2>7. ASSUME UNCHANGED snaps, wk'.pc = "idle" PROVE SnapsOnce' /\ InTurn'
      BY <2>5, <2>7 DEF InTurn
    <2>8. CASE UNCHANGED vars
      BY <2>6, <2>8 DEF vars, buildVars
    <2>9. CASE Step
      BY <2>2, <2>3, <2>9, OnceStep
    <2>10. ASSUME NEW b \in Builds, Begin(b) PROVE SnapsOnce' /\ InTurn'
      <3>1. UNCHANGED snaps
        BY <2>10 DEF Begin
      <3>2. \/ wk'.pc = "idle"
            \/ /\ wk'.b = b /\ wk'.owners = OwnersOf(b)
               /\ wk'.pc \in {"finalize", "promote", "mark", "decide"}
        BY <2>10, IdleType DEF Begin, AfterFinalize, Reconciles
      <3> QED BY <2>3, <2>5, <3>1, <3>2 DEF InTurn
    <2>11. CASE Writes \/ Lists \/ Edits \/ Cluster
      BY <2>6, <2>7, <2>11, OthersApart, IdleType
    <2> QED BY <2>8, <2>9, <2>10, <2>11 DEF BuildNext, Work
  <1> QED BY <1>1, <1>2 DEF OnceInv

(* No build has a Snapshot at first.                                       *)
LEMMA OnceInitial == BuildInit => OnceInv
  <1> SUFFICES ASSUME BuildInit PROVE OnceInv
    OBVIOUS
  <1>1. SpecsAgree
    BY DEF BuildInit, ListInit, SpecsAgree
  <1>2. SnapsOnce
    BY DEF BuildInit, SnapsOnce
  <1>3. InTurn
    BY IdleType DEF BuildInit, InTurn
  <1> QED BY <1>1, <1>2, <1>3 DEF OnceInv

(* EnsureSnapshotExists lists the Snapshots of a build before it creates   *)
(* one: a build of a single owner gets at most one Snapshot, whatever      *)
(* fails between the creation and the annotation that records it, and      *)
(* however often the reconcile is repeated.                                *)
THEOREM OneSnapshotEach == BuildSpec => []OneSnapshot
  <1>1. OnceInv => OneSnapshot
    BY DEF OnceInv, Calm, SnapsOnce, LoneOwner, OneSnapshot
  <1> QED BY <1>1, BuildTypeCorrect, OnceInitial, OnceKept, PTL DEF BuildSpec
=============================================================================
