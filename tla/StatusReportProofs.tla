------------------------- MODULE StatusReportProofs -------------------------
(***************************************************************************)
(* What the report annotation of a Snapshot records was reported, for any  *)
(* number of scenarios, destinations, updates and disturbances.            *)
(*                                                                         *)
(* The marks travel from the worker's memory to its copy of the Snapshot,  *)
(* to the API server, to the informer cache and back to the memory of the  *)
(* next reconcile, and a copy may be old.  All of them stay below what the *)
(* providers accepted, and what they accepted never goes back, because it  *)
(* stays below the updates that the present reconcile reports.             *)
(***************************************************************************)
EXTENDS StatusReport, TLAPS

USE ReportAssumption

(* No mark of m is newer than what the providers accepted.                 *)
Below(m, acc) == \A s \in Scenarios, d \in 1 .. MaxDests : m[s][d] <= acc[s][d]

(* No provider accepted an update that is newer than the statuses t.       *)
Known(acc, t) == \A s \in Scenarios, d \in 1 .. MaxDests : acc[s][d] <= t[s].time

(* The statuses t are as old as u, or older.                               *)
Past(t, u) == \A s \in Scenarios : t[s].time <= u[s].time

(* The copies of a worker, while the providers accepted acc.               *)
Fit(wk, acc) ==
  /\ wk \in Workers
  /\ Below(wk.mem, acc) /\ Below(wk.ann, acc)
  /\ Known(acc, wk.test)
  /\ Past(wk.test, cache.test)

(* Where a worker may be: a round has a destination, posts have a reporter, *)
(* and a scenario that is marked after the write has been accepted.        *)
InRound == {"dest", "post", "write", "comment", "save"}

Placed(wk, acc, pc) ==
  /\ pc \in Pcs \ {"idle"}
  /\ pc \in InRound => wk.at \in 1 .. N
  /\ pc \in {"post", "write"} => dests[wk.at].reporter # "none"
  /\ pc = "write" => \A s \in wk.last : wk.test[s].time <= acc[s][wk.at]

Sound(wk, acc) == wk = Idle \/ (Fit(wk, acc) /\ Placed(wk, acc, wk.pc))

(* The inductive invariant.                                                *)
ReportInv ==
  /\ TypeOK
  /\ Below(srs, accepted) /\ Below(cache.srs, accepted)
  /\ Known(accepted, cache.test)
  /\ Past(cache.test, test)
  /\ Sound(w, accepted)
  /\ (w.pc = "groupnote" \/ note = "reported") => prov[1].group # "nothing"

-----------------------------------------------------------------------------
(* The order of the times is transitive.                                   *)
LEMMA EarlierStill ==
  ASSUME NEW x \in Nat, NEW y \in Nat, NEW z \in Nat, x <= y, y <= z
  PROVE  x <= z
  OBVIOUS

(* There is a destination, and the bound holds.                            *)
LEMMA Destined == ASSUME TypeOK PROVE N \in 1 .. MaxDests
  BY DEF TypeOK, N

(* The empty worker is a worker whose marks are all 0.                     *)
LEMMA IdleType ==
  /\ Idle \in Workers /\ Idle.pc = "idle" /\ Idle.mem \in Marks
  /\ Idle.test \in [Scenarios -> Details]
  /\ \A s \in Scenarios, d \in 1 .. MaxDests : Idle.mem[s][d] = 0
  /\ \A s \in Scenarios : Idle.test[s].time = 0
  BY DEF Idle, Workers, Pcs, Details, Marks, Notes

(* The marks of scenarios are numbers.                                     *)
LEMMA MarkType ==
  ASSUME NEW m \in Marks, NEW s \in Scenarios, NEW d \in 1 .. MaxDests
  PROVE  m[s][d] \in Nat
  BY DEF Marks

(* The time of a status is a number.                                       *)
LEMMA TimeType ==
  ASSUME NEW t \in [Scenarios -> Details], NEW s \in Scenarios
  PROVE  t[s].time \in Nat
  BY DEF Details

(* A worker that only moves keeps its copies.                              *)
LEMMA FitSame ==
  ASSUME NEW acc, NEW wk, Fit(wk, acc), NEW v \in Workers,
         v.mem = wk.mem, v.ann = wk.ann \/ v.ann = wk.mem, v.test = wk.test
  PROVE  Fit(v, acc)
  BY DEF Fit

(* Goto: the worker moves to another place.                                *)
LEMMA GotoSound ==
  ASSUME TypeOK, NEW acc, NEW wk, NEW pc, Fit(wk, acc), Placed(wk, acc, pc), Goto(wk, pc)
  PROVE  Sound(w', acc) /\ w' \in Workers /\ w'.pc = pc /\ UNCHANGED <<queued, dropped>>
<1> DEFINE v == [wk EXCEPT !.pc = pc]
<1>1. wk \in Workers /\ pc \in Pcs  BY DEF Fit, Placed
<1>2. v \in Workers  BY <1>1, Zenon DEF Workers
<1>3. /\ v.pc = pc /\ v.mem = wk.mem /\ v.ann = wk.ann /\ v.test = wk.test /\ v.at = wk.at
      /\ v.last = wk.last
  BY <1>1 DEF Workers
<1>4. w' = v /\ UNCHANGED <<queued, dropped>>  BY DEF Goto
<1> HIDE DEF v
<1>5. Fit(v, acc)  BY <1>2, <1>3, FitSame
<1>6. Placed(v, acc, v.pc)  BY <1>3 DEF Placed
<1> QED  BY <1>2, <1>3, <1>4, <1>5, <1>6 DEF Sound

(* What every end of a handler leaves: a sound worker, a queue, and the    *)
(* destinations whose report was given up.                                 *)
Left(acc) ==
  /\ Sound(w', acc) /\ w' \in Workers /\ w'.pc # "groupnote"
  /\ queued' \in BOOLEAN /\ dropped' \subseteq 1 .. MaxDests

(* Goto, where the place is not the note about the group Snapshot.         *)
LEMMA GotoLeaves ==
  ASSUME TypeOK, NEW acc, NEW wk, NEW pc, Fit(wk, acc), Placed(wk, acc, pc), pc # "groupnote",
         Goto(wk, pc)
  PROVE  Left(acc)
  BY GotoSound DEF Left, TypeOK

(* End: the reconcile ends.                                                *)
LEMMA EndLeaves ==
  ASSUME TypeOK, NEW acc, NEW requeue \in BOOLEAN, NEW failed, failed \subseteq 1 .. MaxDests,
         End(requeue, failed)
  PROVE  Left(acc)
  BY IdleType DEF End, Left, Sound, TypeOK

(* ToGroup: the second operation of the controller, or the end.            *)
LEMMA ToGroupLeaves ==
  ASSUME TypeOK, NEW acc, NEW wk, Fit(wk, acc), ToGroup(wk)
  PROVE  Left(acc)
<1>1. CASE GroupFailed(wk)
  <2>1. Goto(wk, "group")  BY <1>1 DEF ToGroup
  <2>2. Placed(wk, acc, "group")  BY DEF Placed, Pcs, InRound
  <2> QED  BY <2>1, <2>2, GotoLeaves
<1>2. CASE ~GroupFailed(wk)
  <2>1. End(FALSE, wk.failed)  BY <1>2, Zenon DEF ToGroup
  <2>2. wk.failed \subseteq 1 .. MaxDests  BY DEF Fit, Workers
  <2> QED  BY <2>1, <2>2, EndLeaves, Zenon
<1> QED  BY <1>1, <1>2

(* ReportFailed: the report is tried again, or given up.                   *)
LEMMA ReportFailedLeaves ==
  ASSUME TypeOK, NEW acc, NEW wk, Fit(wk, acc), NEW again \in BOOLEAN, ReportFailed(wk, again)
  PROVE  Left(acc)
<1>1. wk.failed \subseteq 1 .. MaxDests  BY DEF Fit, Workers
<1>2. CASE young /\ again  BY <1>1, <1>2, EndLeaves, Zenon DEF ReportFailed
<1>3. CASE ~(young /\ again)  BY <1>3, ToGroupLeaves, Zenon DEF ReportFailed
<1> QED  BY <1>2, <1>3

(* NextDest: the next destination, or the end of the report.               *)
LEMMA NextDestLeaves ==
  ASSUME TypeOK, NEW acc, NEW wk, Fit(wk, acc), wk.at \in 1 .. N, NEW err \in BOOLEAN,
         NextDest(wk, err)
  PROVE  Left(acc)
<1> DEFINE v == [wk EXCEPT !.at = @ + 1, !.err = err, !.todo = {}, !.last = {}]
<1>1. wk \in Workers  BY DEF Fit
<1>2. wk.at + 1 \in 0 .. MaxDests + 1  BY Destined
<1>3. v \in Workers  BY <1>1, <1>2, Zenon DEF Workers
<1>4. v.mem = wk.mem /\ v.ann = wk.ann /\ v.test = wk.test /\ v.at = wk.at + 1
  BY <1>1 DEF Workers
<1>5. IF wk.at < N THEN Goto(v, "dest")
      ELSE IF err THEN ReportFailed(v, TRUE) ELSE ToGroup(v)
  BY Zenon DEF NextDest
<1> HIDE DEF v
<1>6. Fit(v, acc)  BY <1>3, <1>4, FitSame
<1>7. CASE wk.at < N
  <2>1. v.at \in 1 .. N  BY <1>4, <1>7, Destined
  <2>2. Placed(v, acc, "dest")  BY <2>1 DEF Placed, Pcs
  <2>3. Goto(v, "dest")  BY <1>5, <1>7
  <2> QED  BY <1>6, <2>2, <2>3, GotoLeaves
<1>8. CASE ~(wk.at < N)
  BY <1>5, <1>6, <1>8, ReportFailedLeaves, ToGroupLeaves, Zenon
<1> QED  BY <1>7, <1>8

(* AfterPosts: the comment, or the write at the end of the round.          *)
LEMMA AfterPostsLeaves ==
  ASSUME TypeOK, NEW acc, NEW wk, Fit(wk, acc), wk.at \in 1 .. N, AfterPosts(wk)
  PROVE  Left(acc)
<1>1. Placed(wk, acc, "comment") /\ Placed(wk, acc, "save")  BY DEF Placed, Pcs
<1> QED  BY <1>1, GotoLeaves DEF AfterPosts

(* Failed and Rest note destinations whose report failed.                  *)
LEMMA FailedFits ==
  ASSUME TypeOK, NEW acc, NEW wk, Fit(wk, acc), wk.at \in 1 .. N
  PROVE  /\ Fit(Failed(wk), acc) /\ Failed(wk).at = wk.at
         /\ Fit(Rest(wk), acc)
<1>1. wk \in Workers  BY DEF Fit
<1>2. wk.at \in 1 .. MaxDests /\ wk.at .. N \subseteq 1 .. MaxDests  BY Destined
<1>3. Failed(wk) \in Workers /\ Rest(wk) \in Workers  BY <1>1, <1>2, Zenon DEF Failed, Rest, Workers
<1>4. /\ Failed(wk).mem = wk.mem /\ Failed(wk).ann = wk.ann /\ Failed(wk).test = wk.test
      /\ Failed(wk).at = wk.at
      /\ Rest(wk).mem = wk.mem /\ Rest(wk).ann = wk.ann /\ Rest(wk).test = wk.test
  BY <1>1 DEF Failed, Rest, Workers
<1> QED  BY <1>3, <1>4, FitSame

(* WriteSnapshotReportStatus moves the marks into the copy.                *)
LEMMA WrittenFits ==
  ASSUME TypeOK, NEW acc, NEW wk, Fit(wk, acc)
  PROVE  /\ Fit(Written(wk), acc) /\ Fit([wk EXCEPT !.ann = wk.mem], acc)
         /\ Written(wk).at = wk.at /\ Written(wk).last = wk.last /\ Written(wk).test = wk.test
         /\ Written(wk).todo = wk.todo
         /\ [wk EXCEPT !.ann = wk.mem].at = wk.at
<1> DEFINE u == [wk EXCEPT !.ann = wk.mem]
<1>1. wk \in Workers  BY DEF Fit
<1>2. Written(wk) \in Workers /\ u \in Workers  BY <1>1, Zenon DEF Written, Workers, TypeOK
<1>3. /\ Written(wk).mem = wk.mem /\ Written(wk).ann = wk.mem /\ Written(wk).test = wk.test
      /\ Written(wk).at = wk.at /\ Written(wk).last = wk.last /\ Written(wk).todo = wk.todo
      /\ u.mem = wk.mem /\ u.ann = wk.mem /\ u.test = wk.test /\ u.at = wk.at
  BY <1>1 DEF Written, Workers
<1> HIDE DEF u
<1>4. Fit(Written(wk), acc) /\ Fit(u, acc)  BY <1>2, <1>3, FitSame
<1> QED  BY <1>3, <1>4 DEF u

(* SetLastUpdateTime only marks what has been accepted.                    *)
LEMMA MarkFits ==
  ASSUME TypeOK, NEW acc \in Marks, NEW wk, Fit(wk, acc), wk.at \in 1 .. N,
         NEW S \in SUBSET Scenarios, \A s \in S : wk.test[s].time <= acc[s][wk.at]
  PROVE  LET v == SetLastUpdateTime(wk, S)
         IN  Fit(v, acc) /\ v.at = wk.at /\ v.todo = wk.todo /\ v.last = wk.last /\ v.test = wk.test
<1> DEFINE m == [s \in Scenarios |-> IF s \in S THEN [wk.mem[s] EXCEPT ![wk.at] = wk.test[s].time]
                                     ELSE wk.mem[s]]
           v == SetLastUpdateTime(wk, S)
<1>1. wk \in Workers /\ wk.mem \in Marks /\ wk.test \in [Scenarios -> Details]
  BY DEF Fit, Workers
<1>2. wk.at \in 1 .. MaxDests  BY Destined
<1>3. m \in Marks  BY <1>1, <1>2, ZenonT(30) DEF Marks, Details
<1>4. Below(m, acc)
  <2> SUFFICES ASSUME NEW s \in Scenarios, NEW d \in 1 .. MaxDests PROVE m[s][d] <= acc[s][d]
    BY DEF Below
  <2>1. wk.mem[s][d] <= acc[s][d]  BY DEF Fit, Below
  <2>2. m[s][d] = IF s \in S /\ d = wk.at THEN wk.test[s].time ELSE wk.mem[s][d]
    BY <1>1, <1>2, ZenonT(30) DEF Marks
  <2> QED  BY <2>1, <2>2
<1>5. v = [wk EXCEPT !.mem = m, !.dirty = TRUE]  BY <1>1 DEF SetLastUpdateTime, Workers
<1> HIDE DEF m, v
<1>6. v \in Workers  BY <1>1, <1>3, <1>5, Zenon DEF Workers
<1>7. /\ v.mem = m /\ v.ann = wk.ann /\ v.test = wk.test /\ v.at = wk.at /\ v.todo = wk.todo
      /\ v.last = wk.last
  BY <1>1, <1>5 DEF Workers
<1>8. Fit(v, acc)  BY <1>4, <1>6, <1>7 DEF Fit
<1> QED  BY <1>7, <1>8 DEF v

-----------------------------------------------------------------------------
(* A worker in a reconcile has fitting copies.                             *)
LEMMA AtWork ==
  ASSUME ReportInv, w.pc # "idle"
  PROVE  TypeOK /\ Fit(w, accepted) /\ Placed(w, accepted, w.pc)
  BY IdleType DEF ReportInv, Sound

(* A disturbance is taken from the budget.                                 *)
LEMMA Spent ==
  ASSUME TypeOK, NEW d \in Disturbances, Disturb(d)
  PROVE  left' \in [Disturbances -> Nat]
  BY DEF TypeOK, Disturb

(* What the annotation and the caches owe to what the providers accepted.  *)
Fair(marks, acc) ==
  /\ acc \in Marks /\ marks \in Marks
  /\ Below(marks, acc) /\ Below(cache.srs, acc)
  /\ Known(acc, cache.test)

(* Accept: what a provider accepted only grows, because no provider ever   *)
(* accepted an update newer than the one that is reported.                 *)
LEMMA AcceptFits ==
  ASSUME ReportInv, w.pc # "idle", w.at \in 1 .. N, NEW S \in SUBSET Scenarios, Accept(S)
  PROVE  /\ Fair(srs, accepted') /\ Fit(w, accepted')
         /\ \A s \in S : w.test[s].time <= accepted'[s][w.at]
<1>1. TypeOK /\ Fit(w, accepted)  BY AtWork
<1>2. /\ w \in Workers /\ w.mem \in Marks /\ w.ann \in Marks /\ w.test \in [Scenarios -> Details]
      /\ accepted \in Marks /\ srs \in Marks
      /\ cache.srs \in Marks /\ cache.test \in [Scenarios -> Details]
  BY <1>1 DEF TypeOK, Workers
<1>3. w.at \in 1 .. MaxDests  BY <1>1, Destined
<1>4. accepted' \in Marks  BY <1>2, <1>3 DEF Accept, Marks, Details
<1>5. \A s \in Scenarios, d \in 1 .. MaxDests :
        accepted'[s][d] = IF s \in S /\ d = w.at THEN w.test[s].time ELSE accepted[s][d]
  BY <1>2, <1>3, Zenon DEF Accept, Marks
<1>6. \A s \in Scenarios, d \in 1 .. MaxDests :
        accepted[s][d] <= accepted'[s][d] /\ accepted'[s][d] <= w.test[s].time
  <2> SUFFICES ASSUME NEW s \in Scenarios, NEW d \in 1 .. MaxDests
               PROVE  accepted[s][d] <= accepted'[s][d] /\ accepted'[s][d] <= w.test[s].time
    OBVIOUS
  <2>1. accepted[s][d] <= w.test[s].time  BY <1>1, ZenonT(30) DEF Fit, Known
  <2>2. accepted[s][d] \in Nat /\ w.test[s].time \in Nat  BY <1>2, MarkType, TimeType, Zenon
  <2> QED  BY <1>5, <2>1, <2>2
<1>7. Known(accepted', w.test)  BY <1>6 DEF Known
<1>8. Known(accepted', cache.test)
  <2> SUFFICES ASSUME NEW s \in Scenarios, NEW d \in 1 .. MaxDests
               PROVE  accepted'[s][d] <= cache.test[s].time
    BY DEF Known
  <2>1. w.test[s].time <= cache.test[s].time  BY <1>1 DEF Fit, Past
  <2>2. accepted'[s][d] \in Nat /\ w.test[s].time \in Nat /\ cache.test[s].time \in Nat
    BY <1>2, <1>4, MarkType, TimeType, Zenon
  <2> QED  BY <1>6, <2>1, <2>2
<1>9. \A m \in Marks : Below(m, accepted) => Below(m, accepted')
  <2> SUFFICES ASSUME NEW m \in Marks, Below(m, accepted), NEW s \in Scenarios,
                      NEW d \in 1 .. MaxDests
               PROVE  m[s][d] <= accepted'[s][d]
    BY DEF Below
  <2>1. m[s][d] <= accepted[s][d]  BY DEF Below
  <2>2. m[s][d] \in Nat /\ accepted[s][d] \in Nat /\ accepted'[s][d] \in Nat
    BY <1>2, <1>4, MarkType
  <2> QED  BY <1>6, <2>1, <2>2
<1>10. Fit(w, accepted')  BY <1>1, <1>2, <1>7, <1>9 DEF Fit
<1>11. Fair(srs, accepted')  BY <1>2, <1>4, <1>8, <1>9 DEF ReportInv, Fair
<1>12. \A s \in S : w.test[s].time <= accepted'[s][w.at]
  <2> SUFFICES ASSUME NEW s \in S PROVE w.test[s].time <= accepted'[s][w.at]  OBVIOUS
  <2>1. accepted'[s][w.at] = w.test[s].time  BY <1>3, <1>5
  <2>2. w.test[s].time \in Nat  BY <1>2 DEF Details
  <2> QED  BY <2>1, <2>2
<1> QED  BY <1>10, <1>11, <1>12

(* Without a post, nothing changes.                                        *)
LEMMA NothingAccepted == ASSUME ReportInv PROVE Fair(srs, accepted)
  BY DEF ReportInv, Fair, TypeOK

(* WriteSnapshotReportStatus writes marks of the worker.                   *)
LEMMA WriteFair ==
  ASSUME NEW acc, Fair(srs, acc), NEW wk, Fit(wk, acc), WriteOK(wk) \/ WriteFails(wk)
  PROVE  Fair(srs', acc)
<1>1. wk.mem \in Marks /\ Below(wk.mem, acc)  BY DEF Fit, Workers
<1>2. srs' \in {srs, wk.mem}  BY DEF WriteOK, WriteFails
<1> QED  BY <1>1, <1>2 DEF Fair

(* No provider loses what it shows of the group Snapshot.                  *)
GroupsKept ==
  /\ DOMAIN prov' = 1 .. N
  /\ \A d \in 1 .. N : "group" \in DOMAIN prov'[d] /\ prov'[d].group = prov[d].group

(* A provider that shows the same of the group as before.                  *)
LEMMA ProviderKeeps ==
  ASSUME TypeOK, NEW d \in 1 .. N, NEW p, "group" \in DOMAIN p, p.group = prov[d].group,
         prov' = [prov EXCEPT ![d] = p]
  PROVE  GroupsKept
  BY DEF GroupsKept, TypeOK

(* Nothing was posted.                                                     *)
LEMMA SameProviders == ASSUME TypeOK, UNCHANGED prov PROVE GroupsKept
  BY DEF GroupsKept, TypeOK

(* GetReporter knows four reporters.                                       *)
LEMMA ReportersAre == Reporters \subseteq {"checkrun", "commitstatus", "gitlab", "forgejo"}
  BY DEF Reporters, GetReporter, Providers

(* The reports of a scenario, in full or in part, do not touch it.         *)
LEMMA ReportedKeeps ==
  ASSUME TypeOK, NEW d \in 1 .. N, dests[d].reporter # "none", NEW s, NEW status
  PROVE  /\ "group" \in DOMAIN Reported(d, s, status)
         /\ Reported(d, s, status).group = prov[d].group
         /\ "group" \in DOMAIN HalfReported(d, s, status)
         /\ HalfReported(d, s, status).group = prov[d].group
<1> DEFINE Same(p) == "group" \in DOMAIN p /\ p.group = prov[d].group
<1>1. Same(prov[d])  BY DEF TypeOK
<1>2. dests[d].reporter \in {"checkrun", "commitstatus", "gitlab", "forgejo"}
  <2>1. dests[d] \in Destinations  BY DEF TypeOK, N
  <2> QED  BY <2>1, ReportersAre, Zenon DEF Destinations
<1>3. ASSUME NEW p, Same(p), NEW state
      PROVE  /\ Same(CheckRunUpdated(p, s, state)) /\ Same(GitlabStatusSet(p, s, state))
             /\ Same(ForgejoStatusSet(p, s, state)) /\ Same(CommitStatusCreated(p, s, status, state))
             /\ Same(CommentEdited(p, s, status))
  BY <1>3 DEF CheckRunUpdated, GitlabStatusSet, ForgejoStatusSet, CommitStatusCreated, CommentEdited
<1> HIDE DEF Same
<1>4. Same(HalfReported(d, s, status))  BY <1>1, <1>3, Zenon DEF HalfReported
<1>5. Same(Reported(d, s, status))  BY <1>1, <1>2, <1>3, Zenon DEF Reported
<1> QED  BY <1>4, <1>5 DEF Same

(* The end of a step of the worker.                                        *)
LEMMA Concluded ==
  ASSUME ReportInv, Left(accepted'), Fair(srs', accepted'), GroupsKept,
         left' \in [Disturbances -> Nat],
         UNCHANGED <<dests, finished, young, canceled, test, note, cache>>
  PROVE  ReportInv'
<1>1. TypeOK'  BY DEF ReportInv, TypeOK, Left, Fair, GroupsKept, N
<1>2. Sound(w, accepted)'  BY DEF Left, Sound, Fit, Placed, N
<1>3. 1 \in 1 .. N  BY Destined DEF ReportInv
<1>4. (note' = "reported") => prov'[1].group # "nothing"
  BY <1>3 DEF ReportInv, GroupsKept
<1>5. w'.pc # "groupnote"  BY DEF Left
<1> QED  BY <1>1, <1>2, <1>4, <1>5 DEF ReportInv, Fair

-----------------------------------------------------------------------------
(* The steps of the worker, one lemma for each.                            *)

(* Start: the reconcile copies the cache, which is sound.                  *)
LEMMA StartStep == ASSUME ReportInv, Start PROVE ReportInv'
<1> DEFINE v == [Idle EXCEPT !.test = cache.test, !.mem = cache.srs, !.ann = cache.srs,
                             !.note = cache.note, !.at = 1, !.failed = dropped]
           new(pc) == [v EXCEPT !.pc = pc]
<1>1. TypeOK /\ N \in 1 .. MaxDests  BY Destined DEF ReportInv
<1>2. cache \in [test: [Scenarios -> Details], srs: Marks, note: Notes] /\ dropped \subseteq 1 .. MaxDests
  BY <1>1 DEF TypeOK
<1>3. v \in Workers
  <2>1. cache.test \in [Scenarios -> Details] /\ cache.srs \in Marks /\ cache.note \in Notes
    BY <1>2
  <2>2. 1 \in 0 .. MaxDests + 1 /\ dropped \in SUBSET (1 .. MaxDests) /\ Idle \in Workers
    BY <1>2, IdleType
  <2> QED  BY <2>1, <2>2, Zenon DEF Workers
<1>4. v.test = cache.test /\ v.mem = cache.srs /\ v.ann = cache.srs /\ v.at = 1
  BY IdleType DEF Workers
<1>5. PICK pc \in {"group", "dest"} : w' = new(pc)  BY DEF Start
<1> HIDE DEF v
<1>6. new(pc) \in Workers  BY <1>3, <1>5, ZenonT(30) DEF Workers, Pcs
<1>7. /\ new(pc).pc = pc /\ new(pc).test = cache.test /\ new(pc).mem = cache.srs
      /\ new(pc).ann = cache.srs /\ new(pc).at = 1
  BY <1>3, <1>4 DEF Workers
<1> HIDE DEF new
<1>8. Past(cache.test, cache.test)  BY <1>2, TimeType DEF Past
<1>9. Fit(new(pc), accepted)  BY <1>6, <1>7, <1>8 DEF Fit, ReportInv
<1>10. Placed(new(pc), accepted, pc)  BY <1>1, <1>5, <1>7 DEF Placed, Pcs, InRound
<1>11. queued' \in BOOLEAN /\ dropped' = dropped  BY Zenon DEF Start
<1>12. Left(accepted)  BY <1>1, <1>2, <1>5, <1>6, <1>7, <1>9, <1>10, <1>11 DEF Left, Sound
<1>13. TypeOK'
  <2>1. finished' \in BOOLEAN  BY DEF Start
  <2>2. UNCHANGED <<dests, young, canceled, test, srs, note, cache, prov, accepted, dropped, left>>
    BY DEF Start, snapshot, provider
  <2> QED  BY <1>1, <1>12, <2>1, <2>2, Zenon DEF TypeOK, Left, N
<1>14. UNCHANGED <<dests, test, srs, note, cache, prov, accepted>>
  BY DEF Start, snapshot, provider
<1>15. Sound(w, accepted)'  BY <1>12, <1>14 DEF Left, Sound, Fit, Placed, N
<1>16. w'.pc # "groupnote"  BY <1>12 DEF Left
<1> QED  BY <1>13, <1>14, <1>15, <1>16 DEF ReportInv

(* Initialize: no mark changes; a failed report may write the old ones.    *)
LEMMA InitializeStep == ASSUME ReportInv, Initialize PROVE ReportInv'
<1>1. TypeOK /\ Fit(w, accepted) /\ w.at \in 1 .. N /\ w.err \in BOOLEAN /\ w \in Workers
  BY AtWork DEF Initialize, Placed, InRound, Fit, Workers
<1>2. /\ UNCHANGED <<dests, finished, young, canceled, test, note, cache, prov, accepted>>
  BY DEF Initialize, quiet, provider
<1>3. SUFFICES Left(accepted) /\ Fair(srs', accepted) /\ left' \in [Disturbances -> Nat]
  BY <1>1, <1>2, Concluded, SameProviders
<1>4. Fair(srs, accepted) /\ left \in [Disturbances -> Nat]  BY <1>1, NothingAccepted DEF TypeOK
<1>5. Fit(Failed(w), accepted) /\ Failed(w).at = w.at /\ Fit(Rest(w), accepted)  BY <1>1, FailedFits
<1>6. CASE NextDest(Failed(w), w.err) /\ UNCHANGED <<srs, left>>
  BY <1>1, <1>4, <1>5, <1>6, NextDestLeaves
<1>7. CASE ReportFailed(Rest(w), FALSE) /\ UNCHANGED <<srs, left>>
  BY <1>1, <1>4, <1>5, <1>7, ReportFailedLeaves, Zenon
<1>8. CASE Disturb("fault") /\ ReportFailed(Rest(w), TRUE) /\ UNCHANGED srs
  BY <1>1, <1>4, <1>5, <1>8, ReportFailedLeaves, Spent, Zenon DEF Disturbances
<1>9. CASE Disturb("reject") /\ ReportFailed(Rest(w), FALSE) /\ UNCHANGED srs
  BY <1>1, <1>4, <1>5, <1>9, ReportFailedLeaves, Spent, Zenon DEF Disturbances
<1>10. CASE UNCHANGED <<srs, left>> /\ (Goto(w, "save") \/ NextDest(w, FALSE))
  <2>1. Placed(w, accepted, "save")  BY <1>1 DEF Placed, Pcs
  <2> QED  BY <1>1, <1>4, <1>10, <2>1, NextDestLeaves, GotoLeaves, Zenon
<1>11. CASE /\ dest.reporter # "none" /\ UNCHANGED <<srs, left>>
            /\ Goto([w EXCEPT !.todo = Newer, !.failed = @ \ {w.at}], "post")
  <2> DEFINE v == [w EXCEPT !.todo = Newer, !.failed = @ \ {w.at}]
  <2>1. Newer \subseteq Scenarios  BY DEF Newer, Present
  <2>2. v \in Workers  BY <1>1, <2>1, Zenon DEF Workers
  <2>3. v.mem = w.mem /\ v.ann = w.ann /\ v.test = w.test /\ v.at = w.at  BY <1>1 DEF Workers
  <2> HIDE DEF v
  <2>4. Fit(v, accepted)  BY <1>1, <2>2, <2>3, FitSame
  <2>5. Placed(v, accepted, "post")  BY <1>1, <1>11, <2>3 DEF Placed, Pcs, dest
  <2>6. Goto(v, "post")  BY <1>11 DEF v
  <2> QED  BY <1>1, <1>4, <1>11, <2>4, <2>5, <2>6, GotoLeaves
<1>12. CASE Disturb("fault") /\ WriteOK(w) /\ NextDest(Failed(Written(w)), TRUE)
  <2>1. Fit(Written(w), accepted) /\ Written(w).at = w.at  BY <1>1, WrittenFits, Zenon
  <2>2. Fit(Failed(Written(w)), accepted) /\ Failed(Written(w)).at = w.at
    BY <1>1, <2>1, FailedFits, Zenon
  <2>3. Left(accepted)  BY <1>1, <1>12, <2>2, NextDestLeaves, Zenon
  <2>4. Fair(srs', accepted)  BY <1>1, <1>4, <1>12, WriteFair
  <2> QED  BY <1>1, <1>12, <2>3, <2>4, Spent DEF Disturbances
<1> QED  BY <1>6, <1>7, <1>8, <1>9, <1>10, <1>11, <1>12, Zenon DEF Initialize

(* PostScenario: a scenario is accepted before it is marked.               *)
LEMMA PostScenarioStep == ASSUME ReportInv, NEW s \in Scenarios, PostScenario(s) PROVE ReportInv'
<1> DEFINE rest == [w EXCEPT !.todo = @ \ {s}]
           said == Reported(w.at, s, w.test[s].status)
           half == HalfReported(w.at, s, w.test[s].status)
<1>1. /\ TypeOK /\ Fit(w, accepted) /\ w.at \in 1 .. N /\ w \in Workers
      /\ dests[w.at].reporter # "none"
  BY AtWork DEF PostScenario, Placed, InRound, Fit
<1>2. UNCHANGED <<dests, finished, young, canceled, test, srs, note, cache>>
  BY DEF PostScenario, quiet, snapshot
<1>3. SUFFICES /\ Left(accepted') /\ Fair(srs, accepted') /\ GroupsKept
               /\ left' \in [Disturbances -> Nat]
  BY <1>2, Concluded
<1>4. Fair(srs, accepted) /\ left \in [Disturbances -> Nat]  BY <1>1, NothingAccepted DEF TypeOK
<1>5. ASSUME NEW acc, Fit(w, acc) PROVE Fit(Failed(w), acc) /\ Failed(w).at = w.at
  BY <1>1, <1>5, FailedFits
<1>6. ASSUME Accept({s})
      PROVE  Fair(srs, accepted') /\ Fit(w, accepted') /\ w.test[s].time <= accepted'[s][w.at]
  <2>1. {s} \in SUBSET Scenarios /\ w.pc # "idle"  BY DEF PostScenario
  <2> QED  BY <1>1, <1>6, <2>1, AcceptFits
<1>7. /\ prov' = [prov EXCEPT ![w.at] = said] => GroupsKept
      /\ prov' = [prov EXCEPT ![w.at] = half] => GroupsKept
      /\ prov' = prov => GroupsKept
  <2>1. /\ "group" \in DOMAIN said /\ said.group = prov[w.at].group
        /\ "group" \in DOMAIN half /\ half.group = prov[w.at].group
    BY <1>1, ReportedKeeps
  <2> HIDE DEF said, half
  <2> QED  BY <1>1, <2>1, ProviderKeeps, SameProviders
<1>8. CASE /\ prov' = [prov EXCEPT ![w.at] = said] /\ Accept({s}) /\ UNCHANGED left
           /\ IF w.dirty THEN Goto([rest EXCEPT !.last = {s}], "write")
              ELSE IF rest.todo # {} THEN Goto(SetLastUpdateTime(rest, {s}), "post")
              ELSE AfterPosts(SetLastUpdateTime(rest, {s}))
  <2> DEFINE u == [rest EXCEPT !.last = {s}]
             v == SetLastUpdateTime(rest, {s})
  <2>1. /\ rest \in Workers /\ rest.mem = w.mem /\ rest.ann = w.ann /\ rest.test = w.test
        /\ rest.at = w.at
    BY <1>1, Zenon DEF Workers
  <2>2. /\ u \in Workers /\ u.mem = w.mem /\ u.ann = w.ann /\ u.test = w.test /\ u.at = w.at
        /\ u.last = {s}
    BY <1>1, Zenon DEF Workers
  <2>3. \/ Goto(u, "write") \/ Goto(v, "post") \/ AfterPosts(v)  BY <1>8
  <2> HIDE DEF rest, u
  <2>4. Fair(srs, accepted') /\ Fit(w, accepted') /\ w.test[s].time <= accepted'[s][w.at]
    BY <1>6, <1>8
  <2>5. Fit(rest, accepted') /\ Fit(u, accepted')  BY <2>1, <2>2, <2>4, FitSame
  <2>6. Fit(v, accepted') /\ v.at = w.at
    <3>1. accepted' \in Marks /\ {s} \in SUBSET Scenarios  BY <2>4 DEF Fair
    <3>2. \A x \in {s} : rest.test[x].time <= accepted'[x][rest.at]  BY <2>1, <2>4
    <3> QED  BY <1>1, <2>1, <2>5, <3>1, <3>2, MarkFits
  <2> HIDE DEF v
  <2>7. Placed(u, accepted', "write")  BY <1>1, <2>2, <2>4 DEF Placed, Pcs
  <2>8. Placed(v, accepted', "post")  BY <1>1, <2>6 DEF Placed, Pcs
  <2>9. Left(accepted')
    BY <1>1, <2>3, <2>5, <2>6, <2>7, <2>8, GotoLeaves, AfterPostsLeaves, ZenonT(30)
  <2> QED  BY <1>4, <1>7, <1>8, <2>4, <2>9
<1>9. CASE /\ Disturb("fault") /\ NextDest(Failed(w), TRUE) /\ UNCHANGED accepted
           /\ prov' \in {prov, [prov EXCEPT ![w.at] = half]}
  BY <1>1, <1>4, <1>5, <1>7, <1>9, NextDestLeaves, Spent, Zenon DEF Disturbances
<1>10. CASE /\ Disturb("lost") /\ prov' = [prov EXCEPT ![w.at] = said] /\ Accept({s})
            /\ NextDest(Failed(w), TRUE)
  <2>1. Fair(srs, accepted') /\ Fit(w, accepted')  BY <1>6, <1>10
  <2>2. Left(accepted')  BY <1>1, <1>5, <1>10, <2>1, NextDestLeaves, Zenon
  <2> QED  BY <1>1, <1>7, <1>10, <2>1, <2>2, Spent DEF Disturbances
<1>11. CASE /\ Disturb("reject") /\ AfterPosts([Failed(w) EXCEPT !.todo = {}])
            /\ UNCHANGED provider
  <2> DEFINE v == [Failed(w) EXCEPT !.todo = {}]
  <2>1. Fit(Failed(w), accepted) /\ Failed(w).at = w.at  BY <1>1, <1>5
  <2>2. Failed(w) \in Workers  BY <2>1 DEF Fit
  <2>3. /\ v \in Workers /\ v.mem = Failed(w).mem /\ v.ann = Failed(w).ann
        /\ v.test = Failed(w).test /\ v.at = Failed(w).at
    BY <2>2 DEF Workers
  <2>4. AfterPosts(v)  BY <1>11
  <2> HIDE DEF v
  <2>5. Left(accepted)  BY <1>1, <2>1, <2>3, <2>4, FitSame, AfterPostsLeaves
  <2>6. accepted' = accepted /\ prov' = prov  BY <1>11 DEF provider
  <2> QED  BY <1>1, <1>4, <1>7, <1>11, <2>5, <2>6, Spent DEF Disturbances
<1> QED  BY <1>8, <1>9, <1>10, <1>11, Zenon DEF PostScenario

(* WriteMarks: the scenario that is marked has been accepted.              *)
LEMMA WriteMarksStep == ASSUME ReportInv, WriteMarks PROVE ReportInv'
<1> DEFINE m == SetLastUpdateTime(Written(w), w.last)
           v == [m EXCEPT !.last = {}]
<1>1. /\ TypeOK /\ Fit(w, accepted) /\ w.at \in 1 .. N /\ w \in Workers
      /\ dests[w.at].reporter # "none"
      /\ \A s \in w.last : w.test[s].time <= accepted[s][w.at]
  BY AtWork DEF WriteMarks, Placed, InRound, Fit
<1>2. UNCHANGED <<dests, finished, young, canceled, test, note, cache, prov, accepted>>
  BY DEF WriteMarks, quiet, provider
<1>3. SUFFICES Left(accepted) /\ Fair(srs', accepted) /\ left' \in [Disturbances -> Nat]
  BY <1>1, <1>2, Concluded, SameProviders
<1>4. Fair(srs, accepted) /\ left \in [Disturbances -> Nat]  BY <1>1, NothingAccepted DEF TypeOK
<1>5. Fair(srs', accepted)  BY <1>1, <1>4, WriteFair, Zenon DEF WriteMarks
<1>6. /\ Fit(Written(w), accepted) /\ Written(w).at = w.at /\ Written(w).test = w.test
      /\ Fit([w EXCEPT !.ann = w.mem], accepted) /\ [w EXCEPT !.ann = w.mem].at = w.at
  BY <1>1, WrittenFits
<1>7. CASE UNCHANGED left /\ (Goto(v, "post") \/ AfterPosts(v))
  <2>1. Fit(m, accepted) /\ m.at = w.at
    <3>1. accepted \in Marks /\ w.last \in SUBSET Scenarios  BY <1>1 DEF TypeOK, Workers
    <3>2. \A s \in w.last : Written(w).test[s].time <= accepted[s][Written(w).at]
      BY <1>1, <1>6
    <3> QED  BY <1>1, <1>6, <3>1, <3>2, MarkFits
  <2>2. m \in Workers  BY <2>1 DEF Fit
  <2> HIDE DEF m
  <2>3. v \in Workers /\ v.mem = m.mem /\ v.ann = m.ann /\ v.test = m.test /\ v.at = m.at
    BY <2>2, Zenon DEF Workers
  <2> HIDE DEF v
  <2>4. Fit(v, accepted)  BY <2>1, <2>3, FitSame
  <2>5. Placed(v, accepted, "post")  BY <1>1, <2>1, <2>3 DEF Placed, Pcs
  <2> QED  BY <1>1, <1>4, <1>5, <1>7, <2>1, <2>3, <2>4, <2>5, GotoLeaves, AfterPostsLeaves
<1>8. CASE WriteFails(w) /\ NextDest(Failed([w EXCEPT !.ann = w.mem]), TRUE)
  <2> DEFINE u == [w EXCEPT !.ann = w.mem]
  <2>1. Fit(u, accepted) /\ u.at = w.at  BY <1>6
  <2>2. NextDest(Failed(u), TRUE) /\ Disturb("fault")  BY <1>8, Zenon DEF WriteFails
  <2> HIDE DEF u
  <2>3. Fit(Failed(u), accepted) /\ Failed(u).at = w.at  BY <1>1, <2>1, FailedFits
  <2>4. Left(accepted)  BY <1>1, <2>2, <2>3, NextDestLeaves, Zenon
  <2> QED  BY <1>1, <1>5, <2>2, <2>4, Spent DEF Disturbances
<1> QED  BY <1>7, <1>8, Zenon DEF WriteMarks

(* PostConsolidated: all scenarios are accepted before they are marked.    *)
LEMMA PostConsolidatedStep == ASSUME ReportInv, PostConsolidated PROVE ReportInv'
<1> DEFINE P == Present(w.test)
           marked == SetLastUpdateTime(w, P)
<1>1. TypeOK /\ Fit(w, accepted) /\ w.at \in 1 .. N /\ w \in Workers
  BY AtWork DEF PostConsolidated, Placed, InRound, Fit
<1>2. UNCHANGED <<dests, finished, young, canceled, test, note, cache>>
  BY DEF PostConsolidated, quiet
<1>3. SUFFICES /\ Left(accepted') /\ Fair(srs', accepted') /\ GroupsKept
               /\ left' \in [Disturbances -> Nat]
  BY <1>2, Concluded
<1>4. Fair(srs, accepted) /\ left \in [Disturbances -> Nat]  BY <1>1, NothingAccepted DEF TypeOK
<1>5. ASSUME NEW acc, Fit(w, acc) PROVE Fit(Failed(w), acc) /\ Failed(w).at = w.at
  BY <1>1, <1>5, FailedFits
<1>6. ASSUME Accept(P)
      PROVE  /\ Fair(srs, accepted') /\ Fit(w, accepted')
             /\ Fit(marked, accepted') /\ marked.at = w.at
  <2>1. P \in SUBSET Scenarios /\ w.pc # "idle"  BY DEF PostConsolidated, Present
  <2>2. /\ Fair(srs, accepted') /\ Fit(w, accepted')
        /\ \A s \in P : w.test[s].time <= accepted'[s][w.at]
    BY <1>1, <1>6, <2>1, AcceptFits
  <2>3. accepted' \in Marks  BY <2>2 DEF Fair
  <2> HIDE DEF P
  <2> QED  BY <1>1, <2>1, <2>2, <2>3, MarkFits
<1>7. (\E state : prov' = [prov EXCEPT ![w.at].all = state]) \/ prov' = prov  => GroupsKept
  <2>1. ASSUME NEW state, prov' = [prov EXCEPT ![w.at].all = state] PROVE GroupsKept
    <3> DEFINE p == [prov[w.at] EXCEPT !.all = state]
    <3>1. "group" \in DOMAIN p /\ p.group = prov[w.at].group  BY <1>1 DEF TypeOK
    <3>2. prov' = [prov EXCEPT ![w.at] = p]  BY <2>1
    <3> HIDE DEF p
    <3> QED  BY <1>1, <3>1, <3>2, ProviderKeeps, Zenon
  <2> QED  BY <1>1, <2>1, SameProviders, Zenon
<1> HIDE DEF P, marked
<1>8. CASE /\ \E state : prov' = [prov EXCEPT ![w.at].all = state]
           /\ Accept(P) /\ WriteOK(marked) /\ UNCHANGED left
           /\ AfterPosts([Written(marked) EXCEPT !.todo = {}])
  <2> DEFINE v == [Written(marked) EXCEPT !.todo = {}]
  <2>1. Fair(srs, accepted') /\ Fit(marked, accepted') /\ marked.at = w.at  BY <1>6, <1>8
  <2>2. Fit(Written(marked), accepted') /\ Written(marked).at = w.at  BY <1>1, <2>1, WrittenFits, Zenon
  <2>3. Written(marked) \in Workers  BY <2>2 DEF Fit
  <2>4. /\ v \in Workers /\ v.mem = Written(marked).mem /\ v.ann = Written(marked).ann
        /\ v.test = Written(marked).test /\ v.at = Written(marked).at
    BY <2>3, Zenon DEF Workers
  <2>5. AfterPosts(v)  BY <1>8
  <2> HIDE DEF v
  <2>6. Fit(v, accepted')  BY <2>2, <2>4, FitSame
  <2>7. Left(accepted')  BY <1>1, <2>2, <2>4, <2>5, <2>6, AfterPostsLeaves
  <2>8. Fair(srs', accepted')  BY <1>8, <2>1, WriteFair
  <2> QED  BY <1>4, <1>7, <1>8, <2>7, <2>8, Zenon
<1>9. CASE /\ \E state : prov' = [prov EXCEPT ![w.at].all = state]
           /\ Accept(P) /\ WriteFails(marked)
           /\ NextDest(Failed([marked EXCEPT !.ann = marked.mem]), TRUE)
  <2> DEFINE u == [marked EXCEPT !.ann = marked.mem]
  <2>1. Fair(srs, accepted') /\ Fit(marked, accepted') /\ marked.at = w.at  BY <1>6, <1>9
  <2>2. Fit(u, accepted') /\ u.at = w.at  BY <1>1, <2>1, WrittenFits, Zenon
  <2>3. NextDest(Failed(u), TRUE) /\ Disturb("fault")  BY <1>9, Zenon DEF WriteFails
  <2> HIDE DEF u
  <2>4. Fit(Failed(u), accepted') /\ Failed(u).at = w.at  BY <1>1, <2>2, FailedFits
  <2>5. Left(accepted')  BY <1>1, <2>3, <2>4, NextDestLeaves, Zenon
  <2>6. Fair(srs', accepted')  BY <1>9, <2>1, WriteFair
  <2> QED  BY <1>1, <1>7, <1>9, <2>3, <2>5, <2>6, Spent, Zenon DEF Disturbances
<1>10. CASE Disturb("fault") /\ NextDest(Failed(w), TRUE) /\ UNCHANGED <<srs, provider>>
  <2>1. accepted' = accepted /\ prov' = prov /\ srs' = srs  BY <1>10 DEF provider
  <2>2. Left(accepted)  BY <1>1, <1>5, <1>10, NextDestLeaves, Zenon
  <2> QED  BY <1>1, <1>4, <1>7, <1>10, <2>1, <2>2, Spent DEF Disturbances
<1>11. CASE /\ \E state : prov' = [prov EXCEPT ![w.at].all = state]
            /\ Disturb("lost") /\ Accept(P) /\ NextDest(Failed(w), TRUE) /\ UNCHANGED srs
  <2>1. Fair(srs, accepted') /\ Fit(w, accepted')  BY <1>6, <1>11
  <2>2. Left(accepted')  BY <1>1, <1>5, <1>11, <2>1, NextDestLeaves, Zenon
  <2> QED  BY <1>1, <1>7, <1>11, <2>1, <2>2, Spent, Zenon DEF Disturbances
<1>12. CASE /\ Disturb("reject") /\ AfterPosts([Failed(w) EXCEPT !.todo = {}])
            /\ UNCHANGED <<srs, provider>>
  <2> DEFINE v == [Failed(w) EXCEPT !.todo = {}]
  <2>1. Fit(Failed(w), accepted) /\ Failed(w).at = w.at  BY <1>1, <1>5
  <2>2. Failed(w) \in Workers  BY <2>1 DEF Fit
  <2>3. /\ v \in Workers /\ v.mem = Failed(w).mem /\ v.ann = Failed(w).ann
        /\ v.test = Failed(w).test /\ v.at = Failed(w).at
    BY <2>2, Zenon DEF Workers
  <2>4. AfterPosts(v)  BY <1>12
  <2> HIDE DEF v
  <2>5. Left(accepted)  BY <1>1, <2>1, <2>3, <2>4, FitSame, AfterPostsLeaves
  <2>6. accepted' = accepted /\ prov' = prov /\ srs' = srs  BY <1>12 DEF provider
  <2> QED  BY <1>1, <1>4, <1>7, <1>12, <2>5, <2>6, Spent DEF Disturbances
<1> QED  BY <1>8, <1>9, <1>10, <1>11, <1>12, Zenon DEF PostConsolidated, P, marked

(* PostComment: a comment marks nothing.                                   *)
LEMMA PostCommentStep == ASSUME ReportInv, PostComment PROVE ReportInv'
<1>1. TypeOK /\ Fit(w, accepted) /\ w.at \in 1 .. N /\ w \in Workers
  BY AtWork DEF PostComment, Placed, InRound, Fit
<1>2. UNCHANGED <<dests, finished, young, canceled, test, srs, note, cache, accepted>>
  BY DEF PostComment, quiet, snapshot
<1>3. SUFFICES Left(accepted) /\ GroupsKept /\ left' \in [Disturbances -> Nat]
  BY <1>2, Concluded, NothingAccepted
<1>4. left \in [Disturbances -> Nat]  BY <1>1 DEF TypeOK
<1>5. Fit(Failed(w), accepted) /\ Failed(w).at = w.at  BY <1>1, FailedFits
<1>6. GroupsKept
  <2>1. PICK text : prov' \in {prov, [prov EXCEPT ![w.at].notes = text]}  BY Zenon DEF PostComment
  <2> DEFINE p == [prov[w.at] EXCEPT !.notes = text]
  <2>2. "group" \in DOMAIN p /\ p.group = prov[w.at].group  BY <1>1 DEF TypeOK
  <2>3. prov' \in {prov, [prov EXCEPT ![w.at] = p]}  BY <2>1
  <2> HIDE DEF p
  <2> QED  BY <1>1, <2>2, <2>3, ProviderKeeps, SameProviders
<1>7. \/ UNCHANGED left /\ Goto(w, "save")
      \/ Disturb("fault") /\ (Goto(w, "save") \/ NextDest(Failed(w), TRUE))
      \/ Disturb("reject") /\ Goto(Failed(w), "save")
  BY Zenon DEF PostComment
<1>8. left' \in [Disturbances -> Nat]  BY <1>1, <1>4, <1>7, Spent, Zenon DEF Disturbances
<1>9. Placed(w, accepted, "save") /\ Placed(Failed(w), accepted, "save")
  BY <1>1, <1>5 DEF Placed, Pcs
<1>10. Left(accepted)  BY <1>1, <1>5, <1>7, <1>9, GotoLeaves, NextDestLeaves, Zenon
<1> QED  BY <1>6, <1>8, <1>10

(* Save: the marks that are written are the worker's.                      *)
LEMMA SaveStep == ASSUME ReportInv, Save PROVE ReportInv'
<1>1. TypeOK /\ Fit(w, accepted) /\ w.at \in 1 .. N /\ w \in Workers
  BY AtWork DEF Save, Placed, InRound, Fit
<1>2. UNCHANGED <<dests, finished, young, canceled, test, note, cache, prov, accepted>>
  BY DEF Save, quiet, provider
<1>3. SUFFICES Left(accepted) /\ Fair(srs', accepted) /\ left' \in [Disturbances -> Nat]
  BY <1>1, <1>2, Concluded, SameProviders
<1>4. Fair(srs, accepted) /\ left \in [Disturbances -> Nat]  BY <1>1, NothingAccepted DEF TypeOK
<1>5. Fair(srs', accepted)  BY <1>1, <1>4, WriteFair, Zenon DEF Save
<1>6. /\ Fit(Written(w), accepted) /\ Written(w).at = w.at
      /\ Fit([w EXCEPT !.ann = w.mem], accepted) /\ [w EXCEPT !.ann = w.mem].at = w.at
  BY <1>1, WrittenFits, Zenon
<1>7. CASE UNCHANGED left /\ (NextDest(Written(w), FALSE) \/ NextDest(w, FALSE))
  BY <1>1, <1>4, <1>5, <1>6, <1>7, NextDestLeaves, Zenon
<1>8. CASE WriteFails(w) /\ NextDest(Failed([w EXCEPT !.ann = w.mem]), TRUE)
  <2> DEFINE u == [w EXCEPT !.ann = w.mem]
  <2>1. Fit(u, accepted) /\ u.at = w.at  BY <1>6
  <2>2. NextDest(Failed(u), TRUE) /\ Disturb("fault")  BY <1>8, Zenon DEF WriteFails
  <2> HIDE DEF u
  <2>3. Fit(Failed(u), accepted) /\ Failed(u).at = w.at  BY <1>1, <2>1, FailedFits
  <2>4. Left(accepted)  BY <1>1, <2>2, <2>3, NextDestLeaves, Zenon
  <2> QED  BY <1>1, <1>5, <2>2, <2>4, Spent DEF Disturbances
<1> QED  BY <1>7, <1>8, Zenon DEF Save

(* The end of a step that concerns the group Snapshot.                     *)
LEMMA GroupConcluded ==
  ASSUME ReportInv, Sound(w', accepted), w' \in Workers, queued' \in BOOLEAN,
         dropped' \subseteq 1 .. MaxDests, note' \in Notes, left' \in [Disturbances -> Nat],
         DOMAIN prov' = 1 .. N, \A d \in 1 .. N : "group" \in DOMAIN prov'[d],
         (w'.pc = "groupnote" \/ note' = "reported") => prov'[1].group # "nothing",
         UNCHANGED <<dests, finished, young, canceled, test, srs, cache, accepted>>
  PROVE  ReportInv'
<1>1. TypeOK'  BY DEF ReportInv, TypeOK, N
<1>2. Sound(w, accepted)'  BY DEF Sound, Fit, Placed, N
<1> QED  BY <1>1, <1>2 DEF ReportInv

(* ReportGroupFailure: the provider has answered before the note is due.   *)
LEMMA ReportGroupFailureStep == ASSUME ReportInv, ReportGroupFailure PROVE ReportInv'
<1>1. TypeOK /\ Fit(w, accepted) /\ w \in Workers /\ 1 \in 1 .. N
  BY AtWork, Destined DEF ReportGroupFailure, Fit
<1>2. UNCHANGED <<dests, finished, young, canceled, test, srs, note, cache, accepted>>
  BY DEF ReportGroupFailure, quiet, snapshot
<1>3. w.failed \subseteq 1 .. MaxDests /\ young \in BOOLEAN /\ left \in [Disturbances -> Nat]
  BY <1>1 DEF Workers, TypeOK
<1>4. dests[1].reporter # "none" => GroupState(dests[1].reporter) # "nothing"
  <2>1. dests[1] \in Destinations  BY <1>1 DEF TypeOK, N
  <2>2. dests[1].reporter \in {"none", "checkrun", "commitstatus", "gitlab", "forgejo"}
    BY <2>1, ReportersAre, Zenon DEF Destinations
  <2> QED
    BY <2>2 DEF GroupState, Posted, GenerateCheckRunConclusion, generateGithubCommitState,
                GenerateGitlabCommitState, GenerateForgejoCommitState, FailedCreations, Failures,
                Waiting, Passes
<1>5. \/ UNCHANGED prov /\ w' = Idle
      \/ prov' = [prov EXCEPT ![1].group = "impossible"]
      \/ /\ dests[1].reporter # "none"
         /\ prov' = [prov EXCEPT ![1].group = GroupState(dests[1].reporter)]
  BY DEF ReportGroupFailure, GroupReportFailed, End
<1>6. /\ DOMAIN prov' = 1 .. N /\ \A d \in 1 .. N : "group" \in DOMAIN prov'[d]
      /\ w'.pc = "groupnote" \/ prov[1].group # "nothing" => prov'[1].group # "nothing"
  <2>1. CASE UNCHANGED prov /\ w' = Idle  BY <1>1, <2>1, IdleType DEF TypeOK
  <2>2. ASSUME NEW answer, answer # "nothing", prov' = [prov EXCEPT ![1].group = answer]
        PROVE  /\ DOMAIN prov' = 1 .. N /\ \A d \in 1 .. N : "group" \in DOMAIN prov'[d]
               /\ prov'[1].group # "nothing"
    <3> DEFINE p == [prov[1] EXCEPT !.group = answer]
    <3>1. "group" \in DOMAIN p /\ p.group = answer  BY <1>1 DEF TypeOK
    <3>2. prov' = [prov EXCEPT ![1] = p]  BY <2>2
    <3> HIDE DEF p
    <3> QED  BY <1>1, <2>2, <3>1, <3>2 DEF TypeOK
  <2> QED  BY <1>4, <1>5, <2>1, <2>2, Zenon
<1>7. \/ \E requeue \in BOOLEAN : End(requeue, w.failed)
      \/ Goto(w, "groupnote")
  BY <1>3, Zenon DEF ReportGroupFailure, GroupReportFailed
<1>8. Sound(w', accepted) /\ w' \in Workers /\ queued' \in BOOLEAN /\ dropped' \subseteq 1 .. MaxDests
  <2>1. Placed(w, accepted, "groupnote")  BY DEF Placed, Pcs, InRound
  <2>2. CASE Goto(w, "groupnote")  BY <1>1, <2>1, <2>2, GotoSound, Zenon DEF TypeOK
  <2>3. CASE \E requeue \in BOOLEAN : End(requeue, w.failed)
    BY <1>1, <1>3, <2>3, EndLeaves DEF Left
  <2> QED  BY <1>7, <2>2, <2>3
<1>9. left' \in [Disturbances -> Nat]
  <2>1. UNCHANGED left \/ Disturb("fault") \/ Disturb("reject")  BY Zenon DEF ReportGroupFailure
  <2> QED  BY <1>1, <1>3, <2>1, Spent DEF Disturbances
<1>10. note' \in Notes /\ (note' = "reported" => prov[1].group # "nothing")
  BY <1>1, <1>2 DEF ReportInv, TypeOK
<1> QED  BY <1>2, <1>6, <1>8, <1>9, <1>10, GroupConcluded

(* AnnotateGroupFailure: the provider still shows its answer.              *)
LEMMA AnnotateGroupFailureStep == ASSUME ReportInv, AnnotateGroupFailure PROVE ReportInv'
<1>1. TypeOK /\ w \in Workers /\ w.pc = "groupnote" /\ prov[1].group # "nothing"
  BY AtWork DEF AnnotateGroupFailure, Fit, ReportInv
<1>2. UNCHANGED <<dests, finished, young, canceled, test, srs, cache, prov, accepted>>
  BY DEF AnnotateGroupFailure, quiet, provider
<1>3. w.failed \subseteq 1 .. MaxDests /\ left \in [Disturbances -> Nat]  BY <1>1 DEF Workers, TypeOK
<1>4. \E requeue \in BOOLEAN : End(requeue, w.failed)  BY Zenon DEF AnnotateGroupFailure
<1>5. Left(accepted)  BY <1>1, <1>3, <1>4, EndLeaves
<1>6. left' \in [Disturbances -> Nat] /\ note' \in Notes
  BY <1>1, <1>3, Spent, Zenon DEF AnnotateGroupFailure, Disturbances, Notes, TypeOK
<1> QED  BY <1>1, <1>2, <1>5, <1>6, GroupConcluded DEF Left, TypeOK

-----------------------------------------------------------------------------
(* The steps around the worker.                                            *)

(* Update: the statuses on the API server only get newer.                  *)
LEMMA UpdateStep ==
  ASSUME ReportInv, NEW s \in Scenarios, NEW status \in Finals \cup {"Pending", "InProgress"},
         Update(s, status)
  PROVE  ReportInv'
<1>1. TypeOK  BY DEF ReportInv
<1>2. UNCHANGED <<dests, srs, note, cache, queued, young, canceled, w, prov, accepted, dropped>>
  BY DEF Update, provider
<1>3. test \in [Scenarios -> Details] /\ cache.test \in [Scenarios -> Details]  BY <1>1 DEF TypeOK
<1>4. test' \in [Scenarios -> Details]
  <2> DEFINE new == [status |-> status, time |-> test[s].time + 1]
  <2>1. test[s].time \in Nat  BY <1>3 DEF Details
  <2>2. new \in Details  BY <2>1 DEF Details
  <2>3. test' = [test EXCEPT ![s] = new]  BY DEF Update
  <2> HIDE DEF new
  <2> QED  BY <1>3, <2>2, <2>3, Zenon
<1>5. \A r \in Scenarios : test[r].time <= test'[r].time
  <2> SUFFICES ASSUME NEW r \in Scenarios PROVE test[r].time <= test'[r].time  OBVIOUS
  <2>1. test[r].time \in Nat  BY <1>3, TimeType
  <2>2. test'[r].time \in {test[r].time, test[r].time + 1}  BY <1>3 DEF Update
  <2> QED  BY <2>1, <2>2
<1>6. Past(cache.test, test')
  <2> SUFFICES ASSUME NEW r \in Scenarios PROVE cache.test[r].time <= test'[r].time  BY DEF Past
  <2>1. cache.test[r].time <= test[r].time  BY DEF ReportInv, Past
  <2>2. cache.test[r].time \in Nat /\ test[r].time \in Nat /\ test'[r].time \in Nat
    BY <1>3, <1>4, TimeType, Zenon
  <2> QED  BY <1>5, <2>1, <2>2
<1>7. finished' \in BOOLEAN /\ left' \in [Disturbances -> Nat]
  BY <1>1, Spent DEF Update, Disturbances, TypeOK
<1>8. TypeOK'  BY <1>1, <1>2, <1>4, <1>7, Zenon DEF TypeOK, N
<1>9. Sound(w, accepted)'  BY <1>2 DEF ReportInv, Sound, Fit, Placed, N
<1> QED  BY <1>2, <1>6, <1>8, <1>9 DEF ReportInv

(* The informer delivers the Snapshot, or the service restarts: the cache  *)
(* gets newer, and with it everything that is known of it.                 *)
LEMMA CacheStep ==
  ASSUME ReportInv, cache' = Now, w' \in {w, Idle}, queued' \in BOOLEAN,
         dropped' \subseteq 1 .. MaxDests, left' \in [Disturbances -> Nat],
         UNCHANGED <<dests, finished, young, canceled, test, srs, note, prov, accepted>>
  PROVE  ReportInv'
<1>1. TypeOK  BY DEF ReportInv
<1>2. /\ test \in [Scenarios -> Details] /\ cache.test \in [Scenarios -> Details]
      /\ srs \in Marks /\ accepted \in Marks /\ note \in Notes /\ w \in Workers
  BY <1>1 DEF TypeOK
<1>3. /\ cache'.test = test /\ cache'.srs = srs
      /\ cache' \in [test: [Scenarios -> Details], srs: Marks, note: Notes]
  BY <1>2 DEF Now
<1>4. TypeOK'  BY <1>1, <1>3, IdleType DEF TypeOK, N
<1>5. Known(accepted, test)
  <2> SUFFICES ASSUME NEW s \in Scenarios, NEW d \in 1 .. MaxDests
               PROVE  accepted[s][d] <= test[s].time
    BY DEF Known
  <2>1. accepted[s][d] <= cache.test[s].time /\ cache.test[s].time <= test[s].time
    BY DEF ReportInv, Known, Past
  <2>2. accepted[s][d] \in Nat /\ cache.test[s].time \in Nat /\ test[s].time \in Nat
    BY <1>2, MarkType, TimeType, Zenon
  <2> QED  BY <2>1, <2>2, EarlierStill, Zenon
<1>6. Past(test, test)  BY <1>2, TimeType DEF Past
<1>7. Fit(w, accepted) => Past(w.test, test)
  <2> SUFFICES ASSUME Fit(w, accepted), NEW s \in Scenarios PROVE w.test[s].time <= test[s].time
    BY DEF Past
  <2>1. w.test[s].time <= cache.test[s].time /\ cache.test[s].time <= test[s].time
    BY DEF ReportInv, Fit, Past
  <2>2. w.test[s].time \in Nat /\ cache.test[s].time \in Nat /\ test[s].time \in Nat
    BY <1>2, TimeType, ZenonT(30) DEF Workers
  <2> QED  BY <2>1, <2>2, EarlierStill, Zenon
<1>8. Sound(w, accepted)'
  <2>1. CASE w' = Idle  BY <2>1 DEF Sound
  <2>2. CASE w' = w  BY <1>3, <1>7, <2>2 DEF ReportInv, Sound, Fit, Placed, N
  <2> QED  BY <2>1, <2>2
<1>9. w'.pc = "groupnote" => w.pc = "groupnote"  BY IdleType
<1> QED  BY <1>3, <1>4, <1>5, <1>6, <1>8, <1>9 DEF ReportInv

(* A step that only ages or cancels the Snapshot, or fails its group.      *)
LEMMA OtherStep ==
  ASSUME ReportInv, young' \in BOOLEAN, canceled' \in BOOLEAN, note' \in {note, "failed"},
         left' \in [Disturbances -> Nat],
         UNCHANGED <<dests, finished, test, srs, cache, queued, w, prov, accepted, dropped>>
  PROVE  ReportInv'
<1>1. TypeOK'  BY DEF ReportInv, TypeOK, N, Notes
<1>2. Sound(w, accepted)'  BY DEF ReportInv, Sound, Fit, Placed, N
<1> QED  BY <1>1, <1>2 DEF ReportInv

(* At first nothing has been reported or marked.                           *)
LEMMA ReportInitial == ASSUME ReportInit PROVE ReportInv
<1>1. dests \in Layouts /\ N \in 1 .. MaxDests /\ left \in Budgets  BY DEF ReportInit, N
<1>2. left \in [Disturbances -> Nat]
  <2>1. left \in [Disturbances -> 0 .. MaxUpdates]  BY <1>1
  <2> QED  BY <2>1
<1>3. cache.test = Idle.test /\ cache.srs = Idle.mem /\ cache.note = "none"  BY DEF ReportInit
<1>4. DOMAIN prov = 1 .. N /\ \A d \in 1 .. N : "group" \in DOMAIN prov[d]
  BY DEF ReportInit, NoProvider
<1>5. cache \in [test: [Scenarios -> Details], srs: Marks, note: Notes]
  BY IdleType DEF ReportInit, Notes
<1>6. TypeOK  BY <1>1, <1>2, <1>4, <1>5, IdleType, Zenon DEF ReportInit, TypeOK, Notes
<1>7. Below(Idle.mem, Idle.mem) /\ Known(Idle.mem, Idle.test) /\ Past(Idle.test, Idle.test)
  BY IdleType DEF Below, Known, Past
<1>8. w = Idle /\ srs = Idle.mem /\ accepted = Idle.mem /\ test = Idle.test /\ note = "none"
  BY DEF ReportInit
<1> QED  BY <1>3, <1>6, <1>7, <1>8, IdleType DEF ReportInv, Sound

(* Every step keeps the invariant.                                         *)
LEMMA ReportKeeps == ASSUME ReportInv, [ReportNext]_vars PROVE ReportInv'
<1>1. TypeOK  BY DEF ReportInv
<1>2. CASE \E s \in Scenarios, status \in Finals \cup {"Pending", "InProgress"} : Update(s, status)
  BY <1>2, UpdateStep
<1>3. CASE GroupFails \/ Age \/ Cancel
  <2>1. left' \in [Disturbances -> Nat]
    BY <1>1, <1>3, Spent DEF GroupFails, Age, Cancel, Disturbances
  <2>2. /\ young' \in BOOLEAN /\ canceled' \in BOOLEAN /\ note' \in {note, "failed"}
        /\ UNCHANGED <<dests, finished, test, srs, cache, queued, w, prov, accepted, dropped>>
    BY <1>1, <1>3, Zenon DEF GroupFails, Age, Cancel, TypeOK, quiet, provider, snapshot
  <2> QED  BY <2>1, <2>2, OtherStep
<1>4. CASE Sync
  <2>1. /\ cache' = Now /\ queued' \in BOOLEAN
        /\ UNCHANGED <<dests, finished, young, canceled, test, srs, note, prov, accepted, w, dropped, left>>
    BY <1>4 DEF Sync, quiet, snapshot, provider
  <2> QED  BY <1>1, <2>1, CacheStep DEF TypeOK
<1>5. CASE Restart
  <2>1. /\ cache' = Now /\ queued' \in BOOLEAN /\ w' = Idle /\ Disturb("crash")
        /\ UNCHANGED <<dests, finished, young, canceled, test, srs, note, prov, accepted>>
    BY <1>5 DEF Restart, quiet, snapshot, provider
  <2>2. dropped' \in {dropped, 1 .. N}  BY <1>5 DEF Restart
  <2>3. dropped' \subseteq 1 .. MaxDests  BY <1>1, <2>2, Destined DEF TypeOK
  <2> QED  BY <1>1, <2>1, <2>3, CacheStep, Spent DEF Disturbances
<1>6. CASE ReportStep
  BY <1>6, StartStep, InitializeStep, PostScenarioStep, WriteMarksStep, PostConsolidatedStep,
     PostCommentStep, SaveStep, ReportGroupFailureStep, AnnotateGroupFailureStep DEF ReportStep
<1>7. CASE UNCHANGED vars
  BY <1>7 DEF vars, ReportInv, TypeOK, Sound, Fit, Placed, N, Below, Known, Past
<1> QED  BY <1>2, <1>3, <1>4, <1>5, <1>6, <1>7 DEF ReportNext

(* reportPerScenarioStatuses, WriteSnapshotReportStatus and the note about *)
(* the group Snapshot: nothing is recorded as reported that the provider   *)
(* of the destination did not accept, for any scenarios, destinations and  *)
(* providers, whatever is lost, refused, retried or restarted.             *)
THEOREM RecordedIsReported == ReportInit /\ [][ReportNext]_vars => []RecordedMeansReported
<1>1. ReportInit => ReportInv  BY ReportInitial
<1>2. ReportInv /\ [ReportNext]_vars => ReportInv'  BY ReportKeeps
<1>3. ReportInv => RecordedMeansReported
  <2> SUFFICES ASSUME ReportInv PROVE RecordedMeansReported  OBVIOUS
  <2>1. 1 .. N \subseteq 1 .. MaxDests  BY Destined DEF ReportInv
  <2> QED  BY <2>1 DEF ReportInv, RecordedMeansReported, MarkedMeansAccepted, GroupFailureReported, Below
<1> QED  BY <1>1, <1>2, <1>3, PTL
=============================================================================
