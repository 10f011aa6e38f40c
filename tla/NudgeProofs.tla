----------------------------- MODULE NudgeProofs -----------------------------
(***************************************************************************)
(* Proofs about nudging, for any sources, builds, targets, settings and    *)
(* disturbances: the batches of a target, what is recorded in them, and    *)
(* the builds that are marked as processed.                                *)
(*                                                                         *)
(* The lock makes the nudgeconfig controller's copy of the batches as good *)
(* as the batches: as long as the copy is fresh it mirrors them, and what  *)
(* the controller decided from it still holds when it is written.          *)
(***************************************************************************)
EXTENDS NudgeBatch, WellFoundedInduction, TLAPS

OpenPhases == {"Accumulating", "Blocked"}

(* A target has one open and one firing batch at most.                     *)
Orderly(bs) ==
  \A i, j \in DOMAIN bs : bs[i].target = bs[j].target =>
    /\ (bs[i].phase \in OpenPhases /\ bs[j].phase \in OpenPhases) => i = j
    /\ (bs[i].phase = "Firing" /\ bs[j].phase = "Firing") => i = j

(* With the policy Block a batch with a failed build waits or was forced.  *)
Complete(b, policy) ==
  (policy = "Block" /\ DOMAIN b.failed # {}) =>
    /\ b.phase # "Accumulating"
    /\ b.phase \in {"Firing", "Completed"} => b.forced

AllComplete(bs, policy) == \A i \in DOMAIN bs : Complete(bs[i], policy)

Fit(bs, policy) == bs \in Seq(Batches) /\ Orderly(bs) /\ AllComplete(bs, policy)

(* No other batch of the target of batch i is firing.                      *)
NoOtherFires(bs, i) ==
  \A j \in DOMAIN bs : (j # i /\ bs[j].target = bs[i].target) => bs[j].phase # "Firing"

(* A batch of target t has a result of source c.                           *)
Has(bs, t, c) ==
  \E i \in DOMAIN bs : bs[i].target = t /\ c \in DOMAIN bs[i].acc \cup DOMAIN bs[i].failed

(* Build b, which succeeded or not, is recorded for target t and source c. *)
Holds(bs, t, c, b, ok) ==
  \E i \in DOMAIN bs :
    /\ bs[i].target = t
    /\ LET f == IF ok THEN bs[i].acc ELSE bs[i].failed
       IN  c \in DOMAIN f /\ f[c] = b

(* The results that were recorded last are recorded in the list.           *)
Kept(l, bs) ==
  \A t \in Targets, c \in Sources :
    l[t][c].b # NoBuild => Holds(bs, t, c, l[t][c].b, l[t][c].ok)

(* Two lists record the same.                                              *)
Mirrors(bs, cs) ==
  /\ DOMAIN bs = DOMAIN cs
  /\ \A i \in DOMAIN bs : /\ bs[i].target = cs[i].target
                          /\ bs[i].acc = cs[i].acc /\ bs[i].failed = cs[i].failed

(* The copy of a reconcile of the nudgeconfig controller that works on it. *)
Working(k, bs, policy) ==
  /\ k.op # "none"
  /\ Fit(k.view, policy)
  /\ k.todo \subseteq DOMAIN k.view
  /\ \A j \in k.todo : k.view[j].phase = IF k.op = "due" THEN "Accumulating" ELSE "Firing"
  /\ k.fresh => Mirrors(k.view, bs)

(* It may fire batch i of its copy.                                        *)
CanFire(k) ==
  /\ k.i \in DOMAIN k.view /\ k.i \notin k.todo
  /\ NoOtherFires(k.view, k.i)
  /\ k.op = "force" \/ k.view[k.i].phase \in {"Accumulating", "Firing"}

ConfigInv(k, bs, policy) ==
  /\ k \in ConfigReconciles
  /\ k.pc \in {"scan", "config", "run", "patch"} => Working(k, bs, policy)
  /\ k.pc = "scan" => k.op # "force"
  /\ k.pc \in {"config", "run"} => CanFire(k)

(* What a reconcile of the build controller has done so far.               *)
BuildInv(w, bs, nudges, immediate) ==
  /\ w.pc = "finalizer" => w.todo = Targets
  /\ w.pc \in {"config", "run", "annotate"} => w.todo = {}
  /\ w.pc \in {"record", "config", "run", "annotate"} =>
       \A t \in Targets \ w.todo : Has(bs, t, FromOf[w.b])
  /\ (w.pc = "run" \/ (w.pc = "annotate" /\ w.ok /\ immediate)) => nudges[w.b].config # << >>

(* The inductive invariant.                                                *)
NudgeInv ==
  /\ TypeOK
  /\ Fit(batches, conf.policy)
  /\ Kept(last, batches)
  /\ ConfigInv(kw, batches, conf.policy)
  /\ BuildInv(bw, batches, nudge, conf.immediate)

-----------------------------------------------------------------------------
(* Lists of batches *)

(* The first of some batches is one of them (the loops over                *)
(* status.activeBatches take the first that fits).                         *)
LEMMA FirstIsOne ==
  ASSUME NEW S, S \subseteq Nat, S # {}
  PROVE  FirstOf(S) \in S
<1>1. \E i \in S : \A j \in S : ~(<<j, i>> \in OpToRel(<, Nat))
  BY WFMin, NatLessThanWellFounded, Zenon
<1>2. ASSUME NEW i \in Nat, NEW j \in Nat, j < i
      PROVE  <<j, i>> \in OpToRel(<, Nat)
  <2>1. <<j, i>> \in Nat \X Nat /\ <<j, i>>[1] < <<j, i>>[2]
    BY <1>2
  <2> QED BY <2>1 DEF OpToRel
<1>3. \E i \in S : \A j \in S : ~(j < i)
  BY <1>1, <1>2, Zenon
<1>4. \E i \in S : \A j \in S : i <= j
  BY <1>3
<1> QED BY <1>4, Zenon DEF FirstOf

(* The indices of a list are natural numbers.                              *)
LEMMA Indices ==
  ASSUME NEW bs \in Seq(Batches)
  PROVE  DOMAIN bs = 1 .. Len(bs) /\ DOMAIN bs \subseteq Nat /\ Len(bs) \in Nat
  OBVIOUS

(* No entries at all are entries (a new batch records nothing).            *)
LEMMA NoEntries == << >> \in Entries /\ DOMAIN << >> = {}
<1>1. << >> \in Seq(Builds) /\ Len(<< >>) = 0
  OBVIOUS
<1>2. << >> \in [1 .. 0 -> Builds] /\ DOMAIN << >> = 1 .. 0
  BY <1>1
<1>3. 1 .. 0 = {}
  OBVIOUS
<1>4. {} \in SUBSET Sources
  OBVIOUS
<1> QED BY <1>2, <1>3, <1>4 DEF Entries

(* Replacing one batch keeps a list fit: the other batches stay.           *)
LEMMA Replaced ==
  ASSUME NEW policy, NEW bs, Fit(bs, policy), NEW i \in DOMAIN bs, NEW r \in Batches,
         r.target = bs[i].target,
         r.phase \in OpenPhases => bs[i].phase \in OpenPhases,
         r.phase = "Firing" => NoOtherFires(bs, i),
         Complete(r, policy)
  PROVE  LET new == [bs EXCEPT ![i] = r]
         IN  /\ Fit(new, policy)
             /\ DOMAIN new = DOMAIN bs /\ new[i] = r
             /\ \A j \in DOMAIN bs : j # i => new[j] = bs[j]
<1> DEFINE new == [bs EXCEPT ![i] = r]
<1>1. bs \in Seq(Batches) /\ Orderly(bs) /\ AllComplete(bs, policy)
  BY DEF Fit
<1>2. new \in Seq(Batches) /\ DOMAIN new = DOMAIN bs
  BY <1>1
<1>3. \A j \in DOMAIN bs : new[j] = IF j = i THEN r ELSE bs[j]
  BY <1>1
<1> HIDE DEF new
<1>4. AllComplete(new, policy)
  BY <1>1, <1>2, <1>3 DEF AllComplete
<1>5. Orderly(new)
  <2> SUFFICES ASSUME NEW j \in DOMAIN bs, NEW k \in DOMAIN bs, new[j].target = new[k].target
               PROVE  /\ (new[j].phase \in OpenPhases /\ new[k].phase \in OpenPhases) => j = k
                      /\ (new[j].phase = "Firing" /\ new[k].phase = "Firing") => j = k
    BY <1>2 DEF Orderly
  <2>1. CASE j # i /\ k # i
    BY <1>1, <1>3, <2>1 DEF Orderly
  <2>2. CASE j = i /\ k # i
    BY <1>1, <1>3, <2>2 DEF Orderly, NoOtherFires
  <2>3. CASE j # i /\ k = i
    BY <1>1, <1>3, <2>3 DEF Orderly, NoOtherFires
  <2> QED BY <2>1, <2>2, <2>3
<1> QED BY <1>2, <1>3, <1>4, <1>5 DEF Fit, new

(* Entries with one more are entries, and the others stay.                 *)
LEMMA WithIs ==
  ASSUME NEW f \in Entries, NEW c \in Sources, NEW b \in Builds
  PROVE  /\ With(f, c, b) \in Entries
         /\ DOMAIN With(f, c, b) = DOMAIN f \cup {c} /\ With(f, c, b)[c] = b
         /\ \A x \in DOMAIN f : x # c => With(f, c, b)[x] = f[x]
<1>1. PICK S \in SUBSET Sources : f \in [S -> Builds]
  BY DEF Entries
<1>2. With(f, c, b) \in [S \cup {c} -> Builds] /\ S \cup {c} \in SUBSET Sources
  BY <1>1 DEF With
<1>3. With(f, c, b) \in Entries
  BY <1>2 DEF Entries
<1> QED BY <1>3 DEF With

(* The same for entries with one less.                                     *)
LEMMA WithoutIs ==
  ASSUME NEW f \in Entries, NEW c
  PROVE  /\ Without(f, c) \in Entries
         /\ DOMAIN Without(f, c) = DOMAIN f \ {c}
         /\ \A x \in DOMAIN f : x # c => Without(f, c)[x] = f[x]
<1>1. PICK S \in SUBSET Sources : f \in [S -> Builds]
  BY DEF Entries
<1>2. Without(f, c) \in [S \ {c} -> Builds] /\ S \ {c} \in SUBSET Sources
  BY <1>1 DEF Without
<1>3. Without(f, c) \in Entries
  BY <1>2 DEF Entries
<1> QED BY <1>3 DEF Without

(* What recording a build does to a batch that accepts builds: the build   *)
(* is there, and so is what was recorded for other sources.                *)
Updated(new, old, c, b, ok, policy) ==
  /\ new \in Batches
  /\ new.target = old.target /\ new.phase \in OpenPhases
  /\ Complete(new, policy)
  /\ c \in DOMAIN (IF ok THEN new.acc ELSE new.failed)
  /\ (IF ok THEN new.acc ELSE new.failed)[c] = b
  /\ \A x \in DOMAIN old.acc : x # c => x \in DOMAIN new.acc /\ new.acc[x] = old.acc[x]
  /\ \A x \in DOMAIN old.failed : x # c => x \in DOMAIN new.failed /\ new.failed[x] = old.failed[x]

(* scheduleBatchFire changes the timer only.                               *)
LEMMA ScheduledIs ==
  ASSUME NEW b \in Batches
  PROVE  \E x \in {"nil", "set", "passed"} : Scheduled(b) = [b EXCEPT !.timer = x]
<1>1. b.timer \in {"nil", "set", "passed"} /\ b = [b EXCEPT !.timer = b.timer]
  BY DEF Batches
<1>2. CASE b.phase = "Blocked"
  BY <1>1, <1>2 DEF Scheduled
<1>3. CASE b.phase # "Blocked"
  <2> DEFINE x == IF DOMAIN b.acc = {} THEN "nil" ELSE IF b.late THEN "passed" ELSE "set"
  <2>1. x \in {"nil", "set", "passed"} /\ Scheduled(b) = [b EXCEPT !.timer = x]
    BY <1>3 DEF Scheduled
  <2> QED BY <2>1
<1> QED BY <1>2, <1>3

(* recordBuildPLRForBatchedNudge *)
LEMMA SuccessUpdates ==
  ASSUME NEW policy, NEW old \in Batches, old.phase \in OpenPhases, Complete(old, policy),
         NEW c \in Sources, NEW b \in Builds
  PROVE  Updated(WithSuccess(old, c, b), old, c, b, TRUE, policy)
<1>1. old.acc \in Entries /\ old.failed \in Entries
  BY DEF Batches
<1>2. PICK acc \in Entries : /\ acc = With(old.acc, c, b)
                            /\ DOMAIN acc = DOMAIN old.acc \cup {c} /\ acc[c] = b
                            /\ \A x \in DOMAIN old.acc : x # c => acc[x] = old.acc[x]
  <2>1. /\ With(old.acc, c, b) \in Entries
        /\ DOMAIN With(old.acc, c, b) = DOMAIN old.acc \cup {c} /\ With(old.acc, c, b)[c] = b
        /\ \A x \in DOMAIN old.acc : x # c => With(old.acc, c, b)[x] = old.acc[x]
    BY <1>1, WithIs, ZenonT(30)
  <2> QED BY <2>1, Zenon
<1>3. PICK failed \in Entries : /\ failed = Without(old.failed, c)
                               /\ DOMAIN failed = DOMAIN old.failed \ {c}
                               /\ \A x \in DOMAIN old.failed : x # c => failed[x] = old.failed[x]
  <2>1. /\ Without(old.failed, c) \in Entries
        /\ DOMAIN Without(old.failed, c) = DOMAIN old.failed \ {c}
        /\ \A x \in DOMAIN old.failed : x # c => Without(old.failed, c)[x] = old.failed[x]
    BY <1>1, WithoutIs, Zenon
  <2> QED BY <2>1, Zenon
<1>4. PICK phase \in OpenPhases :
        phase = IF DOMAIN failed = {} THEN "Accumulating" ELSE old.phase
  BY DEF OpenPhases
<1> DEFINE mid == [old EXCEPT !.acc = acc, !.failed = failed, !.phase = phase]
<1>5. WithSuccess(old, c, b) = Scheduled(mid)
  BY <1>2, <1>3, <1>4 DEF WithSuccess
<1>6. /\ mid \in Batches
      /\ mid.target = old.target /\ mid.phase = phase /\ mid.forced = old.forced
      /\ mid.acc = acc /\ mid.failed = failed
  BY Zenon DEF Batches, OpenPhases
<1> HIDE DEF mid
<1>7. PICK x \in {"nil", "set", "passed"} : Scheduled(mid) = [mid EXCEPT !.timer = x]
  BY <1>6, ScheduledIs
<1>8. PICK new \in Batches :
        /\ new = WithSuccess(old, c, b)
        /\ new.target = old.target /\ new.phase = phase /\ new.forced = old.forced
        /\ new.acc = acc /\ new.failed = failed
  <2>1. [mid EXCEPT !.timer = x] \in Batches
    BY <1>6 DEF Batches
  <2>2. LET n == [mid EXCEPT !.timer = x]
        IN  /\ n.target = mid.target /\ n.phase = mid.phase /\ n.forced = mid.forced
            /\ n.acc = mid.acc /\ n.failed = mid.failed
    BY <1>6 DEF Batches
  <2> QED BY <1>5, <1>6, <1>7, <2>1, <2>2, Zenon
<1>9. Complete(new, policy)
  BY <1>3, <1>4, <1>8 DEF Complete, OpenPhases
<1>10. Updated(new, old, c, b, TRUE, policy)
  BY <1>2, <1>3, <1>8, <1>9 DEF Updated
<1> QED BY <1>8, <1>10, Zenon

(* recordFailureForBatchedNudge *)
LEMMA FailureUpdates ==
  ASSUME NEW policy, NEW old \in Batches, old.phase \in OpenPhases, Complete(old, policy),
         NEW c \in Sources, NEW b \in Builds
  PROVE  Updated(WithFailure(old, c, b, policy), old, c, b, FALSE, policy)
<1>1. old.acc \in Entries /\ old.failed \in Entries
  BY DEF Batches
<1>2. CASE c \in DOMAIN old.failed /\ old.failed[c] = b
  <2>1. WithFailure(old, c, b, policy) = old
    BY <1>2 DEF WithFailure
  <2>2. Updated(old, old, c, b, FALSE, policy)
    BY <1>2 DEF Updated
  <2> QED BY <2>1, <2>2, Zenon
<1>3. CASE ~(c \in DOMAIN old.failed /\ old.failed[c] = b)
  <2>1. PICK acc \in Entries : /\ acc = Without(old.acc, c)
                              /\ DOMAIN acc = DOMAIN old.acc \ {c}
                              /\ \A x \in DOMAIN old.acc : x # c => acc[x] = old.acc[x]
    <3>1. /\ Without(old.acc, c) \in Entries
          /\ DOMAIN Without(old.acc, c) = DOMAIN old.acc \ {c}
          /\ \A x \in DOMAIN old.acc : x # c => Without(old.acc, c)[x] = old.acc[x]
      BY <1>1, WithoutIs, Zenon
    <3> QED BY <3>1, Zenon
  <2>2. PICK failed \in Entries : /\ failed = With(old.failed, c, b)
                                 /\ DOMAIN failed = DOMAIN old.failed \cup {c} /\ failed[c] = b
                                 /\ \A x \in DOMAIN old.failed : x # c => failed[x] = old.failed[x]
    <3>1. /\ With(old.failed, c, b) \in Entries
          /\ DOMAIN With(old.failed, c, b) = DOMAIN old.failed \cup {c} /\ With(old.failed, c, b)[c] = b
          /\ \A x \in DOMAIN old.failed : x # c => With(old.failed, c, b)[x] = old.failed[x]
      BY <1>1, WithIs, ZenonT(30)
    <3> QED BY <3>1, Zenon
  <2> DEFINE mid == [old EXCEPT !.acc = acc, !.failed = failed]
             blocked == [mid EXCEPT !.phase = "Blocked", !.timer = "nil"]
  <2>3. WithFailure(old, c, b, policy) = IF policy = "Block" THEN blocked ELSE mid
    BY <1>3, <2>1, <2>2 DEF WithFailure
  <2>4. /\ mid \in Batches
        /\ mid.target = old.target /\ mid.acc = acc /\ mid.failed = failed /\ mid.phase = old.phase
    BY Zenon DEF Batches
  <2>5. /\ blocked \in Batches
        /\ blocked.target = old.target /\ blocked.acc = acc /\ blocked.failed = failed
        /\ blocked.phase = "Blocked"
    <3> HIDE DEF mid
    <3> QED BY <2>4, Zenon DEF Batches
  <2> HIDE DEF mid, blocked
  <2>6. CASE policy = "Block"
    <3>1. Complete(blocked, policy) /\ blocked.phase \in OpenPhases
      BY <2>5 DEF Complete, OpenPhases
    <3>2. Updated(blocked, old, c, b, FALSE, policy)
      BY <2>1, <2>2, <2>5, <3>1 DEF Updated
    <3> QED BY <2>3, <2>6, <3>2, Zenon
  <2>7. CASE policy # "Block"
    <3>1. Complete(mid, policy) /\ mid.phase \in OpenPhases
      BY <2>4, <2>7 DEF Complete
    <3>2. Updated(mid, old, c, b, FALSE, policy)
      BY <2>1, <2>2, <2>4, <3>1 DEF Updated
    <3> QED BY <2>3, <2>7, <3>2, Zenon
  <2> QED BY <2>6, <2>7, Zenon
<1> QED BY <1>2, <1>3, Zenon
(* A new batch is a batch without builds.                                  *)
LEMMA NewBatchIs ==
  ASSUME NEW t \in Targets, NEW policy
  PROVE  /\ NewBatch(t) \in Batches
         /\ NewBatch(t).target = t /\ NewBatch(t).phase = "Accumulating"
         /\ Complete(NewBatch(t), policy)
<1>1. 0 \in 0 .. MaxRetries
  BY NudgeAssumption
<1>2. << >> \in Entries /\ DOMAIN << >> = {}
  BY NoEntries
<1>3. NewBatch(t) \in Batches
  BY <1>1, <1>2 DEF NewBatch, Batches
<1>4. /\ NewBatch(t).target = t /\ NewBatch(t).phase = "Accumulating"
      /\ NewBatch(t).failed = << >>
  BY DEF NewBatch
<1> QED BY <1>2, <1>3, <1>4 DEF Complete

(* findOrCreateAcceptingBatch: the list has an open batch of the target in *)
(* the end, and nothing else has changed.                                  *)
LEMMA AcceptingIs ==
  ASSUME NEW policy, NEW bs, Fit(bs, policy), NEW t \in Targets
  PROVE  \E i, cs :
           /\ Accepting(bs, t) = <<i, cs>>
           /\ Fit(cs, policy)
           /\ i \in DOMAIN cs /\ cs[i].target = t /\ cs[i].phase \in OpenPhases
           /\ DOMAIN bs \subseteq DOMAIN cs
           /\ \A j \in DOMAIN bs : cs[j] = bs[j]
<1>1. bs \in Seq(Batches) /\ Orderly(bs) /\ AllComplete(bs, policy)
  BY DEF Fit
<1>2. DOMAIN bs = 1 .. Len(bs) /\ DOMAIN bs \subseteq Nat /\ Len(bs) \in Nat
  BY <1>1, Indices
<1> DEFINE open == InPhase(bs, t, {"Accumulating", "Blocked"})
<1>3. open \subseteq DOMAIN bs
  BY DEF InPhase
<1>4. CASE open # {}
  <2>1. FirstOf(open) \in open
    <3> HIDE DEF open
    <3> QED BY <1>2, <1>3, <1>4, FirstIsOne
  <2>2. Accepting(bs, t) = <<FirstOf(open), bs>>
    BY <1>4 DEF Accepting
  <2>3. /\ FirstOf(open) \in DOMAIN bs /\ bs[FirstOf(open)].target = t
        /\ bs[FirstOf(open)].phase \in OpenPhases
    BY <2>1 DEF InPhase, OpenPhases
  <2> QED BY <2>2, <2>3
<1>5. CASE open = {}
  <2> DEFINE new == NewBatch(t)
             cs == Append(bs, new)
             i == Len(bs) + 1
  <2>1. /\ new \in Batches /\ new.target = t /\ new.phase = "Accumulating"
        /\ Complete(new, policy)
    BY NewBatchIs
  <2>2. Accepting(bs, t) = <<i, cs>>
    BY <1>5 DEF Accepting
  <2> HIDE DEF new
  <2>3. /\ cs \in Seq(Batches) /\ Len(cs) = i /\ cs[i] = new
        /\ \A j \in 1 .. Len(bs) : cs[j] = bs[j]
    BY <1>1, <2>1
  <2>4. DOMAIN cs = 1 .. i
    BY <2>3
  <2>5. \A j \in DOMAIN cs : j \in DOMAIN bs \/ j = i
    BY <1>2, <2>4
  <2> HIDE DEF cs
  <2>6. \A j \in DOMAIN bs : bs[j].target = t => bs[j].phase \notin OpenPhases
    BY <1>5 DEF InPhase, OpenPhases
  <2>7. Orderly(cs)
    <3> SUFFICES ASSUME NEW j \in DOMAIN cs, NEW k \in DOMAIN cs, cs[j].target = cs[k].target
                 PROVE  /\ (cs[j].phase \in OpenPhases /\ cs[k].phase \in OpenPhases) => j = k
                        /\ (cs[j].phase = "Firing" /\ cs[k].phase = "Firing") => j = k
      BY DEF Orderly
    <3> HIDE DEF i
    <3>1. CASE j \in DOMAIN bs /\ k \in DOMAIN bs
      BY <1>1, <1>2, <2>3, <3>1 DEF Orderly
    <3>2. CASE j = i /\ k \in DOMAIN bs
      BY <1>2, <2>1, <2>3, <2>6, <3>2
    <3>3. CASE j \in DOMAIN bs /\ k = i
      BY <1>2, <2>1, <2>3, <2>6, <3>3
    <3> QED BY <2>5, <3>1, <3>2, <3>3
  <2>8. AllComplete(cs, policy)
    BY <1>1, <1>2, <2>1, <2>3, <2>5 DEF AllComplete
  <2>9. Fit(cs, policy)
    BY <2>3, <2>7, <2>8 DEF Fit
  <2>10. i \in DOMAIN cs /\ DOMAIN bs \subseteq DOMAIN cs
    BY <1>2, <2>4
  <2>11. cs[i].target = t /\ cs[i].phase \in OpenPhases
    BY <2>1, <2>3 DEF OpenPhases
  <2> QED BY <1>2, <2>2, <2>3, <2>9, <2>10, <2>11
<1> QED BY <1>4, <1>5

(* Recording a build: the list stays fit, has the build, and loses nothing *)
(* that was recorded for another target or another source.                 *)
LEMMA RecordedIs ==
  ASSUME Fit(batches, conf.policy), NEW t \in Targets, NEW b \in Builds, bw.ok \in BOOLEAN
  PROVE  /\ Fit(Recorded(t, b), conf.policy)
         /\ Holds(Recorded(t, b), t, FromOf[b], b, bw.ok)
         /\ \A u, c, x : \A ok \in BOOLEAN :
              (Holds(batches, u, c, x, ok) /\ ~(u = t /\ c = FromOf[b]))
                => Holds(Recorded(t, b), u, c, x, ok)
         /\ \A u, c : Has(batches, u, c) => Has(Recorded(t, b), u, c)
         /\ Has(Recorded(t, b), t, FromOf[b])
<1> DEFINE p == conf.policy
           src == FromOf[b]
<1>1. src \in Sources
  BY NudgeAssumption
<1>2. PICK i, cs :
           /\ Accepting(batches, t) = <<i, cs>>
           /\ Fit(cs, p)
           /\ i \in DOMAIN cs /\ cs[i].target = t /\ cs[i].phase \in OpenPhases
           /\ DOMAIN batches \subseteq DOMAIN cs
           /\ \A j \in DOMAIN batches : cs[j] = batches[j]
  BY AcceptingIs
<1>3. cs[i] \in Batches /\ Complete(cs[i], p)
  BY <1>2 DEF Fit, AllComplete
<1> DEFINE r == IF bw.ok THEN WithSuccess(cs[i], src, b) ELSE WithFailure(cs[i], src, b, p)
           new == [cs EXCEPT ![i] = r]
<1>4. Recorded(t, b) = new
  <2>1. Accepting(batches, t)[1] = i /\ Accepting(batches, t)[2] = cs
    BY <1>2
  <2> QED BY <2>1 DEF Recorded
<1>5. Updated(r, cs[i], src, b, bw.ok, p)
  <2>1. CASE bw.ok = TRUE
    BY <1>1, <1>2, <1>3, <2>1, SuccessUpdates, Zenon
  <2>2. CASE bw.ok = FALSE
    BY <1>1, <1>2, <1>3, <2>2, FailureUpdates, ZenonT(30)
  <2> QED BY <2>1, <2>2, Zenon
<1> HIDE DEF r, p, src
<1>6. /\ r \in Batches /\ r.target = t /\ r.phase \in OpenPhases /\ Complete(r, p)
  BY <1>2, <1>5 DEF Updated
<1>7. r.phase # "Firing"
  BY <1>6 DEF OpenPhases
<1>8. /\ Fit(new, p)
      /\ DOMAIN new = DOMAIN cs /\ new[i] = r
      /\ \A j \in DOMAIN cs : j # i => new[j] = cs[j]
  BY <1>2, <1>6, <1>7, Replaced, ZenonT(30)
<1> HIDE DEF new
<1>9. Holds(new, t, src, b, bw.ok)
  BY <1>2, <1>5, <1>6, <1>8 DEF Holds, Updated
<1>10. ASSUME NEW u, NEW c, NEW x, NEW ok \in BOOLEAN, Holds(batches, u, c, x, ok), ~(u = t /\ c = src)
       PROVE  Holds(new, u, c, x, ok)
  <2>1. PICK j \in DOMAIN batches :
          /\ batches[j].target = u
          /\ c \in DOMAIN (IF ok THEN batches[j].acc ELSE batches[j].failed)
          /\ (IF ok THEN batches[j].acc ELSE batches[j].failed)[c] = x
    BY <1>10 DEF Holds
  <2>2. j \in DOMAIN new /\ cs[j] = batches[j]
    BY <1>2, <1>8
  <2>3. CASE j # i
    BY <1>2, <1>8, <2>1, <2>2, <2>3, ZenonT(30) DEF Holds
  <2>4. CASE j = i
    <3>1. c # src
      BY <1>2, <1>10, <2>1, <2>2, <2>4, ZenonT(30)
    <3>2. /\ c \in DOMAIN (IF ok THEN r.acc ELSE r.failed)
          /\ (IF ok THEN r.acc ELSE r.failed)[c] = x
      BY <1>5, <2>1, <2>2, <2>4, <3>1 DEF Updated
    <3> QED BY <1>6, <1>8, <2>1, <2>2, <2>4, <3>2, <1>2, ZenonT(30) DEF Holds
  <2> QED BY <2>3, <2>4
<1>11. ASSUME NEW u, NEW c, Has(batches, u, c)
       PROVE  Has(new, u, c)
  <2>1. PICK j \in DOMAIN batches :
          batches[j].target = u /\ c \in DOMAIN batches[j].acc \cup DOMAIN batches[j].failed
    BY <1>11 DEF Has
  <2>2. j \in DOMAIN new /\ cs[j] = batches[j]
    BY <1>2, <1>8
  <2>3. CASE j # i
    BY <1>2, <1>8, <2>1, <2>2, <2>3 DEF Has
  <2>4. CASE j = i
    <3>1. c \in DOMAIN r.acc \cup DOMAIN r.failed
      BY <1>5, <2>1, <2>2, <2>4 DEF Updated
    <3> QED BY <1>2, <1>6, <1>8, <2>1, <2>2, <2>4, <3>1, ZenonT(30) DEF Has
  <2> QED BY <2>3, <2>4
<1>12. Has(new, t, src)
  BY <1>9 DEF Has, Holds
<1> QED BY <1>4, <1>8, <1>9, <1>10, <1>11, <1>12 DEF p, src

-----------------------------------------------------------------------------
(* The copy of the nudgeconfig controller *)

(* A reconcile that holds no copy has nothing to keep.                     *)
LEMMA RestingOK ==
  ASSUME NEW k \in ConfigReconciles, k.pc \notin {"scan", "config", "run", "patch"},
         NEW bs, NEW policy
  PROVE  ConfigInv(k, bs, policy)
  BY DEF ConfigInv

(* A reconcile between two operations (and KIdle: none at all).            *)
LEMMA IdleIs ==
  ASSUME NEW pc \in {"idle", "force", "due", "firing", "clear", "wake"}, NEW act \in Actions,
         NEW bs, NEW policy
  PROVE  ConfigInv([KIdle EXCEPT !.pc = pc, !.act = act], bs, policy) /\ ConfigInv(KIdle, bs, policy)
<1>1. << >> \in Seq(Batches)
  OBVIOUS
<1>2. NoAction \in Actions
  BY DEF NoAction, Actions
<1>3. KIdle \in ConfigReconciles /\ KIdle.pc = "idle"
  BY <1>1, <1>2 DEF KIdle, ConfigReconciles
<1> DEFINE k == [KIdle EXCEPT !.pc = pc, !.act = act]
<1>4. k \in ConfigReconciles /\ k.pc = pc
  BY <1>1, Zenon DEF KIdle, ConfigReconciles
<1>5. ConfigInv(KIdle, bs, policy)
  BY <1>3, RestingOK
<1>6. ConfigInv(k, bs, policy)
  <2> HIDE DEF k
  <2> QED BY <1>4, RestingOK
<1> QED BY <1>5, <1>6

(* Batch i of the copy may become r: what is recorded in it stays.         *)
MayBecome(k, i, r, policy) ==
  /\ i \in DOMAIN k.view /\ i \notin k.todo
  /\ r \in Batches /\ r.target = k.view[i].target
  /\ r.acc = k.view[i].acc /\ r.failed = k.view[i].failed
  /\ r.phase \in OpenPhases => k.view[i].phase \in OpenPhases
  /\ r.phase = "Firing" => NoOtherFires(k.view, i)
  /\ Complete(r, policy)

(* The copy after batch i has become r, and what is still true of it.      *)
Becomes(k, i, r, changed, pc, bs, policy) ==
  \E new \in ConfigReconciles :
    /\ new = [k EXCEPT !.view = [k.view EXCEPT ![i] = r], !.changed = changed, !.pc = pc]
    /\ Working(new, bs, policy)
    /\ new.pc = pc /\ new.op = k.op /\ new.i = k.i /\ new.todo = k.todo
    /\ DOMAIN new.view = DOMAIN k.view /\ new.view[i] = r
    /\ \A j \in DOMAIN k.view : j # i => new.view[j] = k.view[j]

(* A copy in which one batch got another phase or another run works on.    *)
LEMMA ViewReplaced ==
  ASSUME NEW k \in ConfigReconciles, NEW bs, NEW policy, Working(k, bs, policy),
         NEW i, NEW r, MayBecome(k, i, r, policy),
         NEW pc \in {"scan", "config", "run", "patch"}, NEW changed \in BOOLEAN
  PROVE  Becomes(k, i, r, changed, pc, bs, policy)
<1>m. /\ i \in DOMAIN k.view /\ i \notin k.todo
      /\ r \in Batches /\ r.target = k.view[i].target
      /\ r.acc = k.view[i].acc /\ r.failed = k.view[i].failed
      /\ r.phase \in OpenPhases => k.view[i].phase \in OpenPhases
      /\ r.phase = "Firing" => NoOtherFires(k.view, i)
      /\ Complete(r, policy)
  BY Zenon DEF MayBecome
<1> DEFINE vs == [k.view EXCEPT ![i] = r]
           new == [k EXCEPT !.view = vs, !.changed = changed, !.pc = pc]
<1>1. /\ k.op # "none" /\ Fit(k.view, policy) /\ k.todo \subseteq DOMAIN k.view
      /\ \A j \in k.todo : k.view[j].phase = IF k.op = "due" THEN "Accumulating" ELSE "Firing"
      /\ k.fresh => Mirrors(k.view, bs)
  BY DEF Working
<1>2. /\ Fit(vs, policy)
      /\ DOMAIN vs = DOMAIN k.view /\ vs[i] = r
      /\ \A j \in DOMAIN k.view : j # i => vs[j] = k.view[j]
  BY <1>1, <1>m, Replaced
<1> HIDE DEF vs
<1>3. vs \in Seq(Batches)
  BY <1>2 DEF Fit
<1>4. /\ new \in ConfigReconciles
      /\ new.pc = pc /\ new.op = k.op /\ new.i = k.i /\ new.todo = k.todo /\ new.view = vs
      /\ new.fresh = k.fresh
  BY <1>3, ZenonT(30) DEF ConfigReconciles
<1>5. ASSUME Mirrors(k.view, bs)
      PROVE  Mirrors(vs, bs)
  BY <1>2, <1>5, <1>m DEF Mirrors
<1>6. \A j \in k.todo : vs[j].phase = IF k.op = "due" THEN "Accumulating" ELSE "Firing"
  BY <1>1, <1>2, <1>m, ZenonT(30)
<1> HIDE DEF new
<1>7. Working(new, bs, policy)
  BY <1>1, <1>2, <1>4, <1>5, <1>6 DEF Working
<1> QED BY <1>2, <1>4, <1>7, Zenon DEF new, vs, Becomes

(* A batch that may be fired is fired in the copy (firingBatch is marked   *)
(* with its PipelineRun): the copy is patched or the loop goes on.         *)
LEMMA FiredOK ==
  ASSUME NEW k \in ConfigReconciles, NEW bs, NEW policy, Working(k, bs, policy), CanFire(k),
         NEW n \in 0 .. MaxRetries
  PROVE  ConfigInv(Fired(k, k.i, n), bs, policy)
<1> DEFINE i == k.i
           old == k.view[i]
           pc == IF k.op = "force" THEN "patch" ELSE "scan"
           r == [old EXCEPT !.phase = "Firing", !.run = n, !.forced = old.forced \/ k.op = "force"]
<1>1. /\ i \in DOMAIN k.view /\ i \notin k.todo /\ NoOtherFires(k.view, i)
      /\ k.op = "force" \/ old.phase \in {"Accumulating", "Firing"}
  BY DEF CanFire
<1>2. old \in Batches /\ Complete(old, policy)
  BY <1>1 DEF Working, Fit, AllComplete
<1>3. Fired(k, i, n) = [k EXCEPT !.view = [k.view EXCEPT ![i] = r], !.changed = TRUE, !.pc = pc]
  BY <1>1 DEF Fired, ConfigReconciles
<1> HIDE DEF old
<1>4. /\ r \in Batches /\ r.target = old.target /\ r.acc = old.acc /\ r.failed = old.failed
      /\ r.phase = "Firing" /\ r.forced = (old.forced \/ k.op = "force")
  BY <1>2, Zenon DEF Batches
<1> HIDE DEF r
<1>5. Complete(r, policy)
  BY <1>1, <1>2, <1>4, Zenon DEF Complete
<1>6. r.phase \notin OpenPhases
  BY <1>4 DEF OpenPhases
<1>7. pc \in {"scan", "patch"} /\ (pc = "scan" => k.op # "force")
  OBVIOUS
<1> HIDE DEF pc, i
<1>8. PICK new \in ConfigReconciles :
           /\ new = [k EXCEPT !.view = [k.view EXCEPT ![i] = r], !.changed = TRUE, !.pc = pc]
           /\ Working(new, bs, policy)
           /\ new.pc = pc /\ new.op = k.op
  <2>1. r.target = k.view[i].target /\ r.acc = k.view[i].acc /\ r.failed = k.view[i].failed
    BY <1>4 DEF old
  <2>2. pc \in {"scan", "config", "run", "patch"}
    BY <1>7
  <2>3. MayBecome(k, i, r, policy)
    BY <1>1, <1>4, <1>5, <1>6, <2>1, Zenon DEF MayBecome
  <2>4. Becomes(k, i, r, TRUE, pc, bs, policy)
    BY <2>2, <2>3, ViewReplaced, Zenon
  <2> QED BY <2>4, Zenon DEF Becomes
<1>9. ConfigInv(new, bs, policy)
  BY <1>7, <1>8 DEF ConfigInv
<1> QED BY <1>3, <1>8, <1>9 DEF i

(* A batch that cannot be fired fails in the copy.                         *)
LEMMA UnfiredOK ==
  ASSUME NEW k \in ConfigReconciles, NEW bs, NEW policy, Working(k, bs, policy), CanFire(k)
  PROVE  ConfigInv(Unfired(k, k.i), bs, policy)
<1> DEFINE i == k.i
           old == k.view[i]
           pc == IF k.op = "force" THEN "patch" ELSE "scan"
           r == [old EXCEPT !.phase = "Failed"]
<1>1. i \in DOMAIN k.view /\ i \notin k.todo
  BY DEF CanFire
<1>2. old \in Batches
  BY <1>1 DEF Working, Fit, AllComplete
<1>3. Unfired(k, i) = [k EXCEPT !.view = [k.view EXCEPT ![i] = r], !.changed = TRUE, !.pc = pc]
  BY <1>1 DEF Unfired, ConfigReconciles
<1> HIDE DEF old
<1>4. /\ r \in Batches /\ r.target = old.target /\ r.acc = old.acc /\ r.failed = old.failed
      /\ r.phase = "Failed"
  BY <1>2 DEF Batches
<1> HIDE DEF r
<1>5. Complete(r, policy) /\ r.phase \notin OpenPhases /\ r.phase # "Firing"
  BY <1>4 DEF Complete, OpenPhases
<1>6. pc \in {"scan", "patch"} /\ (pc = "scan" => k.op # "force")
  OBVIOUS
<1> HIDE DEF pc, i
<1>7. PICK new \in ConfigReconciles :
           /\ new = [k EXCEPT !.view = [k.view EXCEPT ![i] = r], !.changed = TRUE, !.pc = pc]
           /\ Working(new, bs, policy)
           /\ new.pc = pc /\ new.op = k.op
  <2>1. r.target = k.view[i].target /\ r.acc = k.view[i].acc /\ r.failed = k.view[i].failed
    BY <1>4 DEF old
  <2>2. pc \in {"scan", "config", "run", "patch"}
    BY <1>6
  <2>3. MayBecome(k, i, r, policy)
    BY <1>1, <1>4, <1>5, <2>1, Zenon DEF MayBecome
  <2>4. Becomes(k, i, r, TRUE, pc, bs, policy)
    BY <2>2, <2>3, ViewReplaced, Zenon
  <2> QED BY <2>4, Zenon DEF Becomes
<1>8. ConfigInv(new, bs, policy)
  BY <1>6, <1>7 DEF ConfigInv
<1> QED BY <1>3, <1>7, <1>8 DEF i

(* A step of the creation leaves the copy alone.                           *)
LEMMA CreatingOK ==
  ASSUME NEW k \in ConfigReconciles, NEW bs, NEW policy, Working(k, bs, policy), CanFire(k),
         NEW pc \in {"config", "run"}
  PROVE  ConfigInv([k EXCEPT !.pc = pc], bs, policy)
<1> DEFINE new == [k EXCEPT !.pc = pc]
<1>1. /\ new \in ConfigReconciles /\ new.pc = pc
      /\ new.op = k.op /\ new.view = k.view /\ new.todo = k.todo /\ new.i = k.i
      /\ new.fresh = k.fresh
  BY DEF ConfigReconciles
<1> HIDE DEF new
<1>2. Working(new, bs, policy)
  BY <1>1 DEF Working
<1>3. CanFire(new)
  BY <1>1 DEF CanFire
<1>4. ConfigInv(new, bs, policy)
  BY <1>1, <1>2, <1>3, ZenonT(30) DEF ConfigInv
<1> QED BY <1>4 DEF new

(* retryFiringBatch and fireBatch, up to the first creation.               *)
LEMMA PreparedOK ==
  ASSUME NEW k \in ConfigReconciles, NEW bs, NEW policy, Working(k, bs, policy), CanFire(k)
  PROVE  ConfigInv(Prepared(k, k.i), bs, policy) /\ ConfigInv(FireBatch(k, k.i), bs, policy)
<1>1. ConfigInv([k EXCEPT !.pc = "config"], bs, policy) /\ ConfigInv(Unfired(k, k.i), bs, policy)
  BY CreatingOK, UnfiredOK, Zenon
<1>2. ConfigInv(Prepared(k, k.i), bs, policy)
  BY <1>1 DEF Prepared
<1>3. k.view[k.i].run \in 0 .. MaxRetries
  <2>1. k.view \in Seq(Batches) /\ k.i \in DOMAIN k.view
    BY DEF CanFire, Working, Fit
  <2>2. k.view[k.i] \in Batches
    BY <2>1
  <2> QED BY <2>2 DEF Batches
<1>4. ConfigInv(Fired(k, k.i, k.view[k.i].run), bs, policy)
  BY <1>3, FiredOK
<1> QED BY <1>2, <1>4 DEF FireBatch

-----------------------------------------------------------------------------
(* Frames: what an action has to establish, by what it may change *)

(* A disturbance uses up its budget.                                       *)
LEMMA DisturbOK ==
  ASSUME left \in [Disturbances -> Nat], NEW d, Disturb(d)
  PROVE  left' \in [Disturbances -> Nat]
<1>1. CASE d \in Disturbances
  <2>1. left[d] \in Nat /\ left[d] > 0 /\ left' = [left EXCEPT ![d] = left[d] - 1]
    BY <1>1 DEF Disturb
  <2>2. left[d] - 1 \in Nat
    BY <2>1
  <2> QED BY <2>1, <2>2, Zenon
<1>2. CASE d \notin Disturbances
  BY <1>2, ZenonT(30) DEF Disturb
<1> QED BY <1>1, <1>2

(* A build reconcile keeps what it has done when nothing recorded and no   *)
(* ConfigMap is lost.                                                      *)
LEMMA BuildKept ==
  ASSUME NEW w, NEW bs, NEW cs, NEW ns, NEW ms, NEW immediate,
         BuildInv(w, bs, ns, immediate), w.pc # "idle" => w.b \in Builds,
         \A u, c : Has(bs, u, c) => Has(cs, u, c),
         \A b \in Builds : ns[b].config # << >> => ms[b].config # << >>
  PROVE  BuildInv(w, cs, ms, immediate)
  BY DEF BuildInv

(* A step of the nudgeconfig controller, of a user or of a nudge           *)
(* PipelineRun that writes no status.                                      *)
LEMMA ConfigFrame ==
  ASSUME NudgeInv, UNCHANGED <<buildSide, batches, last>>,
         ConfigInv(kw', batches, conf.policy),
         action' \in Actions, conds' \subseteq {"Ignored", "Rejected"},
         cq' \in BOOLEAN, alarms' \subseteq Nat, left' \in [Disturbances -> Nat],
         nudge' \in [Names -> Nudges],
         \A b \in Builds : nudge[b].config # << >> => nudge'[b].config # << >>
  PROVE  NudgeInv'
<1>1. TypeOK'
  BY ZenonT(30) DEF NudgeInv, TypeOK, buildSide, ConfigInv
<1>2. BuildInv(bw, batches, nudge', conf.immediate)
  <2>1. BuildInv(bw, batches, nudge, conf.immediate) /\ (bw.pc # "idle" => bw.b \in Builds)
    BY DEF NudgeInv, TypeOK
  <2> QED BY <2>1, BuildKept, ZenonT(30)
<1>3. UNCHANGED <<conf, bw, batches, last>>
  BY DEF buildSide
<1> QED BY <1>1, <1>2, <1>3, ZenonT(30) DEF NudgeInv

(* A step of the build controller or of a build that writes no status.     *)
LEMMA BuildFrame ==
  ASSUME NudgeInv, UNCHANGED <<conf, about, configSide, batches, action, conds, last>>,
         plr' \in [Builds -> PipelineRuns], queue' \subseteq Builds,
         bw' \in BuildReconciles, bw'.pc # "idle" => bw'.b \in Builds,
         BuildInv(bw', batches, nudge', conf.immediate),
         left' \in [Disturbances -> Nat], nudge' \in [Names -> Nudges]
  PROVE  NudgeInv'
<1>1. UNCHANGED <<conf, about, cq, alarms, kw, batches, action, conds, last>>
  BY ZenonT(30) DEF configSide
<1>2. TypeOK'
  BY <1>1, ZenonT(30) DEF NudgeInv, TypeOK
<1> QED BY <1>1, <1>2 DEF NudgeInv

(* A step that writes the status.                                          *)
LEMMA StatusFrame ==
  ASSUME NudgeInv, UNCHANGED <<conf, about, plr, queue, action, nudge>>,
         Fit(batches', conf.policy), Kept(last', batches'),
         ConfigInv(kw', batches', conf.policy), BuildInv(bw', batches', nudge, conf.immediate),
         bw' \in BuildReconciles, bw'.pc # "idle" => bw'.b \in Builds,
         conds' \subseteq {"Ignored", "Rejected"},
         cq' \in BOOLEAN, alarms' \subseteq Nat, left' \in [Disturbances -> Nat],
         last' \in [Targets -> [Sources -> [b: Builds \cup {NoBuild}, ok: BOOLEAN]]]
  PROVE  NudgeInv'
<1>1. batches' \in Seq(Batches) /\ kw' \in ConfigReconciles
  BY ZenonT(30) DEF Fit, ConfigInv
<1>2. TypeOK'
  BY <1>1, Zenon DEF NudgeInv, TypeOK
<1> QED BY <1>2 DEF NudgeInv

(* createIfNotExists never replaces a ConfigMap.                           *)
LEMMA CreateObjectOK ==
  ASSUME nudge \in [Names -> Nudges], NEW name, NEW pc, NEW payload \in Entries,
         CreateObject(name, pc, payload)
  PROVE  /\ nudge' \in [Names -> Nudges]
         /\ \A b \in Builds : nudge[b].config # << >> => nudge'[b].config # << >>
         /\ (name \in Builds /\ pc = "config" /\ payload # << >>) => nudge'[name].config # << >>
<1>1. Builds \subseteq Names
  BY DEF Names
<1>2. CASE name \notin Names
  <2>1. nudge' = nudge
    BY <1>2 DEF CreateObject
  <2> QED BY <1>1, <1>2, <2>1
<1>3. CASE name \in Names
  <2> DEFINE old == nudge[name]
             new == IF pc = "config"
                    THEN [old EXCEPT !.config = IF old.config = << >> THEN payload ELSE old.config]
                    ELSE [old EXCEPT !.run = IF old.run = "none" THEN "running" ELSE old.run]
  <2>1. nudge' = [nudge EXCEPT ![name] = new]
    BY DEF CreateObject
  <2>2. old \in Nudges
    BY <1>3
  <2> HIDE DEF old
  <2>3. /\ new \in Nudges
        /\ old.config # << >> => new.config # << >>
        /\ (pc = "config" /\ payload # << >>) => new.config # << >>
    BY <2>2 DEF Nudges
  <2> HIDE DEF new
  <2>4. nudge' \in [Names -> Nudges]
    BY <2>1, <2>3, Zenon
  <2>5. nudge'[name] = new /\ \A b \in Names : b # name => nudge'[b] = nudge[b]
    BY <1>3, <2>1
  <2> QED BY <1>1, <2>3, <2>4, <2>5, ZenonT(30) DEF old
<1> QED BY <1>2, <1>3

-----------------------------------------------------------------------------
(* The steps of the nudgeconfig controller *)

(* A step that changes the reconcile only.                                 *)
LEMMA KStepOK ==
  ASSUME NudgeInv, NEW new, ConfigInv(new, batches, conf.policy), KStep(new)
  PROVE  NudgeInv'
<1>1. UNCHANGED <<buildSide, batches, action, conds, cq, alarms, nudge, last, left>> /\ kw' = new
  BY ZenonT(30) DEF KStep
<1>2. /\ action \in Actions /\ conds \subseteq {"Ignored", "Rejected"} /\ cq \in BOOLEAN
      /\ alarms \subseteq Nat /\ left \in [Disturbances -> Nat] /\ nudge \in [Names -> Nudges]
  BY DEF NudgeInv, TypeOK
<1> QED BY <1>1, <1>2, ConfigFrame

(* A reconcile that ends with an error.                                    *)
LEMMA KFailOK ==
  ASSUME NudgeInv, KFail, left' \in [Disturbances -> Nat]
  PROVE  NudgeInv'
<1>1. /\ action \in Actions /\ conds \subseteq {"Ignored", "Rejected"}
      /\ alarms \subseteq Nat /\ nudge \in [Names -> Nudges]
  BY ZenonT(30) DEF NudgeInv, TypeOK
<1>2. ConfigInv(KIdle, batches, conf.policy)
  BY <1>1, IdleIs, Zenon
<1> QED BY <1>1, <1>2, ConfigFrame, ZenonT(30) DEF KFail

(* The same for a call that fails.                                         *)
LEMMA KErrorOK ==
  ASSUME NudgeInv, KError
  PROVE  NudgeInv'
<1>1. left \in [Disturbances -> Nat]
  BY DEF NudgeInv, TypeOK
<1>2. left' \in [Disturbances -> Nat]
  BY <1>1, DisturbOK, ZenonT(30) DEF KError
<1> QED BY <1>2, KFailOK, ZenonT(30) DEF KError

(* A condition on the action.                                              *)
LEMMA SetConditionOK ==
  ASSUME NudgeInv, NEW c \in {"Ignored", "Rejected"}, SetCondition(c)
  PROVE  NudgeInv'
<1>1. /\ action \in Actions /\ conds \subseteq {"Ignored", "Rejected"} /\ cq \in BOOLEAN
      /\ alarms \subseteq Nat /\ left \in [Disturbances -> Nat] /\ nudge \in [Names -> Nudges]
      /\ kw \in ConfigReconciles
  BY DEF NudgeInv, TypeOK
<1>2. kw' \in ConfigReconciles /\ kw'.pc = "clear"
  BY <1>1, Zenon DEF SetCondition, ConfigReconciles
<1>3. ConfigInv(kw', batches, conf.policy)
  BY <1>2, RestingOK
<1>4. left' \in [Disturbances -> Nat]
  BY <1>1, DisturbOK DEF SetCondition
<1>5. conds' \subseteq {"Ignored", "Rejected"}
  BY <1>1 DEF SetCondition
<1>6. UNCHANGED <<buildSide, batches, action, cq, alarms, nudge, last>>
  BY DEF SetCondition
<1> QED BY <1>1, <1>3, <1>4, <1>5, <1>6, ConfigFrame, ZenonT(30)

(* KBegin, KClear and KWake hold no copy of the status.                    *)
LEMMA RestingSteps ==
  ASSUME NudgeInv, KBegin \/ KClear \/ KWake
  PROVE  NudgeInv'
<1>1. /\ action \in Actions /\ conds \subseteq {"Ignored", "Rejected"} /\ cq \in BOOLEAN
      /\ alarms \subseteq Nat /\ left \in [Disturbances -> Nat] /\ nudge \in [Names -> Nudges]
      /\ kw \in ConfigReconciles /\ batches \in Seq(Batches)
  BY DEF NudgeInv, TypeOK
<1>2. CASE KBegin
  <2> DEFINE pc == IF action = NoAction THEN "due" ELSE "force"
  <2>1. kw' = [KIdle EXCEPT !.pc = pc, !.act = action]
    BY <1>2 DEF KBegin
  <2>2. ConfigInv(kw', batches, conf.policy)
    <3>1. pc \in {"idle", "force", "due", "firing", "clear", "wake"}
      OBVIOUS
    <3> HIDE DEF pc
    <3> QED BY <1>1, <2>1, <3>1, IdleIs, Zenon
  <2>3. UNCHANGED <<buildSide, batches, action, conds, alarms, nudge, last, left>> /\ cq' = FALSE
    BY <1>2 DEF KBegin
  <2> QED BY <1>1, <2>2, <2>3, ConfigFrame, Zenon
<1>3. CASE KClear
  <2>1. CASE KError
    BY <2>1, KErrorOK, ZenonT(30)
  <2>2. CASE ~KError
    <3>1. kw' \in ConfigReconciles /\ kw'.pc = "due"
      BY <1>1, <1>3, <2>2, ZenonT(30) DEF KClear, ConfigReconciles
    <3>2. ConfigInv(kw', batches, conf.policy)
      BY <3>1, RestingOK
    <3>3. NoAction \in Actions
      BY DEF NoAction, Actions
    <3>4. /\ action' = NoAction /\ cq' \in BOOLEAN
          /\ UNCHANGED <<buildSide, batches, conds, alarms, nudge, last, left>>
      BY <1>1, <1>3, <2>2, Zenon DEF KClear
    <3> QED BY <1>1, <3>2, <3>3, <3>4, ConfigFrame
  <2> QED BY <2>1, <2>2
<1>4. CASE KWake
  <2>1. /\ kw' = KIdle
        /\ UNCHANGED <<buildSide, batches, action, conds, nudge, last, left>>
        /\ cq' \in BOOLEAN
    BY <1>1, <1>4 DEF KWake
  <2>2. ConfigInv(KIdle, batches, conf.policy)
    BY <1>1, IdleIs, Zenon
  <2>3. Waiting({"set"}) \subseteq Nat
    BY <1>1, Indices DEF Waiting
  <2>4. alarms' \subseteq Nat
    BY <1>1, <1>4, <2>3, ZenonT(30) DEF KWake
  <2> QED BY <1>1, <2>1, <2>2, <2>4, ConfigFrame
<1> QED BY <1>2, <1>3, <1>4, ZenonT(30)

(* A copy of the status that was just read.                                *)
LEMMA ReadingOK ==
  ASSUME NudgeInv, NEW op \in {"force", "due", "firing"}, NEW S, S \subseteq DOMAIN batches,
         \A j \in S : batches[j].phase = IF op = "due" THEN "Accumulating" ELSE "Firing",
         NEW i \in Nat
  PROVE  \E k \in ConfigReconciles :
           /\ k = [Reading(op, S) EXCEPT !.i = i]
           /\ k.pc = "scan" /\ k.op = op /\ k.view = batches /\ k.todo = S /\ k.i = i
           /\ Working(k, batches, conf.policy)
<1> DEFINE k == [Reading(op, S) EXCEPT !.i = i]
<1>1. /\ kw.act \in Actions /\ batches \in Seq(Batches) /\ Fit(batches, conf.policy)
  BY DEF NudgeInv, TypeOK, ConfigReconciles
<1>2. S \in SUBSET Nat
  BY <1>1, Indices
<1>3. /\ k \in ConfigReconciles
      /\ k.pc = "scan" /\ k.op = op /\ k.view = batches /\ k.todo = S /\ k.i = i
  BY <1>1, <1>2, Zenon DEF Reading, KIdle, ConfigReconciles
<1> HIDE DEF k
<1>4. Mirrors(batches, batches)
  BY ZenonT(30) DEF Mirrors
<1>5. Working(k, batches, conf.policy)
  BY <1>1, <1>3, <1>4 DEF Working
<1> QED BY <1>3, <1>5, Zenon DEF k

(* ProcessForceFireAction: no batch of the target is firing, and the one   *)
(* that it takes is of the target.                                         *)
LEMMA KForceOK ==
  ASSUME NudgeInv, KForce
  PROVE  NudgeInv'
<1> DEFINE t == kw.act.target
           v == ForceVerdict(t, kw.act.partial)
           found == ForceFireBatches(batches, t)
           i == FirstOf(found)
<1>1. CASE v # "fire" /\ SetCondition(v)
  <2>1. v \in {"Ignored", "Rejected"}
    BY <1>1 DEF ForceVerdict
  <2> HIDE DEF v
  <2> QED BY <1>1, <2>1, SetConditionOK, ZenonT(30)
<1>2. CASE v = "fire" /\ KStep(FireBatch([Reading("force", {}) EXCEPT !.i = i], i))
  <2>1. found # {} /\ ~IsBatchFiringForTarget(batches, t)
    BY <1>2 DEF ForceVerdict
  <2>2. found \subseteq DOMAIN batches /\ \A j \in found : batches[j].target = t
    BY ZenonT(30) DEF ForceFireBatches, InPhase
  <2>3. DOMAIN batches \subseteq Nat
    BY Indices, ZenonT(30) DEF NudgeInv, TypeOK
  <2>4. i \in found
    <3> HIDE DEF found
    <3> QED BY <2>1, <2>2, <2>3, FirstIsOne
  <2> HIDE DEF i, found, v, t
  <2>5. PICK k \in ConfigReconciles :
           /\ k = [Reading("force", {}) EXCEPT !.i = i]
           /\ k.op = "force" /\ k.view = batches /\ k.todo = {} /\ k.i = i
           /\ Working(k, batches, conf.policy)
    BY <2>2, <2>3, <2>4, ReadingOK
  <2>6. NoOtherFires(batches, i)
    BY <2>1, <2>2, <2>4 DEF NoOtherFires, IsBatchFiringForTarget
  <2>7. CanFire(k)
    BY <2>2, <2>4, <2>5, <2>6 DEF CanFire
  <2>8. ConfigInv(FireBatch(k, i), batches, conf.policy)
    BY <2>5, <2>7, PreparedOK, Zenon
  <2> QED BY <1>2, <2>5, <2>8, KStepOK
<1> QED BY <1>1, <1>2 DEF KForce

(* The reconcile that reads the status has handled no batch yet.           *)
LEMMA ReadingStarts ==
  ASSUME NudgeInv, NEW op \in {"force", "due", "firing"}, NEW S, S \subseteq DOMAIN batches
  PROVE  Reading(op, S) = [Reading(op, S) EXCEPT !.i = 0]
<1> DEFINE k == Reading(op, S)
<1>1. kw.act \in Actions /\ batches \in Seq(Batches)
  BY DEF NudgeInv, TypeOK, ConfigReconciles, Fit
<1>2. S \in SUBSET Nat /\ 0 \in Nat
  BY <1>1, Indices
<1>3. k \in ConfigReconciles /\ k.i = 0
  BY <1>1, <1>2, Zenon DEF Reading, KIdle, ConfigReconciles
<1> HIDE DEF k
<1>4. k = [k EXCEPT !.i = 0]
  BY <1>3 DEF ConfigReconciles
<1> QED BY <1>4, ZenonT(30) DEF k

(* ProcessDueNudgeBatches and ProcessFiringNudgeBatches read the status.   *)
LEMMA KReadOK ==
  ASSUME NudgeInv, KRead
  PROVE  NudgeInv'
<1> DEFINE op == kw.pc
<1>1. op \in {"due", "firing"} /\ kw.act \in Actions
  BY DEF KRead, NudgeInv, TypeOK, ConfigReconciles
<1>2. CASE Handled(op) = {}
  <2>1. KStep([KIdle EXCEPT !.pc = AfterOp(op), !.act = kw.act])
    BY <1>2 DEF KRead
  <2>2. AfterOp(op) \in {"idle", "force", "due", "firing", "clear", "wake"}
    BY ZenonT(30) DEF AfterOp
  <2>3. ConfigInv([KIdle EXCEPT !.pc = AfterOp(op), !.act = kw.act], batches, conf.policy)
    BY <1>1, <2>2, IdleIs, Zenon
  <2> QED BY <2>1, <2>3, KStepOK
<1>3. CASE Handled(op) # {}
  <2>1. KStep(Reading(op, Handled(op)))
    BY <1>3 DEF KRead
  <2>2. /\ Handled(op) \subseteq DOMAIN batches
        /\ \A j \in Handled(op) : batches[j].phase = IF op = "due" THEN "Accumulating" ELSE "Firing"
    BY <1>1 DEF Handled
  <2> HIDE DEF op
  <2>3. Reading(op, Handled(op)) = [Reading(op, Handled(op)) EXCEPT !.i = 0]
    BY <1>1, <2>2, ReadingStarts, Zenon
  <2>4. PICK k \in ConfigReconciles :
           /\ k = [Reading(op, Handled(op)) EXCEPT !.i = 0]
           /\ k.pc = "scan" /\ k.op = op
           /\ Working(k, batches, conf.policy)
    BY <1>1, <2>2, ReadingOK
  <2>5. ConfigInv(k, batches, conf.policy)
    BY <1>1, <2>4 DEF ConfigInv
  <2> QED BY <2>1, <2>3, <2>4, <2>5, KStepOK
<1> QED BY <1>2, <1>3

(* One round of their loops.                                               *)
LEMMA KScanOK ==
  ASSUME NudgeInv, KScan
  PROVE  NudgeInv'
<1> DEFINE i == FirstOf(kw.todo)
           v == IF kw.op = "due" THEN DueVerdict(i) ELSE FiringVerdict(i)
           next == [kw EXCEPT !.todo = kw.todo \ {i}, !.i = i]
           p == conf.policy
           old == kw.view[i]
<1>1. /\ kw.pc = "scan" /\ kw.todo # {} /\ kw \in ConfigReconciles
      /\ Working(kw, batches, p) /\ kw.op # "force" /\ kw.op # "none"
  BY ZenonT(30) DEF KScan, NudgeInv, TypeOK, ConfigInv, Working
<1>2. /\ Fit(kw.view, p) /\ kw.todo \subseteq DOMAIN kw.view /\ kw.view \in Seq(Batches)
      /\ \A j \in kw.todo : kw.view[j].phase = IF kw.op = "due" THEN "Accumulating" ELSE "Firing"
  BY <1>1 DEF Working, Fit
<1>3. DOMAIN kw.view \subseteq Nat
  BY <1>2, Indices, ZenonT(30)
<1>4. i \in kw.todo /\ i \in DOMAIN kw.view /\ i \in Nat
  BY <1>1, <1>2, <1>3, FirstIsOne, ZenonT(30)
<1>5. /\ old \in Batches /\ Complete(old, p)
      /\ old.phase = IF kw.op = "due" THEN "Accumulating" ELSE "Firing"
  BY <1>2, <1>4 DEF Fit, AllComplete
<1> HIDE DEF i
<1>6. PICK k \in ConfigReconciles :
        /\ k = next /\ k.pc = "scan" /\ k.op = kw.op /\ k.view = kw.view /\ k.i = i
        /\ k.todo = kw.todo \ {i} /\ k.changed = kw.changed
        /\ Working(k, batches, p)
  <2>1. /\ next \in ConfigReconciles
        /\ next.pc = "scan" /\ next.op = kw.op /\ next.view = kw.view /\ next.i = i
        /\ next.todo = kw.todo \ {i} /\ next.fresh = kw.fresh /\ next.changed = kw.changed
    BY <1>1, <1>4, ZenonT(30) DEF ConfigReconciles
  <2> HIDE DEF next
  <2>2. Working(next, batches, p)
    BY <1>1, <2>1 DEF Working
  <2> QED BY <2>1, <2>2
<1>7. ASSUME NEW r \in Batches, NEW changed \in BOOLEAN,
             r.target = old.target, r.acc = old.acc, r.failed = old.failed,
             r.phase \in {"Firing", "Failed", "Completed"},
             r.phase = "Firing" => old.phase = "Firing", Complete(r, p)
      PROVE  Becomes(k, i, r, changed, "scan", batches, p)
  <2>1. r.phase = "Firing" => NoOtherFires(k.view, i)
    BY <1>2, <1>4, <1>6, <1>7 DEF Fit, Orderly, NoOtherFires
  <2>2. r.phase \notin OpenPhases
    BY <1>7 DEF OpenPhases
  <2>3. i \in DOMAIN k.view /\ i \notin k.todo
    BY <1>4, <1>6
  <2>4. r.target = k.view[i].target /\ r.acc = k.view[i].acc /\ r.failed = k.view[i].failed
    BY <1>6, <1>7
  <2>5. MayBecome(k, i, r, p)
    BY <1>7, <2>1, <2>2, <2>3, <2>4, Zenon DEF MayBecome
  <2>6. Working(k, batches, p)
    BY <1>6
  <2> QED BY <2>5, <2>6, ViewReplaced, Zenon
<1>8. CASE v = "error" /\ KFail /\ UNCHANGED left
  <2>1. left' \in [Disturbances -> Nat]
    BY <1>8 DEF NudgeInv, TypeOK
  <2> QED BY <1>8, <2>1, KFailOK, ZenonT(30)
<1>9. CASE v = "skip" /\ KStep(next)
  <2>1. ConfigInv(k, batches, p)
    BY <1>1, <1>6 DEF ConfigInv
  <2> QED BY <1>6, <1>9, <2>1, KStepOK
<1>10. CASE v \in {"Failed", "Completed"} /\ KStep([next EXCEPT !.view[i].phase = v, !.changed = TRUE])
  <2> DEFINE r == [old EXCEPT !.phase = v]
  <2>1. v = "Completed" => kw.op # "due"
    BY DEF DueVerdict
  <2> HIDE DEF v
  <2>2. /\ r \in Batches /\ r.target = old.target /\ r.acc = old.acc /\ r.failed = old.failed
        /\ r.phase = v /\ r.forced = old.forced
    <3> HIDE DEF old
    <3> QED BY <1>5, <1>10 DEF Batches
  <2>3. Complete(r, p)
    <3> HIDE DEF old, r
    <3> QED BY <1>5, <1>10, <2>1, <2>2 DEF Complete
  <2>4. r.phase \in {"Firing", "Failed", "Completed"} /\ r.phase # "Firing"
    BY <1>10, <2>2
  <2>5. [next EXCEPT !.view[i].phase = v, !.changed = TRUE]
          = [k EXCEPT !.view = [k.view EXCEPT ![i] = r], !.changed = TRUE, !.pc = "scan"]
    <3>1. [k EXCEPT !.view[i].phase = v, !.changed = TRUE]
            = [k EXCEPT !.view = [k.view EXCEPT ![i] = r], !.changed = TRUE, !.pc = "scan"]
      BY <1>4, <1>6, ZenonT(30) DEF ConfigReconciles
    <3> QED BY <1>6, <3>1
  <2> HIDE DEF r, old, next
  <2>6. PICK new \in ConfigReconciles :
          /\ new = [k EXCEPT !.view = [k.view EXCEPT ![i] = r], !.changed = TRUE, !.pc = "scan"]
          /\ Working(new, batches, p) /\ new.pc = "scan" /\ new.op = k.op
    <3>1. Becomes(k, i, r, TRUE, "scan", batches, p)
      BY <1>7, <2>2, <2>3, <2>4, Zenon
    <3> QED BY <3>1, Zenon DEF Becomes
  <2>7. ConfigInv(new, batches, p)
    BY <1>1, <1>6, <2>6 DEF ConfigInv
  <2> QED BY <1>10, <2>5, <2>6, <2>7, KStepOK
<1>11. CASE v = "fire" /\ KStep(FireBatch(next, i))
  <2>1. kw.op = "due" /\ ~IsBatchFiringForTarget(kw.view, old.target)
    BY <1>11 DEF DueVerdict, FiringVerdict
  <2>2. NoOtherFires(k.view, i)
    BY <1>6, <2>1 DEF NoOtherFires, IsBatchFiringForTarget
  <2>3. CanFire(k)
    BY <1>4, <1>5, <1>6, <2>1, <2>2 DEF CanFire
  <2>4. ConfigInv(FireBatch(k, i), batches, p)
    BY <1>6, <2>3, PreparedOK, Zenon
  <2> QED BY <1>6, <1>11, <2>4, KStepOK
<1>12. CASE v = "retry" /\ KStep(Prepared([next EXCEPT !.view[i].retry = @ + 1], i))
  <2> DEFINE r == [old EXCEPT !.retry = old.retry + 1]
  <2>1. kw.op # "due" /\ ~(old.retry >= MaxRetries)
    BY <1>12, ZenonT(30) DEF DueVerdict, FiringVerdict
  <2>2. old.retry \in 0 .. MaxRetries /\ MaxRetries \in Nat
    BY <1>5, NudgeAssumption, ZenonT(30) DEF Batches
  <2>3. old.retry + 1 \in 0 .. MaxRetries
    BY <2>1, <2>2
  <2>4. /\ r \in Batches /\ r.target = old.target /\ r.acc = old.acc /\ r.failed = old.failed
        /\ r.phase = old.phase /\ r.forced = old.forced
    <3> HIDE DEF old
    <3> QED BY <1>5, <2>3, ZenonT(30) DEF Batches
  <2>5. Complete(r, p)
    <3> HIDE DEF old, r
    <3> QED BY <1>5, <2>4 DEF Complete
  <2>6. r.phase = "Firing" /\ old.phase = "Firing"
    BY <1>5, <2>1, <2>4
  <2>7. [next EXCEPT !.view[i].retry = @ + 1]
          = [k EXCEPT !.view = [k.view EXCEPT ![i] = r], !.changed = k.changed, !.pc = "scan"]
    <3>1. [k EXCEPT !.view[i].retry = @ + 1]
            = [k EXCEPT !.view = [k.view EXCEPT ![i] = r], !.changed = k.changed, !.pc = "scan"]
      <4>1. k.view[i] = old /\ k.pc = "scan"
        BY <1>6
      <4>2. [k EXCEPT !.view[i].retry = @ + 1]
              = [k EXCEPT !.view = [k.view EXCEPT ![i] = [k.view[i] EXCEPT !.retry = k.view[i].retry + 1]]]
        OBVIOUS
      <4>3. ASSUME NEW view
            PROVE  [k EXCEPT !.view = view] = [k EXCEPT !.view = view, !.changed = k.changed, !.pc = "scan"]
        BY <4>1, Zenon DEF ConfigReconciles
      <4> QED BY <4>1, <4>2, <4>3, Zenon
    <3> QED BY <1>6, <3>1, ZenonT(30)
  <2>8. k.changed \in BOOLEAN
    BY DEF ConfigReconciles
  <2> HIDE DEF r, old, next, v
  <2>9. PICK new \in ConfigReconciles :
          /\ new = [k EXCEPT !.view = [k.view EXCEPT ![i] = r], !.changed = k.changed, !.pc = "scan"]
          /\ Working(new, batches, p) /\ new.op = k.op /\ new.i = k.i /\ new.todo = k.todo
          /\ DOMAIN new.view = DOMAIN k.view /\ new.view[i] = r
          /\ \A j \in DOMAIN k.view : j # i => new.view[j] = k.view[j]
    <3>1. Becomes(k, i, r, k.changed, "scan", batches, p)
      BY <1>7, <2>4, <2>5, <2>6, <2>8, Zenon
    <3> QED BY <3>1, Zenon DEF Becomes
  <2>10. NoOtherFires(new.view, i)
    <3>1. Orderly(new.view) /\ new.view[i].phase = "Firing" /\ i \in DOMAIN new.view
      BY <1>4, <1>6, <2>6, <2>9, ZenonT(30) DEF Working, Fit
    <3> QED BY <3>1 DEF Orderly, NoOtherFires
  <2>11. CanFire(new)
    BY <1>4, <1>6, <2>6, <2>9, <2>10, ZenonT(30) DEF CanFire
  <2>12. ConfigInv(Prepared(new, i), batches, p)
    BY <1>6, <2>9, <2>11, PreparedOK, ZenonT(30)
  <2> QED BY <1>12, <2>7, <2>9, <2>12, KStepOK
<1> QED BY <1>8, <1>9, <1>10, <1>11, <1>12, ZenonT(30) DEF KScan, i

(* The operation ends without a patch, or with one.                        *)
LEMMA NextOpOK ==
  ASSUME NudgeInv, NEW bs, NEW policy
  PROVE  ConfigInv(NextOp, bs, policy)
<1>1. kw.act \in Actions
  BY DEF NudgeInv, TypeOK, ConfigReconciles
<1>2. AfterOp(kw.op) \in {"idle", "force", "due", "firing", "clear", "wake"}
  BY DEF AfterOp
<1> QED BY <1>1, <1>2, IdleIs, ZenonT(30) DEF NextOp

(* The loop ends.                                                          *)
LEMMA KScannedOK ==
  ASSUME NudgeInv, KScanned
  PROVE  NudgeInv'
<1>1. CASE kw.changed
  <2> DEFINE k == [kw EXCEPT !.pc = "patch"]
  <2>1. Working(kw, batches, conf.policy) /\ kw \in ConfigReconciles
    BY DEF KScanned, NudgeInv, TypeOK, ConfigInv
  <2>2. /\ k \in ConfigReconciles /\ k.pc = "patch" /\ k.op = kw.op /\ k.view = kw.view
        /\ k.todo = kw.todo /\ k.fresh = kw.fresh
    BY <2>1, ZenonT(30) DEF ConfigReconciles
  <2>3. KStep(k)
    BY <1>1 DEF KScanned
  <2> HIDE DEF k
  <2>4. Working(k, batches, conf.policy)
    BY <2>1, <2>2, ZenonT(30) DEF Working
  <2>5. ConfigInv(k, batches, conf.policy)
    BY <2>2, <2>4 DEF ConfigInv
  <2> QED BY <2>3, <2>5, KStepOK
<1>2. CASE ~kw.changed
  <2>1. KStep(NextOp)
    BY <1>2 DEF KScanned
  <2> QED BY <2>1, NextOpOK, KStepOK
<1> QED BY <1>1, <1>2

(* The creation of the objects of a batch.                                 *)
LEMMA KCreateOK ==
  ASSUME NudgeInv, KCreate
  PROVE  NudgeInv'
<1> DEFINE b == kw.view[kw.i]
<1>1. /\ action \in Actions /\ conds \subseteq {"Ignored", "Rejected"} /\ cq \in BOOLEAN
      /\ alarms \subseteq Nat /\ left \in [Disturbances -> Nat] /\ nudge \in [Names -> Nudges]
  BY DEF NudgeInv, TypeOK
<1>2. /\ kw \in ConfigReconciles /\ Working(kw, batches, conf.policy) /\ CanFire(kw)
      /\ kw.pc \in {"config", "run"}
  BY ZenonT(30) DEF KCreate, NudgeInv, ConfigInv
<1>3. b \in Batches
  BY <1>2 DEF CanFire, Working, Fit
<1>4. b.acc \in Entries /\ b.retry \in 0 .. MaxRetries
  <2> HIDE DEF b
  <2> QED BY <1>3 DEF Batches
<1>5. CASE /\ CreateObject(<<kw.i, b.retry>>, kw.pc, b.acc)
           /\ kw' = IF kw.pc = "run" THEN Fired(kw, kw.i, b.retry) ELSE [kw EXCEPT !.pc = "run"]
           /\ UNCHANGED <<buildSide, batches, action, conds, cq, alarms, last, left>>
  <2>1. /\ ConfigInv(Fired(kw, kw.i, b.retry), batches, conf.policy)
        /\ ConfigInv([kw EXCEPT !.pc = "run"], batches, conf.policy)
    <3> HIDE DEF b
    <3> QED BY <1>2, <1>4, FiredOK, CreatingOK, ZenonT(30)
  <2>2. ConfigInv(kw', batches, conf.policy)
    BY <1>5, <2>1
  <2>3. /\ nudge' \in [Names -> Nudges]
        /\ \A x \in Builds : nudge[x].config # << >> => nudge'[x].config # << >>
    <3> HIDE DEF b
    <3> QED BY <1>1, <1>4, <1>5, CreateObjectOK, ZenonT(30)
  <2> QED BY <1>1, <1>5, <2>2, <2>3, ConfigFrame
<1>6. CASE /\ Disturb("fault")
           /\ kw' = Unfired(kw, kw.i)
           /\ UNCHANGED <<buildSide, batches, action, conds, cq, alarms, nudge, last>>
  <2>1. ConfigInv(kw', batches, conf.policy)
    BY <1>2, <1>6, UnfiredOK
  <2>2. left' \in [Disturbances -> Nat]
    BY <1>1, <1>6, DisturbOK, ZenonT(30)
  <2> QED BY <1>1, <1>6, <2>1, <2>2, ConfigFrame, ZenonT(30)
<1> QED BY <1>5, <1>6, ZenonT(30) DEF KCreate

(* The lists record the same, so that what the one holds the other does.   *)
LEMMA MirrorsHold ==
  ASSUME NEW bs, NEW cs, Mirrors(cs, bs)
  PROVE  /\ \A u, c : Has(bs, u, c) => Has(cs, u, c)
         /\ \A l : Kept(l, bs) => Kept(l, cs)
<1>1. ASSUME NEW u, NEW c, Has(bs, u, c)
      PROVE  Has(cs, u, c)
  BY <1>1, ZenonT(30) DEF Has, Mirrors
<1>2. ASSUME NEW u, NEW c, NEW x, NEW ok, Holds(bs, u, c, x, ok)
      PROVE  Holds(cs, u, c, x, ok)
  BY <1>2, ZenonT(30) DEF Holds, Mirrors
<1> QED BY <1>1, <1>2 DEF Kept

(* The status patch: it is taken only as long as the copy is fresh.        *)
LEMMA KPatchOK ==
  ASSUME NudgeInv, KPatch
  PROVE  NudgeInv'
<1> DEFINE p == conf.policy
<1>1. /\ action \in Actions /\ conds \subseteq {"Ignored", "Rejected"} /\ cq \in BOOLEAN
      /\ alarms \subseteq Nat /\ left \in [Disturbances -> Nat] /\ nudge \in [Names -> Nudges]
      /\ kw.act \in Actions /\ kw.op \in {"none", "force", "due", "firing"}
      /\ last \in [Targets -> [Sources -> [b: Builds \cup {NoBuild}, ok: BOOLEAN]]]
      /\ bw \in BuildReconciles /\ (bw.pc # "idle" => bw.b \in Builds)
  BY ZenonT(30) DEF NudgeInv, TypeOK, ConfigReconciles
<1>2. kw.pc = "patch" /\ Working(kw, batches, p) /\ kw \in ConfigReconciles
  BY ZenonT(30) DEF KPatch, NudgeInv, ConfigInv
<1>3. CASE /\ kw.fresh
           /\ batches' = [i \in DOMAIN batches |->
                           [kw.view[i] EXCEPT !.timer = batches[i].timer, !.late = batches[i].late]]
           /\ cq' = TRUE
           /\ kw' = NextOp
           /\ conds' = IF kw.op = "force" /\ kw.view[kw.i].phase = "Failed"
                       THEN conds \cup {"Rejected"} ELSE conds
           /\ UNCHANGED <<buildSide, action, alarms, nudge, last, left>>
  <2>1. Fit(kw.view, p) /\ Mirrors(kw.view, batches) /\ Fit(batches, p)
    BY <1>2, <1>3, ZenonT(30) DEF Working, NudgeInv
  <2>2. /\ kw.view \in Seq(Batches) /\ batches \in Seq(Batches)
        /\ Orderly(kw.view) /\ AllComplete(kw.view, p) /\ DOMAIN kw.view = DOMAIN batches
    BY <2>1, ZenonT(30) DEF Fit, Mirrors
  <2>3. DOMAIN batches = 1 .. Len(batches) /\ Len(batches) \in Nat
    BY <2>2, Indices
  <2>4. ASSUME NEW i \in DOMAIN batches
        PROVE  /\ batches'[i] \in Batches
               /\ batches'[i].target = kw.view[i].target /\ batches'[i].phase = kw.view[i].phase
               /\ batches'[i].acc = kw.view[i].acc /\ batches'[i].failed = kw.view[i].failed
               /\ batches'[i].forced = kw.view[i].forced
    <3>1. PICK x, y : /\ x \in Batches /\ y \in Batches /\ x = kw.view[i] /\ y = batches[i]
      BY <2>2, SMTT(30)
    <3>2. batches'[i] = [x EXCEPT !.timer = y.timer, !.late = y.late]
      BY <1>3, <3>1, Zenon
    <3>3. LET z == [x EXCEPT !.timer = y.timer, !.late = y.late]
          IN  /\ z \in Batches /\ z.target = x.target /\ z.phase = x.phase
              /\ z.acc = x.acc /\ z.failed = x.failed /\ z.forced = x.forced
      BY <3>1, ZenonT(30) DEF Batches
    <3> QED BY <3>1, <3>2, <3>3, ZenonT(30)
  <2>5. DOMAIN batches' = DOMAIN batches
    BY <1>3, Zenon
  <2>6. batches' \in Seq(Batches)
    <3>1. batches' \in [1 .. Len(batches) -> Batches]
      BY <1>3, <2>3, <2>4, ZenonT(30)
    <3> QED BY <2>3, <3>1
  <2>7. Orderly(batches')
    BY <2>2, <2>4, <2>5, SMTT(30) DEF Orderly
  <2>8. AllComplete(batches', p)
    BY <2>2, <2>4, <2>5 DEF AllComplete, Complete
  <2>9. Fit(batches', p)
    BY <2>6, <2>7, <2>8, ZenonT(30) DEF Fit
  <2>10. Mirrors(batches', batches)
    BY <2>1, <2>4, <2>5 DEF Mirrors
  <2>11. BuildInv(bw, batches, nudge, conf.immediate) /\ Kept(last, batches)
    BY ZenonT(30) DEF NudgeInv
  <2>12. BuildInv(bw, batches', nudge, conf.immediate) /\ Kept(last, batches')
    BY <1>1, <2>10, <2>11, BuildKept, MirrorsHold, ZenonT(30)
  <2>13. ConfigInv(kw', batches', p)
    BY <1>3, NextOpOK, ZenonT(30)
  <2>14. UNCHANGED <<conf, about, plr, queue, bw, action, alarms, nudge, last, left>>
    BY <1>3, ZenonT(30) DEF buildSide
  <2>15. conds' \subseteq {"Ignored", "Rejected"} /\ cq' \in BOOLEAN
    BY <1>1, <1>3, Zenon
  <2> QED BY <1>1, <2>9, <2>12, <2>13, <2>14, <2>15, StatusFrame, ZenonT(30)
<1>4. CASE ~kw.fresh /\ KStep([KIdle EXCEPT !.pc = kw.op, !.act = kw.act])
  <2>1. kw.op \in {"idle", "force", "due", "firing", "clear", "wake"}
    BY <1>1, <1>2, ZenonT(30) DEF Working
  <2>2. ConfigInv([KIdle EXCEPT !.pc = kw.op, !.act = kw.act], batches, p)
    BY <1>1, <2>1, IdleIs, Zenon
  <2> QED BY <1>4, <2>2, KStepOK, ZenonT(30)
<1>5. CASE KError
  BY <1>5, KErrorOK
<1>6. CASE SetCondition("Rejected")
  BY <1>6, SetConditionOK
<1> QED BY <1>3, <1>4, <1>5, <1>6, ZenonT(30) DEF KPatch

-----------------------------------------------------------------------------
(* The steps of the build controller *)

(* A build reconcile that has just begun or ends has done nothing.         *)
LEMMA ResettingOK ==
  ASSUME NEW w, w.pc \in {"idle", "skip", "release"} \/ (w.pc = "finalizer" /\ w.todo = Targets),
         NEW bs, NEW ns, NEW immediate
  PROVE  BuildInv(w, bs, ns, immediate)
  BY DEF BuildInv

(* A reconcile that is over.                                               *)
LEMMA BuildIdleIs ==
  /\ BuildIdle \in BuildReconciles /\ BuildIdle.pc = "idle"
  /\ NewPipelineRun \in PipelineRuns
<1>1. NewPipelineRun \in PipelineRuns
  BY ZenonT(30) DEF NewPipelineRun, PipelineRuns
<1> QED BY <1>1 DEF BuildIdle, BuildReconciles

(* What TypeOK says of the variables of the build side.                    *)
LEMMA BuildTypes ==
  ASSUME NudgeInv
  PROVE  /\ plr \in [Builds -> PipelineRuns] /\ queue \subseteq Builds
         /\ bw \in BuildReconciles /\ (bw.pc # "idle" => bw.b \in Builds)
         /\ left \in [Disturbances -> Nat] /\ nudge \in [Names -> Nudges]
         /\ BuildInv(bw, batches, nudge, conf.immediate)
  BY ZenonT(30) DEF NudgeInv, TypeOK

(* A reconcile that ends, with or without an error.                        *)
LEMMA BReturnOK ==
  ASSUME NudgeInv, bw.pc # "idle", NEW again \in BOOLEAN, BReturn(again),
         plr' \in [Builds -> PipelineRuns], left' \in [Disturbances -> Nat],
         UNCHANGED <<conf, about, configSide, batches, action, conds, nudge, last>>
  PROVE  NudgeInv'
<1>1. /\ queue \subseteq Builds /\ bw.b \in Builds /\ nudge \in [Names -> Nudges]
  BY BuildTypes
<1>2. bw' = BuildIdle /\ queue' \subseteq Builds
  BY <1>1 DEF BReturn
<1>3. BuildInv(bw', batches, nudge', conf.immediate)
  BY <1>2, BuildIdleIs, ResettingOK
<1> QED BY <1>1, <1>2, <1>3, BuildIdleIs, BuildFrame

(* A call that fails, and a build that is gone.                            *)
LEMMA BFailOK ==
  ASSUME NudgeInv, bw.pc # "idle", BFail \/ BGone
  PROVE  NudgeInv'
<1>1. plr \in [Builds -> PipelineRuns] /\ left \in [Disturbances -> Nat]
  BY BuildTypes
<1>2. CASE BFail
  <2>1. left' \in [Disturbances -> Nat]
    BY <1>1, <1>2, DisturbOK DEF BFail
  <2> QED BY <1>1, <1>2, <2>1, BReturnOK, ZenonT(30) DEF BFail
<1>3. CASE BGone
  BY <1>1, <1>3, BReturnOK, Zenon DEF BGone
<1> QED BY <1>2, <1>3

(* A step to another place of the reconcile, from where the obligations of *)
(* the new place are met.                                                  *)
LEMMA BGotoOK ==
  ASSUME NudgeInv, bw.pc # "idle", NEW pc \in {"record", "config", "run", "annotate", "skip", "release"},
         NEW new, new = [bw EXCEPT !.pc = pc], bw' = new,
         BuildInv(new, batches, nudge', conf.immediate),
         plr' \in [Builds -> PipelineRuns], queue' \subseteq Builds,
         left' \in [Disturbances -> Nat], nudge' \in [Names -> Nudges],
         UNCHANGED <<conf, about, configSide, batches, action, conds, last>>
  PROVE  NudgeInv'
<1>1. bw \in BuildReconciles /\ bw.b \in Builds
  BY BuildTypes
<1>2. new \in BuildReconciles /\ new.b \in Builds
  BY <1>1 DEF BuildReconciles
<1> HIDE DEF BuildInv
<1> QED BY <1>2, BuildFrame

(* The fields of a reconcile that moves on.                                *)
LEMMA MovedIs ==
  ASSUME NEW w \in BuildReconciles, NEW pc
  PROVE  \E new : /\ new = [w EXCEPT !.pc = pc]
                  /\ new.pc = pc /\ new.todo = w.todo /\ new.b = w.b /\ new.ok = w.ok
<1> DEFINE new == [w EXCEPT !.pc = pc]
<1>1. new.pc = pc /\ new.todo = w.todo /\ new.b = w.b /\ new.ok = w.ok
  BY DEF BuildReconciles
<1>2. new = [w EXCEPT !.pc = pc]
  OBVIOUS
<1> HIDE DEF new
<1> QED BY <1>1, <1>2, Zenon

(* The patch of a build PipelineRun queues it at most.                     *)
LEMMA PatchBuildOK ==
  ASSUME plr \in [Builds -> PipelineRuns], queue \subseteq Builds, NEW b \in Builds,
         NEW new \in PipelineRuns, PatchBuild(b, new)
  PROVE  plr' \in [Builds -> PipelineRuns] /\ queue' \subseteq Builds
  BY ZenonT(30) DEF PatchBuild

(* A reconcile begins.                                                     *)
LEMMA BBeginOK ==
  ASSUME NudgeInv, NEW b \in Builds, BBegin(b)
  PROVE  NudgeInv'
<1> DEFINE p == plr[b]
           pc == IF p.state = "gone" THEN "idle" ELSE FirstStep(b, p)
           new == [pc |-> pc, b |-> b, todo |-> Targets, ok |-> Succeeded(b, p), copy |-> p]
<1>1. /\ plr \in [Builds -> PipelineRuns] /\ queue \subseteq Builds
      /\ left \in [Disturbances -> Nat] /\ nudge \in [Names -> Nudges]
  BY BuildTypes, ZenonT(30)
<1>2. /\ queue' \subseteq Builds
      /\ bw' = IF pc = "idle" THEN BuildIdle ELSE new
      /\ UNCHANGED <<conf, about, plr, configSide, batches, action, conds, nudge, last, left>>
  BY <1>1, ZenonT(30) DEF BBegin
<1>3. pc \in {"idle", "release", "skip", "finalizer"}
  BY DEF FirstStep
<1>4. Succeeded(b, p) \in BOOLEAN /\ p \in PipelineRuns
  BY <1>1 DEF Succeeded
<1> HIDE DEF pc, p
<1>5. new \in BuildReconciles /\ new.pc = pc /\ new.todo = Targets /\ new.b = b
  BY <1>3, <1>4 DEF BuildReconciles
<1>6. BuildInv(bw', batches, nudge', conf.immediate)
  <2> HIDE DEF new
  <2> QED BY <1>2, <1>3, <1>5, BuildIdleIs, ResettingOK, ZenonT(30)
<1>7. bw' \in BuildReconciles /\ (bw'.pc # "idle" => bw'.b \in Builds)
  <2> HIDE DEF new
  <2> QED BY <1>2, <1>5, BuildIdleIs
<1> QED BY <1>1, <1>2, <1>6, <1>7, BuildFrame

(* AddFinalizerToPipelineRun                                               *)
LEMMA BFinalizerOK ==
  ASSUME NudgeInv, BFinalizer
  PROVE  NudgeInv'
<1> DEFINE p == plr[bw.b]
<1>1. /\ plr \in [Builds -> PipelineRuns] /\ queue \subseteq Builds /\ bw \in BuildReconciles
      /\ left \in [Disturbances -> Nat] /\ nudge \in [Names -> Nudges]
      /\ bw.pc = "finalizer" /\ bw.b \in Builds /\ bw.todo = Targets
  BY BuildTypes DEF BFinalizer, BuildInv
<1>2. /\ BuildInv([bw EXCEPT !.pc = "release"], batches, nudge, conf.immediate)
      /\ BuildInv([bw EXCEPT !.pc = "record"], batches, nudge, conf.immediate)
  <2>1. BuildInv([bw EXCEPT !.pc = "release"], batches, nudge, conf.immediate)
    <3>1. PICK new : /\ new = [bw EXCEPT !.pc = "release"]
                     /\ new.pc = "release" /\ new.todo = bw.todo /\ new.b = bw.b /\ new.ok = bw.ok
      BY <1>1, MovedIs, Zenon
    <3>2. BuildInv(new, batches, nudge, conf.immediate)
      BY <3>1, ResettingOK, Zenon
    <3> QED BY <3>1, <3>2
  <2>2. PICK new : /\ new = [bw EXCEPT !.pc = "record"]
                   /\ new.pc = "record" /\ new.todo = bw.todo /\ new.b = bw.b /\ new.ok = bw.ok
    BY <1>1, MovedIs, Zenon
  <2>3. BuildInv(new, batches, nudge, conf.immediate)
    BY <1>1, <2>2 DEF BuildInv
  <2> QED BY <2>1, <2>2, <2>3
<1>3. CASE BGoto("release")
  BY <1>1, <1>2, <1>3, BGotoOK DEF BGoto
<1>4. CASE BGoto("record")
  BY <1>1, <1>2, <1>4, BGotoOK DEF BGoto
<1>5. CASE /\ BReturn(TRUE)
           /\ UNCHANGED <<conf, about, plr, configSide, batches, action, conds, nudge, last, left>>
  BY <1>1, <1>5, BReturnOK, ZenonT(30)
<1>6. CASE /\ plr' = [plr EXCEPT ![bw.b].finalizer = TRUE]
           /\ bw' = [bw EXCEPT !.pc = "record"]
           /\ UNCHANGED <<conf, about, queue, configSide, batches, action, conds, nudge, last, left>>
  <2>1. plr' \in [Builds -> PipelineRuns]
    BY <1>1, <1>6, ZenonT(30) DEF PipelineRuns
  <2> QED BY <1>1, <1>2, <1>6, <2>1, BGotoOK, ZenonT(30)
<1>7. CASE BGone \/ BFail
  BY <1>1, <1>7, BFailOK
<1> QED BY <1>3, <1>4, <1>5, <1>6, <1>7, ZenonT(30) DEF BFinalizer

(* The batches were patched by someone else: the copy is not fresh.        *)
LEMMA NewStatusOK ==
  ASSUME NudgeInv, NEW new, NewStatus(new)
  PROVE  ConfigInv(kw', batches', conf.policy) /\ cq' \in BOOLEAN /\ batches' = new
<1>1. ConfigInv(kw, batches, conf.policy) /\ kw \in ConfigReconciles /\ cq \in BOOLEAN
  BY DEF NudgeInv, TypeOK
<1>2. /\ kw' \in ConfigReconciles
      /\ kw'.pc = kw.pc /\ kw'.op = kw.op /\ kw'.view = kw.view /\ kw'.todo = kw.todo
      /\ kw'.i = kw.i /\ kw'.fresh = (kw.fresh /\ new = batches)
  BY <1>1, Zenon DEF NewStatus, ConfigReconciles
<1>3. ASSUME Working(kw, batches, conf.policy)
      PROVE  Working(kw', batches', conf.policy)
  BY <1>2, <1>3, ZenonT(30) DEF NewStatus, Working
<1>4. ASSUME CanFire(kw)
      PROVE  CanFire(kw')
  BY <1>2, <1>4, ZenonT(30) DEF CanFire
<1>5. ConfigInv(kw', batches', conf.policy)
  BY <1>1, <1>2, <1>3, <1>4, ZenonT(30) DEF ConfigInv
<1> QED BY <1>1, <1>5 DEF NewStatus

(* RecordBuildForBatchedNudge, RecordFailedBuildForBatchedNudge            *)
LEMMA BRecordOK ==
  ASSUME NudgeInv, NEW t \in Targets, BRecord(t)
  PROVE  NudgeInv'
<1> DEFINE b == bw.b
           new == Recorded(t, b)
           r == [b |-> b, ok |-> bw.ok]
<1>1. /\ bw.pc = "record" /\ bw \in BuildReconciles /\ b \in Builds /\ bw.ok \in BOOLEAN
      /\ bw.todo \subseteq Targets
      /\ \A u \in Targets \ bw.todo : Has(batches, u, FromOf[b])
      /\ left \in [Disturbances -> Nat]
  BY BuildTypes, ZenonT(30) DEF BRecord, BuildInv, BuildReconciles
<1>2. CASE BFail
  BY <1>1, <1>2, BFailOK, ZenonT(30)
<1>3. CASE ~BFail
  <2>1. /\ NewStatus(new)
        /\ alarms' = alarms \ {Accepting(batches, t)[1]}
        /\ last' = [last EXCEPT ![t][FromOf[b]] = r]
        /\ bw' = [bw EXCEPT !.todo = bw.todo \ {t}]
        /\ UNCHANGED <<conf, about, plr, queue, action, conds, nudge, left>>
    BY <1>3, ZenonT(30) DEF BRecord
  <2>2. /\ Fit(new, conf.policy)
        /\ Holds(new, t, FromOf[b], b, bw.ok)
        /\ \A u, c, x : \A ok \in BOOLEAN :
             (Holds(batches, u, c, x, ok) /\ ~(u = t /\ c = FromOf[b]))
               => Holds(new, u, c, x, ok)
        /\ \A u, c : Has(batches, u, c) => Has(new, u, c)
        /\ Has(new, t, FromOf[b])
    BY <1>1, RecordedIs, Zenon DEF NudgeInv
  <2> HIDE DEF new, b
  <2>3. ConfigInv(kw', batches', conf.policy) /\ cq' \in BOOLEAN /\ batches' = new
    BY <2>1, NewStatusOK, ZenonT(30)
  <2>4. FromOf[b] \in Sources /\ r \in [b: Builds \cup {NoBuild}, ok: BOOLEAN]
    BY <1>1, NudgeAssumption, ZenonT(30)
  <2>5. /\ last \in [Targets -> [Sources -> [b: Builds \cup {NoBuild}, ok: BOOLEAN]]]
        /\ alarms \subseteq Nat /\ conds \subseteq {"Ignored", "Rejected"}
        /\ Kept(last, batches)
    BY Zenon DEF NudgeInv, TypeOK
  <2>6. r.b = b /\ r.ok = bw.ok
    OBVIOUS
  <2> HIDE DEF r
  <2>7. /\ last' \in [Targets -> [Sources -> [b: Builds \cup {NoBuild}, ok: BOOLEAN]]]
        /\ last'[t][FromOf[b]] = r
        /\ \A u \in Targets, c \in Sources :
             ~(u = t /\ c = FromOf[b]) => last'[u][c] = last[u][c]
    BY <2>1, <2>4, <2>5, ZenonT(30)
  <2>8. Kept(last', new)
    <3> SUFFICES ASSUME NEW u \in Targets, NEW c \in Sources, last'[u][c].b # NoBuild
                 PROVE  Holds(new, u, c, last'[u][c].b, last'[u][c].ok)
      BY ZenonT(30) DEF Kept
    <3>1. CASE u = t /\ c = FromOf[b]
      <4>1. last'[u][c] = r
        BY <2>7, <3>1, Zenon
      <4>2. Holds(new, t, FromOf[b], b, bw.ok)
        BY <2>2
      <4> QED BY <2>6, <3>1, <4>1, <4>2, Zenon
    <3>2. CASE ~(u = t /\ c = FromOf[b])
      <4>1. last'[u][c] = last[u][c] /\ last[u][c].ok \in BOOLEAN
        BY <2>5, <2>7, <3>2, ZenonT(30)
      <4>2. Holds(batches, u, c, last[u][c].b, last[u][c].ok)
        BY <2>5, <4>1 DEF Kept
      <4> QED BY <2>2, <3>2, <4>1, <4>2, ZenonT(30)
    <3> QED BY <3>1, <3>2, ZenonT(30)
  <2>9. /\ bw' \in BuildReconciles /\ bw'.pc = "record" /\ bw'.b = b
        /\ bw'.todo = bw.todo \ {t}
    BY <1>1, <2>1, ZenonT(30) DEF BuildReconciles, b
  <2>10. BuildInv(bw', new, nudge, conf.immediate)
    BY <1>1, <2>2, <2>9, ZenonT(30) DEF BuildInv
  <2> QED BY <1>1, <2>1, <2>2, <2>3, <2>5, <2>7, <2>8, <2>9, <2>10, StatusFrame, ZenonT(30)
<1> QED BY <1>2, <1>3

(* All targets are recorded.                                               *)
LEMMA BRecordedOK ==
  ASSUME NudgeInv, BRecorded
  PROVE  NudgeInv'
<1> DEFINE pc == IF bw.ok /\ conf.immediate
                 THEN IF conf.creds THEN "config" ELSE "skip" ELSE "annotate"
<1>1. /\ plr \in [Builds -> PipelineRuns] /\ queue \subseteq Builds /\ bw \in BuildReconciles
      /\ left \in [Disturbances -> Nat] /\ nudge \in [Names -> Nudges]
      /\ bw.pc = "record" /\ bw.todo = {}
      /\ \A u \in Targets : Has(batches, u, FromOf[bw.b])
  BY BuildTypes DEF BRecorded, BuildInv
<1>2. BGoto(pc)
  BY DEF BRecorded
<1>3. pc \in {"config", "skip", "annotate"} /\ (pc = "annotate" => ~(bw.ok /\ conf.immediate))
  OBVIOUS
<1> HIDE DEF pc
<1>4. PICK new : /\ new = [bw EXCEPT !.pc = pc]
                 /\ new.pc = pc /\ new.todo = bw.todo /\ new.b = bw.b /\ new.ok = bw.ok
  BY <1>1, MovedIs, Zenon
<1>5. BuildInv(new, batches, nudge, conf.immediate)
  BY <1>1, <1>3, <1>4 DEF BuildInv
<1> QED BY <1>1, <1>2, <1>3, <1>4, <1>5, BGotoOK, ZenonT(30) DEF BGoto

(* CreateNudgePipelineRun: the ConfigMap is there before the PipelineRun.  *)
LEMMA BCreateOK ==
  ASSUME NudgeInv, BCreate
  PROVE  NudgeInv'
<1> DEFINE b == bw.b
           payload == [c \in {FromOf[b]} |-> b]
           pc == IF bw.pc = "config" THEN "run" ELSE "annotate"
<1>1. /\ plr \in [Builds -> PipelineRuns] /\ queue \subseteq Builds /\ bw \in BuildReconciles
      /\ left \in [Disturbances -> Nat] /\ nudge \in [Names -> Nudges]
      /\ bw.pc \in {"config", "run"} /\ bw.todo = {} /\ b \in Builds
      /\ \A u \in Targets : Has(batches, u, FromOf[b])
      /\ bw.pc = "run" => nudge[b].config # << >>
  BY BuildTypes DEF BCreate, BuildInv
<1>2. CASE BFail
  BY <1>1, <1>2, BFailOK
<1>3. CASE ~BFail
  <2>1. /\ CreateObject(b, bw.pc, payload)
        /\ bw' = [bw EXCEPT !.pc = pc]
        /\ UNCHANGED <<conf, about, plr, queue, configSide, batches, action, conds, last, left>>
    BY <1>3 DEF BCreate
  <2>2. payload \in Entries /\ payload # << >>
    <3>1. FromOf[b] \in Sources
      BY <1>1, NudgeAssumption, ZenonT(30)
    <3>2. payload \in [{FromOf[b]} -> Builds] /\ DOMAIN payload = {FromOf[b]}
      BY <1>1
    <3>3. {FromOf[b]} \in SUBSET Sources
      BY <3>1
    <3>4. payload \in Entries
      BY <3>2, <3>3, ZenonT(30) DEF Entries
    <3>5. payload # << >>
      BY <3>2, NoEntries
    <3> QED BY <3>4, <3>5, ZenonT(30)
  <2> HIDE DEF payload
  <2>3. /\ nudge' \in [Names -> Nudges]
        /\ nudge[b].config # << >> => nudge'[b].config # << >>
        /\ bw.pc = "config" => nudge'[b].config # << >>
    BY <1>1, <2>1, <2>2, CreateObjectOK, ZenonT(30)
  <2>4. nudge'[b].config # << >>
    BY <1>1, <2>3
  <2>5. pc \in {"run", "annotate"}
    OBVIOUS
  <2> HIDE DEF pc
  <2>6. PICK new : /\ new = [bw EXCEPT !.pc = pc]
                   /\ new.pc = pc /\ new.todo = bw.todo /\ new.b = bw.b /\ new.ok = bw.ok
    BY <1>1, MovedIs, Zenon
  <2>7. BuildInv(new, batches, nudge', conf.immediate)
    BY <1>1, <2>4, <2>5, <2>6, ZenonT(30) DEF BuildInv
  <2> QED BY <1>1, <2>1, <2>3, <2>5, <2>6, <2>7, BGotoOK, ZenonT(30)
<1> QED BY <1>2, <1>3

(* finalizeNudgeProcessedBuildPipelineRun                                  *)
LEMMA BAnnotateOK ==
  ASSUME NudgeInv, BAnnotate
  PROVE  NudgeInv'
<1> DEFINE p == plr[bw.b]
           value == IF bw.pc = "skip" THEN "skipped" ELSE IF bw.ok THEN "done" ELSE "failed"
<1>1. /\ plr \in [Builds -> PipelineRuns] /\ queue \subseteq Builds /\ bw \in BuildReconciles
      /\ left \in [Disturbances -> Nat] /\ nudge \in [Names -> Nudges]
      /\ bw.pc \in {"annotate", "skip"} /\ bw.b \in Builds
  BY BuildTypes DEF BAnnotate
<1>2. BuildInv([bw EXCEPT !.pc = "release"], batches, nudge, conf.immediate)
  <2>1. PICK new : /\ new = [bw EXCEPT !.pc = "release"]
                   /\ new.pc = "release" /\ new.todo = bw.todo /\ new.b = bw.b /\ new.ok = bw.ok
    BY <1>1, MovedIs, ZenonT(30)
  <2>2. BuildInv(new, batches, nudge, conf.immediate)
    BY <2>1, ResettingOK, Zenon
  <2> QED BY <2>1, <2>2
<1>3. CASE /\ BReturn(FALSE)
           /\ UNCHANGED <<conf, about, plr, configSide, batches, action, conds, nudge, last, left>>
  BY <1>1, <1>3, BReturnOK, ZenonT(30)
<1>4. CASE /\ PatchBuild(bw.b, [p EXCEPT !.processed = value])
           /\ bw' = [bw EXCEPT !.pc = "release"]
           /\ UNCHANGED <<conf, about, configSide, batches, action, conds, nudge, last, left>>
  <2>1. p \in PipelineRuns /\ value \in {"no", "done", "skipped", "failed"}
    BY <1>1
  <2>2. [p EXCEPT !.processed = value] \in PipelineRuns
    <3> HIDE DEF p, value
    <3> QED BY <2>1 DEF PipelineRuns
  <2>3. plr' \in [Builds -> PipelineRuns] /\ queue' \subseteq Builds
    BY <1>1, <1>4, <2>2, PatchBuildOK, ZenonT(30)
  <2> QED BY <1>1, <1>2, <1>4, <2>3, BGotoOK, ZenonT(30)
<1>5. CASE BGone \/ BFail
  BY <1>1, <1>5, BFailOK
<1>6. CASE /\ Disturb("fault")
           /\ bw' = [bw EXCEPT !.pc = "release"]
           /\ UNCHANGED <<conf, about, plr, queue, configSide, batches, action, conds, nudge, last>>
  <2>1. left' \in [Disturbances -> Nat]
    BY <1>1, <1>6, DisturbOK
  <2> QED BY <1>1, <1>2, <1>6, <2>1, BGotoOK, ZenonT(30)
<1> QED BY <1>3, <1>4, <1>5, <1>6, ZenonT(30) DEF BAnnotate

(* RemoveFinalizerFromPipelineRun                                          *)
LEMMA BReleaseOK ==
  ASSUME NudgeInv, BRelease
  PROVE  NudgeInv'
<1> DEFINE p == plr[bw.b]
           new == [p EXCEPT !.finalizer = FALSE, !.state = IF p.deleting THEN "gone" ELSE p.state]
<1>1. /\ plr \in [Builds -> PipelineRuns] /\ left \in [Disturbances -> Nat]
      /\ bw.pc = "release" /\ bw.b \in Builds
  BY BuildTypes DEF BRelease
<1>2. CASE BGone \/ BFail
  BY <1>1, <1>2, BFailOK
<1>3. CASE ~(BGone \/ BFail)
  <2>1. /\ plr' = [plr EXCEPT ![bw.b] = new]
        /\ BReturn(FALSE)
        /\ UNCHANGED <<conf, about, configSide, batches, action, conds, nudge, last, left>>
    BY <1>3, ZenonT(30) DEF BRelease
  <2>2. p \in PipelineRuns
    BY <1>1
  <2>3. new \in PipelineRuns
    <3> HIDE DEF p
    <3> QED BY <2>2, Zenon DEF PipelineRuns
  <2> HIDE DEF new
  <2>4. plr' \in [Builds -> PipelineRuns]
    BY <1>1, <2>1, <2>3
  <2> QED BY <1>1, <2>1, <2>4, BReturnOK, ZenonT(30)
<1> QED BY <1>2, <1>3

-----------------------------------------------------------------------------
(* The cluster, its users and time *)

(* Time goes on in a batch.                                                *)
LEMMA ExpireOK ==
  ASSUME NudgeInv, NEW i, Expire(i)
  PROVE  NudgeInv'
<1> DEFINE old == batches[i]
<1>1. /\ conds \subseteq {"Ignored", "Rejected"} /\ cq \in BOOLEAN /\ alarms \subseteq Nat
      /\ left \in [Disturbances -> Nat] /\ kw \in ConfigReconciles
      /\ last \in [Targets -> [Sources -> [b: Builds \cup {NoBuild}, ok: BOOLEAN]]]
      /\ bw \in BuildReconciles /\ (bw.pc # "idle" => bw.b \in Builds)
      /\ Fit(batches, conf.policy) /\ Kept(last, batches)
      /\ ConfigInv(kw, batches, conf.policy) /\ BuildInv(bw, batches, nudge, conf.immediate)
      /\ i \in DOMAIN batches
  BY DEF NudgeInv, TypeOK, Expire
<1>2. old \in Batches /\ Complete(old, conf.policy) /\ old.phase \in OpenPhases
  BY <1>1 DEF Fit, AllComplete, Expire, OpenPhases
<1>3. PICK r \in Batches :
        /\ batches' = [batches EXCEPT ![i] = r]
        /\ r.target = old.target /\ r.phase = old.phase /\ r.forced = old.forced
        /\ r.acc = old.acc /\ r.failed = old.failed
  <2>1. \/ batches' = [batches EXCEPT ![i] = [old EXCEPT !.timer = "passed"]]
        \/ batches' = [batches EXCEPT ![i] = [old EXCEPT !.late = TRUE]]
    BY DEF Expire
  <2> HIDE DEF old
  <2>2. LET r == [old EXCEPT !.timer = "passed"]
        IN  /\ r \in Batches
            /\ r.target = old.target /\ r.phase = old.phase /\ r.forced = old.forced
            /\ r.acc = old.acc /\ r.failed = old.failed
    BY <1>2 DEF Batches
  <2>3. LET r == [old EXCEPT !.late = TRUE]
        IN  /\ r \in Batches
            /\ r.target = old.target /\ r.phase = old.phase /\ r.forced = old.forced
            /\ r.acc = old.acc /\ r.failed = old.failed
    BY <1>2, ZenonT(30) DEF Batches
  <2> QED BY <2>1, <2>2, <2>3, Zenon
<1> HIDE DEF old
<1>4. Complete(r, conf.policy) /\ r.phase # "Firing"
  BY <1>2, <1>3, ZenonT(30) DEF Complete, OpenPhases
<1>5. r.target = batches[i].target /\ (r.phase \in OpenPhases => batches[i].phase \in OpenPhases)
  BY <1>2, <1>3, ZenonT(30) DEF old
<1>6. /\ Fit(batches', conf.policy)
      /\ DOMAIN batches' = DOMAIN batches /\ batches'[i] = r
      /\ \A j \in DOMAIN batches : j # i => batches'[j] = batches[j]
  <2> DEFINE new == [batches EXCEPT ![i] = r]
  <2>1. /\ Fit(new, conf.policy)
        /\ DOMAIN new = DOMAIN batches /\ new[i] = r
        /\ \A j \in DOMAIN batches : j # i => new[j] = batches[j]
    BY <1>1, <1>4, <1>5, Replaced, ZenonT(30)
  <2> QED BY <1>3, <2>1, ZenonT(30)
<1>7. Mirrors(batches', batches)
  BY <1>3, <1>6, ZenonT(30) DEF Mirrors, old
<1>8. BuildInv(bw, batches', nudge, conf.immediate) /\ Kept(last, batches')
  BY <1>1, <1>7, BuildKept, MirrorsHold, ZenonT(30)
<1>9. ConfigInv(kw, batches', conf.policy)
  <2>1. Mirrors(kw.view, batches) => Mirrors(kw.view, batches')
    BY <1>7, ZenonT(30) DEF Mirrors
  <2>2. Working(kw, batches, conf.policy) => Working(kw, batches', conf.policy)
    BY <2>1 DEF Working
  <2> QED BY <1>1, <2>2, ZenonT(30) DEF ConfigInv
<1>10. /\ UNCHANGED <<conf, about, plr, queue, bw, kw, action, conds, nudge, last, left>>
       /\ cq' \in BOOLEAN /\ alarms' \subseteq Nat
  BY <1>1 DEF Expire, buildSide
<1> QED BY <1>1, <1>6, <1>8, <1>9, <1>10, StatusFrame

(* The other steps of the cluster and its users.                           *)
LEMMA ClusterOK ==
  ASSUME NudgeInv, Cluster
  PROVE  NudgeInv'
<1>1. /\ plr \in [Builds -> PipelineRuns] /\ queue \subseteq Builds /\ bw \in BuildReconciles
      /\ left \in [Disturbances -> Nat] /\ nudge \in [Names -> Nudges]
      /\ bw.pc # "idle" => bw.b \in Builds
      /\ BuildInv(bw, batches, nudge, conf.immediate)
      /\ action \in Actions /\ conds \subseteq {"Ignored", "Rejected"} /\ cq \in BOOLEAN
      /\ alarms \subseteq Nat /\ ConfigInv(kw, batches, conf.policy)
  BY DEF NudgeInv, TypeOK
<1>2. CASE \E i \in 1 .. MaxBatches : Expire(i)
  BY <1>2, ExpireOK, ZenonT(30)
<1>3. ASSUME NEW b \in Builds, EndBuild(b) \/ DeleteBuild(b)
      PROVE  NudgeInv'
  <2> DEFINE p == plr[b]
  <2>1. p \in PipelineRuns
    BY <1>1
  <2>2. \E new \in PipelineRuns : PatchBuild(b, new)
    <3>1. CASE EndBuild(b)
      <4>1. PICK st \in {"succeeded", "failed"} : PatchBuild(b, [p EXCEPT !.state = st])
        BY <3>1 DEF EndBuild
      <4>2. [p EXCEPT !.state = st] \in PipelineRuns
        <5> HIDE DEF p
        <5> QED BY <2>1 DEF PipelineRuns
      <4> QED BY <4>1, <4>2
    <3>2. CASE DeleteBuild(b)
      <4> DEFINE new == [p EXCEPT !.deleting = TRUE, !.state = IF p.finalizer THEN p.state ELSE "gone"]
      <4>1. PatchBuild(b, new)
        BY <3>2 DEF DeleteBuild
      <4>2. new \in PipelineRuns
        <5> HIDE DEF p
        <5> QED BY <2>1, Zenon DEF PipelineRuns
      <4> QED BY <4>1, <4>2
    <3> QED BY <1>3, <3>1, <3>2
  <2>3. plr' \in [Builds -> PipelineRuns] /\ queue' \subseteq Builds
    BY <1>1, <2>2, PatchBuildOK
  <2>4. left' \in [Disturbances -> Nat]
    BY <1>1, <1>3, DisturbOK DEF EndBuild, DeleteBuild
  <2>5. UNCHANGED <<conf, about, bw, configSide, batches, action, conds, nudge, last>>
    BY <1>3, ZenonT(30) DEF EndBuild, DeleteBuild
  <2> QED BY <1>1, <2>3, <2>4, <2>5, BuildFrame
<1>4. ASSUME NEW n \in Names, EndNudge(n) \/ PruneNudge(n)
      PROVE  NudgeInv'
  <2>1. PICK st \in {"none", "succeeded", "failed"} : nudge' = [nudge EXCEPT ![n].run = st]
    BY <1>4 DEF EndNudge, PruneNudge
  <2>2. nudge' \in [Names -> Nudges] /\ \A x \in Names : nudge'[x].config = nudge[x].config
    BY <1>1, <2>1, ZenonT(30) DEF Nudges
  <2>3. \A b \in Builds : nudge[b].config # << >> => nudge'[b].config # << >>
    BY <2>2 DEF Names
  <2>4. left' \in [Disturbances -> Nat]
    BY <1>1, <1>4, DisturbOK DEF EndNudge, PruneNudge
  <2>5. UNCHANGED <<buildSide, cq, alarms, kw, batches, action, conds, last>>
    BY <1>4, ZenonT(30) DEF EndNudge, PruneNudge, configSide
  <2> QED BY <1>1, <2>2, <2>3, <2>4, <2>5, ConfigFrame, ZenonT(30)
<1>5. ASSUME NEW t \in Targets, NEW partial \in BOOLEAN, UserForceFire(t, partial)
      PROVE  NudgeInv'
  <2>1. left' \in [Disturbances -> Nat]
    BY <1>1, <1>5, DisturbOK, ZenonT(30) DEF UserForceFire
  <2>2. action' \in Actions /\ cq' = TRUE
    BY <1>5, ZenonT(30) DEF UserForceFire, Actions
  <2>3. UNCHANGED <<buildSide, batches, conds, alarms, kw, nudge, last>>
    BY <1>5, ZenonT(30) DEF UserForceFire
  <2> QED BY <1>1, <2>1, <2>2, <2>3, ConfigFrame, ZenonT(30)
<1>6. CASE Crash
  <2>1. left' \in [Disturbances -> Nat]
    BY <1>1, <1>6, DisturbOK, ZenonT(30) DEF Crash
  <2>2. /\ bw' = BuildIdle /\ kw' = KIdle /\ queue' \subseteq Builds
        /\ cq' = TRUE /\ alarms' = {}
        /\ UNCHANGED <<conf, about, plr, batches, action, conds, nudge, last>>
    BY <1>6, ZenonT(30) DEF Crash
  <2>3. ConfigInv(KIdle, batches, conf.policy) /\ BuildInv(BuildIdle, batches, nudge, conf.immediate)
    BY <1>1, IdleIs, BuildIdleIs, ResettingOK, ZenonT(30)
  <2>4. KIdle \in ConfigReconciles
    BY <2>3, ZenonT(30) DEF ConfigInv
  <2>5. TypeOK'
    BY <2>1, <2>2, <2>4, BuildIdleIs, ZenonT(30) DEF NudgeInv, TypeOK
  <2> QED BY <2>2, <2>3, <2>5, ZenonT(30) DEF NudgeInv
<1> QED BY <1>2, <1>3, <1>4, <1>5, <1>6, ZenonT(30) DEF Cluster

-----------------------------------------------------------------------------
(* The invariant holds at first: nothing is recorded yet.                  *)
LEMMA NudgeInvInit ==
  ASSUME NudgeInit
  PROVE  NudgeInv
<1>1. batches = << >> /\ << >> \in Seq(Batches) /\ DOMAIN batches = {}
  BY NoEntries, SMTT(30) DEF NudgeInit
<1>2. Fit(batches, conf.policy)
  BY <1>1 DEF Fit, Orderly, AllComplete
<1>3. NoAction \in Actions
  BY ZenonT(30) DEF NoAction, Actions
<1>4. ConfigInv(kw, batches, conf.policy)
  BY <1>3, IdleIs, Zenon DEF NudgeInit
<1>5. BuildInv(bw, batches, nudge, conf.immediate)
  BY BuildIdleIs, ResettingOK DEF NudgeInit
<1>6. /\ last \in [Targets -> [Sources -> [b: Builds \cup {NoBuild}, ok: BOOLEAN]]]
      /\ Kept(last, batches)
  BY DEF NudgeInit, Kept
<1>7. nudge \in [Names -> Nudges]
  <2>1. NoNudge \in Nudges
    BY NoEntries DEF NoNudge, Nudges
  <2> QED BY <2>1 DEF NudgeInit
<1>8. plr \in [Builds -> PipelineRuns]
  <2>1. /\ NewPipelineRun \in PipelineRuns
        /\ [NewPipelineRun EXCEPT !.state = "succeeded"] \in PipelineRuns
        /\ [NewPipelineRun EXCEPT !.state = "gone"] \in PipelineRuns
    BY Zenon DEF NewPipelineRun, PipelineRuns
  <2> QED BY <2>1, Zenon DEF NudgeInit
<1>9. left \in [Disturbances -> Nat]
  BY NudgeAssumption DEF NudgeInit
<1>10. kw \in ConfigReconciles
  BY <1>4 DEF ConfigInv
<1>11. TypeOK
  BY <1>1, <1>3, <1>6, <1>7, <1>8, <1>9, <1>10, BuildIdleIs, ZenonT(30) DEF NudgeInit, TypeOK
<1> QED BY <1>2, <1>4, <1>5, <1>6, <1>11, ZenonT(30) DEF NudgeInv

(* Every step keeps it.                                                    *)
LEMMA NudgeInvStep ==
  ASSUME NudgeInv, [NudgeNext]_vars
  PROVE  NudgeInv'
<1>1. CASE BStep
  BY <1>1, BFinalizerOK, BRecordedOK, BCreateOK, BAnnotateOK, BReleaseOK, BRecordOK, ZenonT(30) DEF BStep
<1>2. CASE \E b \in Builds : BBegin(b)
  BY <1>2, BBeginOK
<1>3. CASE KWork
  BY <1>3, RestingSteps, KForceOK, KReadOK, KScanOK, KScannedOK, KCreateOK, KPatchOK, ZenonT(30) DEF KWork
<1>4. CASE Cluster
  BY <1>4, ClusterOK, ZenonT(30)
<1>5. CASE UNCHANGED vars
  BY <1>5, Zenon DEF vars, buildSide, configSide, NudgeInv, TypeOK
<1> QED BY <1>1, <1>2, <1>3, <1>4, <1>5 DEF NudgeNext

(* The invariant of nudging, for any number of sources, targets, builds    *)
(* and batches and any disturbances.                                       *)
THEOREM NudgeInvariance == NudgeInit /\ [][NudgeNext]_vars => []NudgeInv
  BY NudgeInvInit, NudgeInvStep, PTL

(* A target never has two batches that accept builds or two that fire      *)
(* (findOrCreateAcceptingBatch, isBatchFiringForTarget), although the one  *)
(* controller decides on a copy that the other may have changed meanwhile. *)
THEOREM OneBatchPerTargetHolds == NudgeInit /\ [][NudgeNext]_vars => []OneBatchPerTarget
<1>1. NudgeInv => OneBatchPerTarget
  <2> SUFFICES ASSUME NudgeInv, NEW t \in Targets
               PROVE  /\ \A i, j \in InPhase(batches, t, {"Accumulating", "Blocked"}) : i = j
                      /\ \A i, j \in InPhase(batches, t, {"Firing"}) : i = j
    BY DEF OneBatchPerTarget
  <2>1. Orderly(batches)
    BY ZenonT(30) DEF NudgeInv, Fit
  <2> QED BY <2>1, ZenonT(30) DEF Orderly, InPhase, OpenPhases
<1> QED BY <1>1, NudgeInvariance, PTL

(* What was recorded last for a target and a source is never lost: the     *)
(* status patch of the nudgeconfig controller is refused when a build was  *)
(* recorded after its read.                                                *)
THEOREM NoRecordIsLost == NudgeInit /\ [][NudgeNext]_vars => []NoRecordLost
<1>1. NudgeInv => NoRecordLost
  BY ZenonT(30) DEF NudgeInv, Kept, Holds, NoRecordLost
<1> QED BY <1>1, NudgeInvariance, PTL

(* With the policy Block only a user fires a batch that lacks a build that *)
(* failed, even when the failure is recorded while the batch is being      *)
(* fired.                                                                  *)
THEOREM PartialIsForced == NudgeInit /\ [][NudgeNext]_vars => []PartialOnlyIfForced
<1>1. NudgeInv => PartialOnlyIfForced
  BY DEF NudgeInv, Fit, AllComplete, Complete, PartialOnlyIfForced
<1> QED BY <1>1, NudgeInvariance, PTL

(* An update that keeps the annotation of a build keeps all of them.       *)
LEMMA OthersProcessed ==
  ASSUME plr \in [Builds -> PipelineRuns], NEW b \in Builds, NEW c, NEW p,
         plr' = [plr EXCEPT ![c] = p], p.processed = plr[c].processed
  PROVE  plr'[b].processed = plr[b].processed
<1>1. CASE c = b
  BY <1>1
<1>2. CASE c # b
  BY <1>2, ZenonT(30)
<1> QED BY <1>1, <1>2

(* The annotation "done" of a build changes in BAnnotate only.             *)
LEMMA DoneByAnnotate ==
  ASSUME NudgeInv, [NudgeNext]_vars, NEW b \in Builds,
         plr[b].processed = "no", plr'[b].processed = "done"
  PROVE  bw.pc = "annotate" /\ bw.ok /\ bw.b = b
<1>1. plr \in [Builds -> PipelineRuns] /\ (bw.pc # "idle" => bw.b \in Builds) /\ bw.ok \in BOOLEAN
  BY BuildTypes, ZenonT(30) DEF BuildReconciles
<1>2. plr[b] \in PipelineRuns /\ plr' # plr /\ plr'[b].processed # plr[b].processed
  BY <1>1
<1>3. CASE BFinalizer
  <2>1. \/ plr' = plr
        \/ plr' = [plr EXCEPT ![bw.b].finalizer = TRUE]
    BY <1>3 DEF BFinalizer, BGoto, BReturn, BGone, BFail
  <2> QED BY <1>1, <1>2, <2>1 DEF PipelineRuns
<1>4. CASE BAnnotate
  <2> DEFINE value == IF bw.pc = "skip" THEN "skipped" ELSE IF bw.ok THEN "done" ELSE "failed"
  <2>1. bw.pc \in {"annotate", "skip"} /\ bw.b \in Builds
    BY <1>1, <1>4 DEF BAnnotate
  <2>2. plr' = plr \/ PatchBuild(bw.b, [plr[bw.b] EXCEPT !.processed = value])
    BY <1>4, Zenon DEF BAnnotate, BGone, BFail
  <2>3. plr' = [plr EXCEPT ![bw.b] = [plr[bw.b] EXCEPT !.processed = value]]
    BY <1>2, <2>2, ZenonT(30) DEF PatchBuild
  <2>4. plr[bw.b] \in PipelineRuns
    BY <1>1, <2>1
  <2>5. [plr[bw.b] EXCEPT !.processed = value].processed = value
    <3> HIDE DEF value
    <3> QED BY <2>4 DEF PipelineRuns
  <2>6. bw.b = b /\ value = "done"
    <3> HIDE DEF value
    <3> QED BY <1>1, <2>1, <2>3, <2>5
  <2> QED BY <2>1, <2>6
<1>5. CASE BRelease
  <2> DEFINE p == plr[bw.b]
  <2>1. \/ plr' = plr
        \/ plr' = [plr EXCEPT ![bw.b] = [p EXCEPT !.finalizer = FALSE,
                                                  !.state = IF p.deleting THEN "gone" ELSE p.state]]
    BY <1>5, Zenon DEF BRelease, BGone, BFail
  <2>2. bw.b \in Builds
    BY <1>1, <1>5, ZenonT(30) DEF BRelease
  <2>3. p \in PipelineRuns
    BY <1>1, <2>2
  <2>4. [p EXCEPT !.finalizer = FALSE,
                  !.state = IF p.deleting THEN "gone" ELSE p.state].processed = p.processed
    <3> HIDE DEF p
    <3> QED BY <2>3, ZenonT(30) DEF PipelineRuns
  <2> QED BY <1>1, <1>2, <2>1, <2>4, OthersProcessed, ZenonT(30)
<1>6. ASSUME NEW c \in Builds, EndBuild(c) \/ DeleteBuild(c)
      PROVE  FALSE
  <2> DEFINE p == plr[c]
  <2>1. PICK st : \/ plr' = [plr EXCEPT ![c] = [p EXCEPT !.state = st]]
                  \/ plr' = [plr EXCEPT ![c] = [p EXCEPT !.deleting = TRUE, !.state = st]]
    BY <1>6, ZenonT(30) DEF EndBuild, DeleteBuild, PatchBuild
  <2>2. p \in PipelineRuns
    BY <1>1
  <2>3. /\ [p EXCEPT !.state = st].processed = p.processed
        /\ [p EXCEPT !.deleting = TRUE, !.state = st].processed = p.processed
    <3> HIDE DEF p
    <3> QED BY <2>2 DEF PipelineRuns
  <2>4. PICK q : plr' = [plr EXCEPT ![c] = q] /\ q.processed = plr[c].processed
    BY <2>1, <2>3, ZenonT(30)
  <2> QED BY <1>1, <1>2, <2>4, OthersProcessed, ZenonT(30)
<1>7. CASE BRecorded \/ BCreate \/ (\E t \in Targets : BRecord(t)) \/ (\E c \in Builds : BBegin(c))
  BY <1>2, <1>7, Zenon DEF BRecorded, BCreate, BRecord, BBegin, BGoto, BFail
<1>8. CASE KWork
  <2>1. UNCHANGED buildSide
    BY <1>8, Zenon DEF KWork, KBegin, KForce, KRead, KScan, KScanned, KCreate, KPatch, KClear, KWake,
                KStep, KError, KFail, SetCondition
  <2> QED BY <1>2, <2>1 DEF buildSide
<1>9. CASE (\E i \in 1 .. MaxBatches : Expire(i)) \/ (\E n \in Names : EndNudge(n) \/ PruneNudge(n))
           \/ (\E t \in Targets, partial \in BOOLEAN : UserForceFire(t, partial)) \/ Crash
  BY <1>2, <1>9, ZenonT(30) DEF Expire, EndNudge, PruneNudge, UserForceFire, Crash, buildSide
<1>10. CASE UNCHANGED vars
  BY <1>2, <1>10 DEF vars, buildSide
<1> QED BY <1>3, <1>4, <1>5, <1>6, <1>7, <1>8, <1>9, <1>10, ZenonT(30) DEF NudgeNext, BStep, Cluster

(* A build is marked as processed only when its immediate nudge exists and *)
(* a result of its component is recorded for every batched target          *)
(* (EnsureNudgePipelineRunsExist), in spite of restarts and failed calls.  *)
THEOREM ProcessedIsNudged == NudgeInit /\ [][NudgeNext]_vars => ProcessedMeansNudged
<1>1. ASSUME NudgeInv, [NudgeNext]_vars, NEW b \in Builds,
             plr[b].processed = "no", plr'[b].processed = "done"
      PROVE  /\ conf.immediate => nudge[b].config # << >>
             /\ \A t \in Targets : \E i \in DOMAIN batches :
                  batches[i].target = t /\ FromOf[b] \in DOMAIN batches[i].acc \cup DOMAIN batches[i].failed
  <2>1. bw.pc = "annotate" /\ bw.ok /\ bw.b = b
    BY <1>1, DoneByAnnotate, ZenonT(30)
  <2>2. BuildInv(bw, batches, nudge, conf.immediate)
    BY <1>1, ZenonT(30) DEF NudgeInv
  <2>3. conf.immediate => nudge[b].config # << >>
    BY <2>1, <2>2 DEF BuildInv
  <2>4. \A t \in Targets : Has(batches, t, FromOf[b])
    BY <2>1, <2>2 DEF BuildInv
  <2> QED BY <2>3, <2>4 DEF Has
<1>2. NudgeInv /\ [NudgeNext]_vars =>
        [\A b \in Builds : (plr[b].processed = "no" /\ plr'[b].processed = "done") =>
           /\ conf.immediate => nudge[b].config # << >>
           /\ \A t \in Targets : \E i \in DOMAIN batches :
                batches[i].target = t /\ FromOf[b] \in DOMAIN batches[i].acc \cup DOMAIN batches[i].failed]_vars
  BY <1>1
<1> QED BY <1>2, NudgeInvariance, PTL DEF ProcessedMeansNudged

=============================================================================
