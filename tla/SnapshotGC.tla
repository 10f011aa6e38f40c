------------------------------ MODULE SnapshotGC ------------------------------
(***************************************************************************)
(* What the snapshot garbage collector (cmd/snapshotgc, a cron job) decides *)
(* to delete, as operators on a set of Snapshot records with the fields     *)
(*   made   the order of the creation timestamps                            *)
(*   kind   "component", "override" or "parent" (no type label)             *)
(*   event  "push", "pull", or "none" when the label is missing             *)
(*   comp   the component label                                             *)
(*   keep   the keep-snapshot annotation: "no", "true", a "ttl" that the    *)
(*          Snapshot outlives when it is days old, or a "bad" duration      *)
(*   pr     "open", "gone" (canceled, or its pull request is merged), or    *)
(*          "waiting" (its group Snapshot is held up by a running build)    *)
(*   age    "young", "hours" or "days"                                      *)
(***************************************************************************)
EXTENDS Integers, FiniteSets, SequencesExt

IsNonPrSnapshot(x) == x.event # "pull" \/ x.kind = "override"

(* isPastTTL: a value that is not a duration counts as expired.            *)
IsPastTTL(x) == x.keep = "bad" \/ (x.keep = "ttl" /\ x.age = "days")

(* Kept by its annotation (filterSnapshotsWithKeepSnapshotAnnotation).     *)
Reserved(x) == x.keep = "true" \/ (x.keep # "no" /\ ~IsPastTTL(x))

CancelledOrMerged(x) == ~IsNonPrSnapshot(x) /\ x.pr = "gone" /\ x.keep # "true"

ExpectsGroup(x) == ~CancelledOrMerged(x) /\ x.pr = "waiting" /\ x.age # "days"

Newest(S, n) == {x \in S : Cardinality({y \in S : y.made > x.made}) < n}

MutantPreservedOverall(S, min) ==
  Newest({x \in S : IsNonPrSnapshot(x) /\ x.kind = "component"}, min)

(* The newest push component Snapshots of each component.                  *)
Preserved(S, min) ==
  LET OfComponent(c) == {x \in S : IsNonPrSnapshot(x) /\ x.kind = "component" /\ x.comp = c}
  IN  UNION {Newest(OfComponent(c), min) : c \in {x.comp : x \in S}}

(* getSnapshotsForRemoval: the loop over the candidates S, the newest one  *)
(* first; limit holds what is left of the two numbers to keep.             *)
GetSnapshotsForRemoval(S, limit, min) ==
  LET preserved == Preserved(S, min)
      Keep(acc, x) == IF IsNonPrSnapshot(x) THEN [acc EXCEPT !.nonPr = @ + 1]
                                            ELSE [acc EXCEPT !.pr = @ + 1]
      Kept(acc, x) ==
        \/ x \in preserved
        \/ IsNonPrSnapshot(x) /\ acc.nonPr < limit.nonPr
        \/ ~IsNonPrSnapshot(x) /\ ~CancelledOrMerged(x) /\ acc.pr < limit.pr
        \/ ~IsNonPrSnapshot(x) /\ ExpectsGroup(x)
      Step(acc, x) == IF Kept(acc, x) THEN Keep(acc, x)
                                      ELSE [acc EXCEPT !.shortList = @ \cup {x}]
      order == SetToSortSeq(S, LAMBDA x, y : x.made > y.made)
  IN  FoldLeft(Step, [pr |-> 0, nonPr |-> 0, shortList |-> {}], order).shortList

(* One namespace: the Snapshots S without a Release, of which "associated" *)
(* others have one.  Those, and the annotated ones, count against the      *)
(* numbers to keep, which may become negative.                             *)
CollectNamespace(S, associated, limit, min) ==
  LET reserved == {x \in S : Reserved(x)}
      left == [pr |-> limit.pr - Cardinality({x \in reserved : ~IsNonPrSnapshot(x)}),
               nonPr |-> limit.nonPr - Cardinality({x \in reserved : IsNonPrSnapshot(x)})
                           - associated]
  IN  GetSnapshotsForRemoval(S \ reserved, left, min)
=============================================================================
