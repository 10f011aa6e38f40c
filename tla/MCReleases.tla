----------------------------- MODULE MCReleases -----------------------------
(* Instances of Releases for TLC. *)
EXTENDS Releases, TLC

CONSTANTS g1, g2, g3, c1, c2, p1, p2

Push == [kind |-> "component", event |-> "push", comp |-> c1, group |-> g1, start |-> 20, should |-> TRUE,
         valid |-> TRUE, off |-> FALSE, ignore |-> FALSE, keep |-> "no", pr |-> "open", age |-> "young"]
Pull == [Push EXCEPT !.event = "pull"]
Override == [Push EXCEPT !.kind = "override", !.event = "none", !.start = 0]

Flat == [g \in Groups |-> {}]
Chain == g1 :> {g2} @@ g2 :> {g3} @@ g3 :> {}
Diamond == g1 :> {g2, g3} @@ g2 :> {} @@ g3 :> {}

Often(n, ds) == [d \in Disturbances |-> IF d \in ds THEN 1 ELSE IF d = "tests" THEN n ELSE 0]

AllLabels == [p \in Plans |-> "label"]

(* Two builds of a component, released in any order.                       *)
Builds == {<<[Push EXCEPT !.start = t], [Push EXCEPT !.start = u]>> : t \in {2, 20}, u \in {20, 25}} \cup
          {<<[Push EXCEPT !.ignore = TRUE], [Push EXCEPT !.start = 25]>>}

Ordered ==
  \E ks \in Builds, b \in {Often(2, {"fault"}), Often(2, {"crash", "gc"}), Often(2, {"lag"}),
                           Often(2, {"gc", "fault"}), Often(2, {"lost", "crash"}), Often(2, {"fault", "age"})} :
    ReleaseInit(ks, FALSE, AllLabels, Flat, b)

(* One Snapshot of each kind, and what the plans say.                      *)
Gated ==
  \E k \in {Push, [Push EXCEPT !.should = FALSE], [Push EXCEPT !.off = TRUE], Pull,
            Override, [Override EXCEPT !.valid = FALSE]},
     gates \in [Plans -> Gates], b \in {Often(2, {"fault", "crash"}), Often(2, {"fault", "age"})} :
    ReleaseInit(<<k>>, FALSE, gates, Flat, b)

(* Nested groups.                                                          *)
Nested ==
  \E k \in {Push, Pull, Override}, nesting \in {Chain, Diamond},
     b \in {Often(1, {"fault"}), Often(1, {"crash"}), Often(1, {"gc"})} :
    ReleaseInit(<<k>>, FALSE, [p \in Plans |-> "off"], nesting, b)

(* The garbage collector and Snapshots of all kinds.                       *)
Old == {[Push EXCEPT !.comp = c, !.keep = k] : c \in Components, k \in {"no", "true"}} \cup
       {[Pull EXCEPT !.pr = q] : q \in {"open", "gone", "waiting"}} \cup
       {[Pull EXCEPT !.keep = k, !.age = "days", !.pr = q] : k \in {"ttl", "bad"}, q \in {"gone", "waiting"}} \cup
       {[Pull EXCEPT !.keep = "ttl"], Override, [Override EXCEPT !.kind = "parent"]}
Few == {Push, [Push EXCEPT !.comp = c2], [Pull EXCEPT !.pr = "gone"], [Push EXCEPT !.keep = "true"], Pull, Override}
Collected ==
  \E ks \in [1 .. 3 -> Old] \cup [1 .. 4 -> Few] :
    ReleaseInit(ks, TRUE, AllLabels, Flat, Often(0, {"gc"}))

MCSpec == (Ordered \/ Gated \/ Nested \/ Collected) /\ [][ReleaseNext]_vars

(* A pull request, and groups with plans of their own; nothing fails.      *)
MCNestedSpec ==
  /\ \E k \in {Push, Pull} : ReleaseInit(<<k>>, FALSE, AllLabels, Chain, Often(2, {"overlap"}))
  /\ [][ReleaseNext]_vars
=============================================================================
