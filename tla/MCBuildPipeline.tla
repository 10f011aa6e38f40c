--------------------------- MODULE MCBuildPipeline ---------------------------
(* Instances of BuildPipeline for TLC. *)
EXTENDS BuildPipeline, TLC

CONSTANTS b1, b2, o1, g1, g2, c1, c2

OneComponent == b1 :> c1 @@ b2 :> c1

OverrideAll == o1 :> [group |-> g1, comps |-> Components]

Mixed == [event: {"push"}, image: {"ok", "bad", "missing"}] \cup
         {[event |-> "pull", image |-> "ok"]}

Often(n, ds) == [d \in Disturbances |-> IF d \in ds THEN n ELSE 0]
Crashed == Often(1, {"crash"})
Edited == Often(1, {"edit"})
Faulty == Often(1, {"fault"})
Refused == Often(1, {"quota", "delete", "gone"})
AllBudgets == {Crashed, Faulty, Edited, Refused}

Running == {b \in Builds : plr[b].state = "running"}
Signed == {b \in Builds : plr[b].signed}
Pending == {o \in Overrides : over[o].pc = "new"}
Using == {g \in Groups : c1 \in group[g].spec}

(* The settings, each as rich as the size of its state space allows: two   *)
(* signed builds (the names of which do not matter), or one build from its *)
(* start on.                                                               *)
TwoSigned ==
  /\ Signed = Builds /\ start[b1] <= start[b2]
  /\ \A b \in Builds : about[b] = [event |-> "push", image |-> "ok"]

OneStarted ==
  /\ Signed = {} /\ Running = {b1}
  /\ \A b \in Builds : start[b] = 1 /\ about[b] = about[b1]

(* For an Application, and for one or two groups.                          *)
Alone ==
  /\ toAlign = {} /\ Pending = {}
  /\ \/ /\ model = "application" /\ left \in {Crashed, Faulty}
        /\ Using = {} /\ (OneStarted \/ TwoSigned)
     \/ /\ model = "componentgroup" /\ left \in {Crashed, Faulty, Refused}
        /\ g1 \in Using /\ OneStarted

(* Next to an override Snapshot, and to a group that is aligned or edited. *)
Overridden ==
  /\ TwoSigned
  /\ \/ model = "application" /\ left \in {Crashed, Faulty} /\ Using = {} /\ toAlign = {}
     \/ model = "componentgroup" /\ left \in {Edited, Faulty} /\ Using = {g1} /\ g2 \notin toAlign

MCInit == BuildInit /\ (Alone \/ Overridden)

MCSpec == MCInit /\ [][BuildNext]_vars

(* For liveness, with two groups only faults.                              *)
MCFairInit ==
  /\ BuildInit /\ Alone
  /\ model = "componentgroup" /\ left # Faulty => Using = {g1}

MCFairSpec == MCFairInit /\ [][BuildNext]_vars /\ BuildFairness
=============================================================================
