----------------------------- MODULE MCNudgeBatch -----------------------------
(* Instances of NudgeBatch for TLC. *)
EXTENDS NudgeBatch, TLC

CONSTANTS b1, b2, c1, c2, t1

TwoSources == b1 :> c1 @@ b2 :> c2
Often(n, ds) == [d \in Disturbances |-> IF d \in ds THEN n ELSE 0]
Calm == Often(0, {})
Crashed == Often(1, {"crash"})
Faulty == Often(1, {"fault"})
Pruned == Often(1, {"delete", "prune"})
Forced == Often(1, {"force"})
Failing == Often(2, {"fail"})
AllBudgets == {Calm, Crashed, Faulty, Pruned, Forced, Failing}

Swap == {b1 :> b2 @@ b2 :> b1 @@ c1 :> c2 @@ c2 :> c1}

AllConfigs == [immediate: BOOLEAN, creds: BOOLEAN, policy: {"Block", "ProceedWithPartial"}]

Ended == {b \in Builds : plr[b].state = "succeeded"}
Gone == {b \in Builds : plr[b].state = "gone"}
Pushes == {b \in Builds : about[b] = "push"}

(* Two builds that have succeeded, or one of them still runs.              *)
TwoBuilds ==
  /\ Gone = {} /\ Pushes = Builds
  /\ ~conf.immediate /\ conf.creds
  /\ \/ Ended = Builds /\ left \in {Crashed, Faulty} /\ conf.policy = "Block"
     \/ Ended = {b1} /\ left \in {Calm, Forced}

(* One build of any kind, with immediate targets too.                      *)
OneBuild ==
  /\ Gone = {b2} /\ about[b2] = "push"
  /\ left # Calm /\ conf.policy = "Block"

MCInit == NudgeInit /\ (TwoBuilds \/ OneBuild)

MCSpec == MCInit /\ [][NudgeNext]_vars
=============================================================================
