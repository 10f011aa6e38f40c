-------------------------- MODULE MCPullRequestGroup --------------------------
(* Instances of PullRequestGroup for TLC. *)
EXTENDS PullRequestGroup, TLC

CONSTANTS c1, c2

OneRebuilt == [b \in Builds |-> IF b = 2 THEN c2 ELSE c1]

(* Of n builds; each of the disturbances ds happens at most once.          *)
Plan(n, ds) == [d \in Disturbances |-> IF d = "builds" THEN n ELSE IF d \in ds THEN 1 ELSE 0]

Rebuilt == {Plan(3, {"close"}), Plan(3, {"overlap", "progress"}), Plan(3, {"fast"}), Plan(3, {"tested"})}

Disturbed == {Plan(2, {"fault", "failed", "reject"}), Plan(2, {"crash", "failed"}),
              Plan(2, {"lag", "refuse"}), Plan(2, {"unsigned", "failed"})}

AllBudgets == Rebuilt \cup Disturbed

(* Three builds of two components of an Application, or two builds for     *)
(* either model that more goes wrong with.                                 *)
MCInit ==
  /\ GroupInit
  /\ enforced = (model = "componentgroup")
  /\ plan \in Rebuilt => model = "application"

MCSpec == MCInit /\ [][GroupNext]_vars
=============================================================================
