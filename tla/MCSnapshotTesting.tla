-------------------------- MODULE MCSnapshotTesting --------------------------
(***************************************************************************)
(* Instances of SnapshotTesting for TLC: the TestGraphs, and the settings, *)
(* with how often each disturbance may happen in them.                     *)
(***************************************************************************)
EXTENDS SnapshotTesting, TLC

CONSTANTS a, b, c

Symmetry == Permutations({a, b})

NoEdges == [s \in Scenarios |-> {}]

(* b runs after a, with failFast; c runs after b.                          *)
Chain == [s \in Scenarios |-> IF s = b THEN {a} ELSE IF s = c THEN {b} ELSE {}]
ChainFailFast == {<<b, a>>}

(* Each kind in `ks' may happen once, the others never.                    *)
Once(ks) == [k \in Disturbances |-> IF k \in ks THEN 1 ELSE 0]

(* The controllers overlap, or the snapshot and integrationpipeline        *)
(* controllers take turns.                                                 *)
Overlapping(outcomes, ks) ==
  [reported |-> TRUE, overlap |-> TRUE, lag |-> FALSE, outcomes |-> outcomes, bound |-> Once(ks)]
InTurn(outcomes, ks) == [Overlapping(outcomes, ks) EXCEPT !.overlap = FALSE]

OverlapSettings ==
  {Overlapping({"passed", "testfailed"}, {}),
   Overlapping({"testfailed"}, {"fault"}),
   [Overlapping({"warning", "failed"}, {"crash"}) EXCEPT !.reported = FALSE],
   [Overlapping({"passed", "failed"}, {"crash"}) EXCEPT !.lag = TRUE],
   Overlapping({"passed"}, {"edit"})}

GraphSettings ==
  {Overlapping({"passed", "failed"}, {}),
   InTurn({"passed", "failed"}, {"rerun"}),
   InTurn({"failed"}, {"rerun"})}

TurnSettings ==
  {InTurn({outcome}, {"rerun"}) : outcome \in {"passed", "testfailed"}} \cup
  {[InTurn({"passed", "testfailed"}, {"rerun"}) EXCEPT !.reported = FALSE]} \cup
  {InTurn({"passed", "testfailed"}, ks) :
     ks \in {{"fault", "delete"}, {"fault", "rerun"}, {"delete", "rerun"}}}

FairSettings ==
  {InTurn({"testfailed"}, {"crash", "rerun"}),
   InTurn({"testfailed"}, {"delete", "rerun"}),
   InTurn({"passed", "testfailed"}, {"fault", "crash"}),
   Overlapping({"passed", "testfailed"}, {"crash"})}

(* One scenario is enough where the disturbances are many.                 *)
FewScenarios ==
  \/ its \in {{}, {a}}
  \/ Overlap /\ ~CacheLag /\ Without({"edit"})
  \/ ~Overlap /\ Without(Disturbances \ {"rerun"})

MCInit == Init /\ FewScenarios

MCSpec == MCInit /\ [][Next]_vars

MCFairSpec == MCInit /\ [][Next]_vars /\ Fairness

(* The edges of the chain, together and, where a scenario may be rerun,    *)
(* each on its own; c starts although b has failed.                        *)
PartsOfChain ==
  \/ Overlap /\ Outcomes = {"passed", "failed"} /\ its \in {{a, b}, {b, c}, {a, b, c}}
  \/ ~Overlap /\ Outcomes = {"passed", "failed"} /\ its = {a, b}
  \/ ~Overlap /\ Outcomes = {"failed"} /\ its = {b, c}

GraphInit == Init /\ PartsOfChain

GraphSpec == GraphInit /\ [][Next]_vars
=============================================================================
