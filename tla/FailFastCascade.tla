--------------------------- MODULE FailFastCascade ---------------------------
(***************************************************************************)
(* How the failure of a scenario is spread over the TestGraph:             *)
(* cascadeFailFastFromFailedScenarios and CascadeFailFastDependents.       *)
(*                                                                         *)
(* The outer loop goes over the statuses that the inner ones write to, and *)
(* both range over Go maps, whose order is random.  A step is one          *)
(* iteration of a loop.                                                    *)
(***************************************************************************)
EXTENDS TestStatus, Sequences

CONSTANT InitialDetails  \* details that the scenarios may have before the call

ASSUME InitialDetailsAssumption == InitialDetails \subseteq Details

VARIABLES
  before,    \* the statuses before the call
  statuses,
  todo,      \* outer loop: the entries that it has not looked at
  queue,     \* CascadeFailFastDependents: parents to look at,
  seen,      \*   the scenarios that were ever in the queue,
  left       \*   dependents, over failFast edges, of the current parent

loopsVars == <<before, statuses, todo, queue, seen, left>>

LoopsInit ==
  /\ before \in [Scenarios -> InitialDetails]
  /\ statuses = before
  /\ todo = Present(before)
  /\ queue = <<>> /\ seen = {} /\ left = {}

(* Another entry of the statuses, as it is by now.                         *)
NextStatus(s) ==
  /\ queue = <<>> /\ left = {}
  /\ s \in todo
  /\ todo' = todo \ {s}
  /\ IF s \in Failed(statuses) THEN queue' = <<s>> /\ seen' = {s}
                         ELSE UNCHANGED <<queue, seen>>
  /\ UNCHANGED <<before, statuses, left>>

NextParent ==
  /\ queue # <<>> /\ left = {}
  /\ queue' = Tail(queue)
  /\ left' = {e[1] : e \in {e \in FailFast : e[2] = Head(queue)}}
  /\ UNCHANGED <<before, statuses, todo, seen>>

Blocks(c) == c \in Present(statuses) /\ ~IsFinal(statuses[c].status)

MutantNotQueued(c) ==
  /\ c \in left
  /\ left' = left \ {c}
  /\ statuses' = IF Blocks(c)
                 THEN UpdateTestStatusIfChanged(statuses, c, "TestFail", "snapshot")
                 ELSE statuses
  /\ UNCHANGED <<before, todo, queue, seen>>

(* One dependent: unless it has finished it fails, and its own dependents  *)
(* will be looked at.                                                      *)
NextChild(c) ==
  /\ c \in left
  /\ left' = left \ {c}
  /\ IF Blocks(c)
     THEN /\ statuses' = UpdateTestStatusIfChanged(statuses, c, "TestFail", "snapshot")
          /\ seen' = seen \cup {c}
          /\ queue' = IF c \in seen THEN queue ELSE Append(queue, c)
     ELSE UNCHANGED <<statuses, seen, queue>>
  /\ UNCHANGED <<before, todo>>

LoopsNext == NextParent \/ \E s \in Scenarios : NextStatus(s) \/ NextChild(s)

LoopsSpec == LoopsInit /\ [][LoopsNext]_loopsVars

-----------------------------------------------------------------------------
LoopsDone == todo = {} /\ queue = <<>> /\ left = {}

(* The queue of CascadeFailFastDependents holds scenarios it has marked as *)
(* seen.                                                                   *)
LoopsTypeOK ==
  /\ before \in AllStatuses /\ statuses \in AllStatuses
  /\ todo \subseteq Present(before)
  /\ seen \subseteq Present(before)
  /\ queue \in Seq(seen)
  /\ left \subseteq Scenarios

(* Whatever the order of the iterations, and although the outer loop reads *)
(* statuses that the inner one has changed, the result is the one that     *)
(* SnapshotTesting uses: exactly the unfinished scenarios that edges with  *)
(* failFast lead to from a failed one have failed.                         *)
CascadeIsClosure == LoopsDone => statuses = CascadeFailFast(before)
=============================================================================
