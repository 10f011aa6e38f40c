--------------------------- MODULE TestStatusProofs ---------------------------
(***************************************************************************)
(* What the operations on test statuses preserve, for every set of         *)
(* scenarios and every TestGraph.                                          *)
(***************************************************************************)
EXTENDS TestStatus, TLAPS

(* The absent detail is a detail, and no statuses at all are statuses.     *)
LEMMA NoStatusesType ==
  Absent \in Details /\ NoStatuses \in AllStatuses
BY DEF Absent, Details, NoStatuses, AllStatuses, Statuses, FinalStatuses,
       PassedStatuses, Writers, NoPlr, Plrs

(* UpdateTestStatusIfChanged and UpdateTestPipelineRunName keep the type,  *)
(* also for a scenario that is not known.                                  *)
LEMMA UpdateTestStatusType ==
  ASSUME NEW st \in AllStatuses, NEW s, NEW status \in Statuses,
         NEW p \in Plrs \cup {NoPlr}, NEW by \in Writers
  PROVE  UpdateTestStatus(st, s, status, p, by) \in AllStatuses
BY DEF UpdateTestStatus, AllStatuses, Details

(* InitStatuses keeps the type.                                            *)
LEMMA InitStatusesType ==
  ASSUME NEW st \in AllStatuses, NEW applicable
  PROVE  InitStatuses(st, applicable) \in AllStatuses
BY NoStatusesType DEF InitStatuses, AllStatuses, Details, Statuses, Absent

(* CascadeFailFastDependents keeps the type.                               *)
LEMMA CascadeFailFastType ==
  ASSUME NEW st \in AllStatuses
  PROVE  CascadeFailFast(st) \in AllStatuses
BY DEF CascadeFailFast, AllStatuses, Details, Statuses, FinalStatuses, Writers

-----------------------------------------------------------------------------
(* The failed scenarios are in the closure, and the closure is closed: it  *)
(* is the intersection of the closed sets that hold the failed scenarios.  *)
LEMMA FailFastClosureIsClosed ==
  ASSUME NEW st \in AllStatuses
  PROVE  /\ Failed(st) \subseteq FailFastClosure(st)
         /\ ClosedUnderFailFast(st, FailFastClosure(st))
<1>1. Failed(st) \subseteq FailFastClosure(st)
  BY DEF FailFastClosure, Failed
<1>2. ASSUME NEW e \in FailFast, e[2] \in FailFastClosure(st),
             e[1] \in Present(st), ~IsFinal(st[e[1]].status)
      PROVE  e[1] \in FailFastClosure(st)
  <2>1. e[1] \in Scenarios
    BY <1>2 DEF Present
  <2>2. ASSUME NEW X \in SUBSET Scenarios, Failed(st) \subseteq X, ClosedUnderFailFast(st, X)
        PROVE  e[1] \in X
    <3>1. e[2] \in X
      BY <1>2, <2>2 DEF FailFastClosure
    <3>2. QED
      BY <1>2, <2>2, <3>1 DEF ClosedUnderFailFast
  <2>3. QED
    BY <2>1, <2>2 DEF FailFastClosure
<1>3. QED
  BY <1>1, <1>2 DEF ClosedUnderFailFast

(* The cascade changes nothing but unfinished scenarios that have a        *)
(* status, and it changes those to TestFail.                               *)
LEMMA FailFastClosureUnfinished ==
  ASSUME NEW st \in AllStatuses, NEW s \in FailFastClosure(st) \ Failed(st)
  PROVE  s \in Present(st) /\ ~IsFinal(st[s].status)
<1> DEFINE X == {q \in FailFastClosure(st) :
                   q \in Failed(st) \/ (q \in Present(st) /\ ~IsFinal(st[q].status))}
<1>1. X \in SUBSET Scenarios
  BY DEF FailFastClosure
<1>2. Failed(st) \subseteq X
  BY FailFastClosureIsClosed
<1>3. ClosedUnderFailFast(st, X)
  BY FailFastClosureIsClosed DEF ClosedUnderFailFast
<1>4. s \in X
  BY <1>1, <1>2, <1>3 DEF FailFastClosure
<1>5. QED
  BY <1>4

(* cascadeFailFastFromFailedScenarios leaves nothing behind: no unfinished *)
(* scenario is on a failFast edge to a failed one, so one pass over the    *)
(* failed scenarios is enough whatever the TestGraph looks like.           *)
THEOREM CascadeIsComplete ==
  ASSUME NEW st \in AllStatuses
  PROVE  LET after == CascadeFailFast(st)
         IN  \A e \in FailFast :
               (e[2] \in Failed(after) /\ e[1] \in Present(after)) =>
                 IsFinal(after[e[1]].status)
<1> DEFINE after == CascadeFailFast(st)
<1>1. ASSUME NEW e \in FailFast, e[2] \in Failed(after), e[1] \in Present(after),
             ~IsFinal(after[e[1]].status)
      PROVE  FALSE
  <2>1. e[1] \in Scenarios /\ e[2] \in Scenarios
    BY <1>1 DEF Failed, Present
  <2>2. e[1] \notin FailFastClosure(st) \ Failed(st)
    BY <1>1, <2>1 DEF CascadeFailFast, AllStatuses, Details, IsFinal, FinalStatuses
  <2>3. after[e[1]] = st[e[1]]
    BY <2>1, <2>2 DEF CascadeFailFast
  <2>4. e[2] \in FailFastClosure(st)
    <3>1. CASE e[2] \in FailFastClosure(st) \ Failed(st)
      BY <3>1
    <3>2. CASE e[2] \notin FailFastClosure(st) \ Failed(st)
      <4>1. after[e[2]] = st[e[2]]
        BY <2>1, <3>2 DEF CascadeFailFast
      <4>2. e[2] \in Failed(st)
        BY <1>1, <2>1, <4>1 DEF Failed
      <4>3. QED
        BY <4>2, FailFastClosureIsClosed
    <3>3. QED
      BY <3>1, <3>2
  <2>5. e[1] \in Present(st) /\ ~IsFinal(st[e[1]].status)
    BY <1>1, <2>1, <2>3 DEF Present
  <2>6. e[1] \in FailFastClosure(st)
    BY <2>4, <2>5, FailFastClosureIsClosed DEF ClosedUnderFailFast
  <2>7. QED
    BY <2>2, <2>5, <2>6 DEF Failed
<1>2. QED
  BY <1>1

(* No scenario passes, and none that had finished changes, by a cascade.   *)
LEMMA CascadePassesNothing ==
  ASSUME NEW st \in AllStatuses, NEW s \in Scenarios
  PROVE  IsPassed(CascadeFailFast(st)[s].status) => IsPassed(st[s].status)
BY DEF CascadeFailFast, AllStatuses, Details, IsPassed, PassedStatuses

(* No scenario passes by InitStatuses: an entry it adds is Pending.        *)
LEMMA InitPassesNothing ==
  ASSUME NEW st \in AllStatuses, NEW s \in Scenarios, NEW applicable
  PROVE  IsPassed(InitStatuses(st, applicable)[s].status) => IsPassed(st[s].status)
BY DEF InitStatuses, AllStatuses, Absent, IsPassed, PassedStatuses

(* After the cascade a waiting scenario is held back only by scenarios     *)
(* that have not finished: findScenariosReadyToRunWithoutPLR leaves none   *)
(* waiting for a scenario that is done.                                    *)
THEOREM ReadyOnceParentsFinish ==
  ASSUME NEW st \in AllStatuses, NEW s \in Scenarios,
         LET after == CascadeFailFast(st)
         IN  /\ s \in Present(after) /\ ~IsFinal(after[s].status)
             /\ \A q \in GetRunAfterMap(s, Present(after)) : IsFinal(after[q].status)
  PROVE  AreRunAfterRequirementsSatisfied(CascadeFailFast(st), s)
<1> DEFINE after == CascadeFailFast(st)
<1>1. ASSUME NEW q \in GetRunAfterMap(s, Present(after)), <<s, q>> \in FailFast,
             ~IsPassed(after[q].status)
      PROVE  FALSE
  <2>1. q \in Failed(after)
    BY <1>1 DEF Failed, GetRunAfterMap, Present
  <2>2. QED
    BY <1>1, <2>1, CascadeIsComplete
<1>2. QED
  BY <1>1 DEF AreRunAfterRequirementsSatisfied
=============================================================================
