---------------------------- MODULE MCStatusReport ----------------------------
(* Instances of StatusReport for TLC. *)
EXTENDS StatusReport, TLC

CONSTANTS a, b

Upset(n, ds) ==
  [d \in Disturbances |-> IF d = "update" THEN n ELSE IF d \in ds THEN 1 ELSE 0]

AllBudgets ==
  {Upset(3, ds) : ds \in {{"fault"}, {"crash"}}} \cup
  {Upset(2, ds) : ds \in {{"fault"}, {"crash"}, {"fault", "age"}, {"reject"}, {"lost"}, {"cancel"},
                           {"groupfail", "fault"}, {"groupfail", "reject"}}}

Plain(r, p) == [reporter |-> r, pull |-> p, quiet |-> FALSE, missing |-> {}]

Pulls == {Plain(r, TRUE) : r \in Reporters}

Odd == {Plain("none", TRUE), [Plain("checkrun", TRUE) EXCEPT !.missing = {"installation"}],
        [Plain("forgejo", TRUE) EXCEPT !.quiet = TRUE], Plain("gitlab", FALSE),
        Plain("commitstatus", FALSE)}

(* A component Snapshot, or a group Snapshot of two components.            *)
Component == {<<d>> : d \in Pulls \cup Odd}
Group == {<<Plain(r, TRUE), Plain("gitlab", TRUE)>> : r \in {"checkrun", "none"}}
AllLayouts == Component \cup Group

MCInit ==
  /\ ReportInit
  /\ IF left["update"] = 3 THEN dests \in {<<d>> : d \in Pulls}
     ELSE N = 2 => left \in {Upset(2, {"fault"}), Upset(2, {"crash"})}

MCSpec == MCInit /\ [][ReportNext]_vars /\ ReportFairness

=============================================================================
