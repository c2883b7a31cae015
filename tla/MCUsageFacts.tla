---------------------------- MODULE MCUsageFacts ----------------------------
(* Instances of UsageFacts for TLC: days of two hours, hours retained for    *)
(* one day and a tail of one hour; the configurations choose the window.     *)
EXTENDS UsageFacts

CONSTANTS m1, m2
OneMember == {m1}
TwoMembers == {m1, m2}

\* For liveness a behaviour meets a few kinds of trouble.
Troubles == {{"changes"}, {"crashes"}, {"late", "failures"}, {"late", "repairs"}}
Bound == [late |-> MaxLate, changes |-> MaxChanges, crashes |-> MaxCrashes,
          failures |-> MaxFailures, repairs |-> MaxRepairs]
LiveInit == \E kinds \in Troubles : Start([k \in DOMAIN Bound |-> IF k \in kinds THEN 0 ELSE Bound[k]])
LiveSpec == LiveInit /\ [][Next]_vars /\ Fairness
=============================================================================
