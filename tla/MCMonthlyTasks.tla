--------------------------- MODULE MCMonthlyTasks ---------------------------
(* Small instances of the task table for TLC. *)
EXTENDS MonthlyTasks, TLC

CONSTANTS t1, t2, g1, g2, w1, w2

MCTask == {t1, t2}
MCGroup == {g1, g2}
MCWorker == {w1, w2}
TwoGroups == (t1 :> g1) @@ (t2 :> g2)

(***************************************************************************)
(* Progress. Time is advanced only while a deadline lies ahead (waiting    *)
(* longer changes no comparison), so MaxTime is never reached; the worker  *)
(* of each process keeps claiming, stops once its lease is lost, and time  *)
(* passes.                                                                 *)
(***************************************************************************)
DeadlineAhead ==
    \E t \in Task : \/ Live(t)
                    \/ rec[t].state = "failed" /\ rec[t].retryAt > now
MCTick == DeadlineAhead /\ Tick

LiveNext ==
    \/ \E w \in Worker : WorkerStep(w)
    \/ \E t \in Task : TaskStep(t)
    \/ MCTick

Settled(t) == rec[t].state \in {"draft_ready", "failed", "invalidated"}

LiveSpec ==
    /\ Init /\ [][LiveNext]_vars
    /\ WF_vars(MCTick)
    /\ \A t \in Task : /\ WF_vars(\E w \in Worker : Claim(w, t))
                       /\ WF_vars(ClaimExhausted(t))
    /\ \A w \in Worker : WF_vars(~Fenced(w) /\ Drop(w))

\* Every submitted task settles, whichever workers crash or stall: no row stays
\* queued or running and blocks its organization for ever.
EverySubmissionSettles == \A t \in Task : Exists(t) ~> Settled(t)
=============================================================================
