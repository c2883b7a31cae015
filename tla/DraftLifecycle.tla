---------------------------- MODULE DraftLifecycle ----------------------------
(***************************************************************************)
(* What the table of monthly draft tasks promises to the components that   *)
(* read it: a task is worked on until it either has a draft or is void,    *)
(* the draft of a task never changes, and a void task stays void.  The     *)
(* publication journal relies on nothing else of the table (its queries    *)
(* read task_key, result_sha256 and state).                                *)
(***************************************************************************)
CONSTANTS Task, Result   \* the tasks, and the drafts (result_sha256)

VARIABLE life   \* [Task -> a state, and the draft when there is one]

Absent   == [state |-> "absent"]
Working  == [state |-> "working"]
Void     == [state |-> "void"]
Ready(d) == [state |-> "ready", draft |-> d]

IsReady(t) == life[t].state = "ready"

Life == {Absent, Working, Void} \cup {Ready(d) : d \in Result}

Init == life = [t \in Task |-> Absent]

Admit(t)     == life[t] = Absent  /\ life' = [life EXCEPT ![t] = Working]
Finish(t, d) == life[t] = Working /\ life' = [life EXCEPT ![t] = Ready(d)]
Revoke(t)    == life[t] \in Life \ {Absent, Void} /\ life' = [life EXCEPT ![t] = Void]

Step(t) == Admit(t) \/ (\E d \in Result : Finish(t, d)) \/ Revoke(t)

Next == \E t \in Task : Step(t)

Spec == Init /\ [][Next]_life
=============================================================================
