---------------------------- MODULE FinanceQueue ----------------------------
(***************************************************************************)
(* The queue of finance reports, src/monitor/finance_report_queue.go: every *)
(* entry point submits under its key, one worker at a time builds, and a    *)
(* small history of ended jobs paces retries.  The worker is started by the *)
(* submission that finds none and ends when nothing waits.  Each action is  *)
(* one section under the queue's mutex.                                     *)
(*                                                                         *)
(* The pauses between two runs of a key are left out: a submission of an    *)
(* ended job may come too early and change nothing.  So is the order in     *)
(* which jobs ended: any of them may be the oldest.                         *)
(***************************************************************************)
EXTENDS Naturals, Sequences, FiniteSets, SequencesExt

CONSTANTS
    Key,          \* bound: the reports asked for
    Capacity,     \* financeReportQueueCapacity
    History,      \* financeReportQueueHistory
    RaceLimit,    \* financeReportRaceLimit
    NoKey         \* the worker runs nothing

VARIABLES
    jobs,         \* q.jobs: the record of a key, if there is one
    pending,      \* q.pending
    worker,       \* the goroutine of drain: "none", "between" two jobs, or "run"
    current,      \* the job it runs
    closing       \* "open", "closed", "quiet" (shutdown saw the worker's end), "left"

vars == <<jobs, pending, worker, current, closing>>

Absent == [state |-> "absent"]
Ended == {"succeeded", "failed", "retrying", "stopped"}
Job == [state : Ended \cup {"queued", "running"}, races : 0 .. RaceLimit, unresolved : BOOLEAN]

TypeOK ==
    /\ jobs \in [Key -> Job \cup {Absent}]
    /\ pending \in Seq(Key)
    /\ worker \in {"none", "between", "run"}
    /\ current \in Key \cup {NoKey}
    /\ closing \in {"open", "closed", "quiet", "left"}

Init ==
    /\ jobs = [k \in Key |-> Absent]
    /\ pending = <<>>
    /\ worker = "none" /\ current = NoKey
    /\ closing = "open"

Known == {k \in Key : jobs[k] # Absent}

\* Mutant: any job that is not being built may make room.
Evictable_Waiting(k) == jobs[k].state \in Ended \cup {"queued"}
Evictable(k) == jobs[k].state \in Ended

\* The jobs that stay when another comes in.
Rooms ==
    IF Cardinality(Known) < History \/ ~\E k \in Known : Evictable(k) THEN {jobs}
    ELSE {[jobs EXCEPT ![k] = Absent] : k \in {x \in Known : Evictable(x)}}

\* A key keeps its failure and its races when it is tried again.
Queued(k) ==
    IF jobs[k] = Absent THEN [state |-> "queued", races |-> 0, unresolved |-> FALSE]
    ELSE [jobs[k] EXCEPT !.state = "queued"]

Submit(k) ==
    /\ closing = "open"
    /\ jobs[k].state \notin {"queued", "running"}
    /\ Len(pending) < Capacity
    /\ \E kept \in Rooms : jobs' = [kept EXCEPT ![k] = Queued(k)]
    /\ pending' = Append(pending, k)
    /\ worker' = IF worker = "none" THEN "between" ELSE worker
    /\ UNCHANGED <<current, closing>>

\* drain: the next job, or the end of the worker.
Take ==
    /\ worker = "between" /\ closing = "open" /\ pending # <<>>
    /\ worker' = "run" /\ current' = Head(pending)
    /\ pending' = Tail(pending)
    /\ jobs' = [jobs EXCEPT ![Head(pending)].state = "running"]
    /\ UNCHANGED closing

Leave ==
    /\ worker = "between" /\ (closing # "open" \/ pending = <<>>)
    /\ worker' = "none" /\ pending' = <<>>
    /\ UNCHANGED <<jobs, current, closing>>

\* What a run that ended so makes of its record: a publication that overtook the report is tried
\* again a few times, and then is a failure like any other.
Settled(j, outcome) ==
    CASE outcome = "ok" -> [state |-> "succeeded", races |-> 0, unresolved |-> FALSE]
      [] outcome = "canceled" -> [j EXCEPT !.state = "stopped"]
      [] outcome = "failed" -> [j EXCEPT !.state = "failed", !.unresolved = TRUE]
      [] outcome = "changed" ->
            LET races == IF j.races < RaceLimit THEN j.races + 1 ELSE RaceLimit IN
            IF races < RaceLimit /\ ~j.unresolved
            THEN [j EXCEPT !.state = "retrying", !.races = races]
            ELSE [j EXCEPT !.state = "failed", !.races = races, !.unresolved = TRUE]

\* A run that a shutdown cancels may have ended already, in any way.
Finish ==
    /\ worker = "run"
    /\ \E outcome \in {"ok", "canceled", "failed", "changed"} :
          jobs' = [jobs EXCEPT ![current] = Settled(@, outcome)]
    /\ worker' = "between" /\ current' = NoKey
    /\ UNCHANGED <<pending, closing>>

\* forgetMissingResult: a success whose result is gone must not delay another run.
Forget(k) ==
    /\ jobs[k].state = "succeeded"
    /\ jobs' = [jobs EXCEPT ![k] = Absent]
    /\ UNCHANGED <<pending, worker, current, closing>>

\* shutdown: what waits is stopped, what runs is canceled and waited for.
Shutdown ==
    /\ closing = "open"
    /\ jobs' = [k \in Key |-> IF k \in ToSet(pending) THEN [jobs[k] EXCEPT !.state = "stopped"]
                              ELSE jobs[k]]
    /\ pending' = <<>>
    /\ closing' = IF worker = "none" THEN "quiet" ELSE "closed"
    /\ UNCHANGED <<worker, current>>

\* Its caller's patience may end first.
ShutdownReturns ==
    /\ closing = "closed"
    /\ closing' \in (IF worker = "none" THEN {"quiet"} ELSE {}) \cup {"left"}
    /\ UNCHANGED <<jobs, pending, worker, current>>

Next ==
    \/ \E k \in Key : Submit(k) \/ Forget(k)
    \/ Take \/ Leave \/ Finish
    \/ Shutdown \/ ShutdownReturns

Spec == Init /\ [][Next]_vars

-----------------------------------------------------------------------------
\* Whatever is evicted, forgotten and submitted again, no key has two jobs at a time and none
\* waits for nobody: what is queued has one place in the queue and a worker to come to it, what
\* is running is the worker's, the history keeps its bound, and after a shutdown that returned
\* in time nothing is built (submit against drain, shutdown).
ReportsServed ==
    /\ \A k \in Key : jobs[k].state = "queued" <=> k \in ToSet(pending)
    /\ IsInjective(pending)
    /\ \A k \in Key : jobs[k].state = "running" <=> worker = "run" /\ current = k
    /\ pending # <<>> => worker # "none"
    /\ Cardinality(Known) <= History
    /\ closing = "quiet" => worker = "none" /\ pending = <<>>
=============================================================================
