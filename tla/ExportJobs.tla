----------------------------- MODULE ExportJobs -----------------------------
(***************************************************************************)
(* The manager of bill-generation tasks (internal/usagebill/exportjobs):   *)
(* an in-memory registry of tasks under one mutex, a bounded channel, one  *)
(* worker that writes the artifacts, and downloads that hold their file    *)
(* open.  Every critical section of the mutex is one action.               *)
(*                                                                         *)
(* View, Open and Cancel authorize their caller without the mutex and then *)
(* repeat the lookup under it; only the second lookup counts, so each of   *)
(* them is one action.  Time is abstracted to the three facts the code     *)
(* asks of it: a task's expiry, its context's deadline and its retry delay *)
(* (the context's deadline is never later than the expiry).                *)
(***************************************************************************)
EXTENDS Integers, Sequences, FiniteSets, SequencesExt

CONSTANTS
    Id,          \* task identities (random, so never drawn twice)
    Group,       \* organizations
    Filter,      \* the rest of a request: owner version, filters, row count
    MaxJobs,     \* limits.MaxJobs
    MaxFaults    \* bound on the periods in which files cannot be removed

ASSUME LimitAssumption == MaxJobs \in Nat \ {0} /\ MaxFaults \in Nat

VARIABLES
    job,      \* m.jobs: [Id -> a task, or Gone]
    streams,  \* the tasks whose artifact a caller holds open (j.readers is 0 or 1)
    files,    \* the artifact directory of each task
    queue,    \* m.queue
    worker,   \* the worker goroutine: where it is, its task, run's code
    closing,  \* Close: "open", then "closed" (m.closed), then "swept" (returned once)
    root,     \* whether the session directory exists
    disk,     \* whether os.RemoveAll and MkdirTemp work at present
    faults    \* periods in which they did not

vars == <<job, streams, files, queue, worker, closing, root, disk, faults>>

Gone == [state |-> "gone"]
Rest == [pc |-> "rest", task |-> "none", code |-> "none"]

\* A new task: no context yet (busy), and j.finished still zero (cooled).
Queued(g, f) ==
    [state |-> "queued", group |-> g, filter |-> f, busy |-> FALSE, stopped |-> FALSE,
     expired |-> FALSE, retired |-> FALSE, cooled |-> TRUE]

Kept(js) == {i \in Id : js[i] # Gone}
Closed == closing # "open"

Init ==
    /\ job = [i \in Id |-> Gone]
    /\ streams = {}
    /\ files = [i \in Id |-> "none"]
    /\ queue = <<>>
    /\ worker = Rest
    /\ closing = "open"
    /\ root = TRUE
    /\ disk = "works"
    /\ faults = 0

(***************************************************************************)
(* removeLocked, for a set of tasks at once: the files first, the registry *)
(* entry only when they are gone.                                          *)
(***************************************************************************)
Removable_AnyReader(reading, j) == ~j.busy
Removable(reading, j) == ~reading /\ ~j.busy

Erased_Unchecked(i) == TRUE
Erased(i) == disk = "works" \/ files[i] = "none"

Forget_IfRetired(js, S) == [i \in Id |-> IF i \in S /\ js[i].retired THEN Gone ELSE js[i]]
Forget(js, S) == [i \in Id |-> IF i \in S THEN Gone ELSE js[i]]
Wipe(S) == [i \in Id |-> IF i \in S /\ disk = "works" THEN "none" ELSE files[i]]

\* The tasks of js that a sweep, or the end of Close, gets rid of.
Removed(js, S) == {i \in S : Removable(i \in streams, js[i]) /\ Erased(i)}

(***************************************************************************)
(* sweepLocked.                                                            *)
(***************************************************************************)
Due(js) == {i \in Kept(js) : js[i].expired \/ js[i].retired}

Retired(js, S) ==
    [i \in Id |-> IF i \in S THEN [js[i] EXCEPT !.retired = TRUE,
                                                !.stopped = @ \/ js[i].busy] ELSE js[i]]

SweptAway == Removed(job, Due(job))
Swept == Forget(Retired(job, Due(job)), SweptAway)

(***************************************************************************)
(* The operations of the callers.                                          *)
(***************************************************************************)

\* A task of the group that the same request joins instead of starting another.
Reusable(j, f) == ~j.retired /\ j.filter = f /\ j.state \in {"queued", "running", "ready"}

\* A task of the group that a different request has to wait for.
Occupied(i, j) ==
    j.retired \/ j.state \in {"queued", "running"} \/ i \in streams \/ ~j.cooled

\* Canceled tasks may still take a place in the channel.
Full(js) == Cardinality(Kept(js)) >= MaxJobs \/ Len(queue) >= MaxJobs

Submit(g, f) ==
    LET mine == {i \in Kept(Swept) : Swept[i].group = g}
        replaced == {i \in mine : Removable(i \in streams, Swept[i]) /\ Erased(i)}
        left == Forget(Swept, mine)
        Refuse(js, gone) == job' = js /\ files' = Wipe(gone) /\ UNCHANGED queue
    IN
    /\ ~Closed
    /\ \/ /\ \E i \in mine : Reusable(Swept[i], f) \/ Occupied(i, Swept[i]) \/ i \notin replaced
          /\ Refuse(Swept, SweptAway)
       \/ /\ \A i \in mine : ~Reusable(Swept[i], f) /\ ~Occupied(i, Swept[i]) /\ i \in replaced
          /\ Full(left)
          /\ Refuse(left, SweptAway \cup mine)
       \/ /\ \A i \in mine : ~Reusable(Swept[i], f) /\ ~Occupied(i, Swept[i]) /\ i \in replaced
          /\ ~Full(left)
          /\ \E i \in Id \ Kept(job) :
                /\ ~Contains(queue, i)
                /\ job' = [left EXCEPT ![i] = Queued(g, f)]
                /\ queue' = Append(queue, i)
          /\ files' = Wipe(SweptAway \cup mine)
    /\ UNCHANGED <<streams, worker, closing, root, disk, faults>>

\* lookupLocked.
Found(i) == ~Closed /\ i \in Kept(job) /\ ~job[i].retired /\ ~job[i].expired

Open(i) ==
    /\ Found(i)
    /\ job[i].state = "ready" /\ i \notin streams
    /\ files[i] = "complete"
    /\ streams' = streams \cup {i}
    /\ UNCHANGED <<job, files, queue, worker, closing, root, disk, faults>>

\* The task leaves the registry when its files can be removed, and stays as j if not.
Drop(i, j) ==
    IF Removable(i \in streams', j) /\ Erased(i)
    THEN job' = [job EXCEPT ![i] = Gone] /\ files' = Wipe({i})
    ELSE job' = [job EXCEPT ![i] = j] /\ UNCHANGED files

\* The last one out removes the session directory.
RemoveRoot == root' = IF Closed /\ Kept(job') = {} /\ disk = "works" THEN FALSE ELSE root

\* Artifact.Close.
CloseArtifact(i) ==
    /\ i \in streams
    /\ streams' = streams \ {i}
    /\ IF job[i].retired THEN Drop(i, job[i]) ELSE UNCHANGED <<job, files>>
    /\ RemoveRoot
    /\ UNCHANGED <<queue, worker, closing, disk, faults>>

Cancel(i) ==
    /\ Found(i)
    /\ UNCHANGED streams
    /\ Drop(i, [job[i] EXCEPT !.state = "canceled", !.retired = TRUE, !.cooled = FALSE,
                              !.stopped = @ \/ job[i].busy])
    /\ UNCHANGED <<queue, worker, closing, root, disk, faults>>

(***************************************************************************)
(* The worker.                                                             *)
(***************************************************************************)

\* Its ticker; the sweep needs no other call.
WorkerSweeps ==
    /\ worker.pc = "rest"
    /\ job' = Swept /\ files' = Wipe(SweptAway)
    /\ UNCHANGED <<streams, queue, worker, closing, root, disk, faults>>

Startable_WithSpace(i) ==
    ~Closed /\ i \in Kept(job) /\ ~job[i].retired /\ ~job[i].expired /\ disk = "works"
Startable(i) == ~Closed /\ i \in Kept(job) /\ ~job[i].retired /\ ~job[i].expired

\* The next task of the channel is started, or skipped if it was removed meanwhile.
Take ==
    /\ worker.pc = "rest" /\ queue # <<>>
    /\ queue' = Tail(queue)
    /\ IF Startable(Head(queue))
       THEN /\ job' = [job EXCEPT ![Head(queue)].busy = TRUE, ![Head(queue)].state = "running"]
            /\ worker' = [pc |-> "prepare", task |-> Head(queue), code |-> "none"]
       ELSE UNCHANGED <<job, worker>>
    /\ UNCHANGED <<streams, files, closing, root, disk, faults>>

Stopped(i) == job[i].stopped \/ Closed

Renamed(i) == [files EXCEPT ![i] = "complete"]

Goto(pc, code) == worker' = [worker EXCEPT !.pc = pc, !.code = code]

\* Authorization, free space and the artifact directory.
Prepare ==
    /\ worker.pc = "prepare"
    /\ disk = "works"
    /\ files' = [files EXCEPT ![worker.task] = "partial"]
    /\ Goto("build", "none")
    /\ UNCHANGED <<streams, job, queue, closing, root, disk, faults>>

\* The builder, the row count, the second authorization and the rename.
Build ==
    /\ worker.pc = "build"
    /\ ~Stopped(worker.task)
    /\ files' = Renamed(worker.task)
    /\ Goto("publish", "none")
    /\ UNCHANGED <<streams, job, queue, closing, root, disk, faults>>

\* Any of it fails; a failed rename leaves the partial file.
Fail ==
    /\ worker.pc \in {"prepare", "build"}
    /\ Goto("settle", "failed")
    /\ UNCHANGED <<streams, job, files, queue, closing, root, disk, faults>>

Publishable_IfKept(i) == ~Closed /\ ~job[i].retired
Publishable(i) == ~Stopped(i) /\ ~job[i].retired

Publish ==
    /\ worker.pc = "publish"
    /\ IF Publishable(worker.task)
       THEN job' = [job EXCEPT ![worker.task].state = "ready"] /\ Goto("settle", "none")
       ELSE Goto("settle", "failed") /\ UNCHANGED job
    /\ UNCHANGED <<streams, files, queue, closing, root, disk, faults>>

\* What a settled run leaves of its task.
Settled_KeepsContext(j, code) ==
    [j EXCEPT !.cooled = FALSE, !.expired = FALSE,
              !.state = IF code = "failed" THEN "failed" ELSE @]
Settled(j, code) ==
    [j EXCEPT !.busy = FALSE, !.cooled = FALSE, !.expired = FALSE,
              !.state = IF code = "failed" THEN "failed" ELSE @]

\* The deferred end of run: the context is released in a critical section of
\* its own, after the one that published.
Settle ==
    LET i == worker.task
        j == Settled(job[i], worker.code) IN
    /\ worker.pc = "settle"
    /\ UNCHANGED streams
    /\ IF j.retired \/ Closed THEN Drop(i, j)
       ELSE /\ job' = [job EXCEPT ![i] = j]
            /\ files' = IF worker.code = "failed" THEN Wipe({i}) ELSE files
    /\ worker' = Rest
    /\ UNCHANGED <<queue, closing, root, disk, faults>>

WorkerStops ==
    /\ worker.pc = "rest" /\ Closed
    /\ worker' = [Rest EXCEPT !.pc = "done"]
    /\ UNCHANGED <<streams, job, files, queue, closing, root, disk, faults>>

(***************************************************************************)
(* Close, and the passing of time.                                         *)
(***************************************************************************)
BeginClose ==
    /\ ~Closed
    /\ closing' = "closed"
    /\ UNCHANGED <<streams, job, files, queue, worker, root, disk, faults>>

WorkerJoined == worker.pc = "done"

\* After the worker is joined; a later call of Close repeats it.
EndClose ==
    LET gone == Removed(job, Kept(job)) IN
    /\ Closed /\ WorkerJoined
    /\ job' = Forget([i \in Id |-> IF i \in Kept(job) THEN [job[i] EXCEPT !.retired = TRUE]
                                                        ELSE Gone], gone)
    /\ files' = Wipe(gone)
    /\ closing' = "swept"
    /\ RemoveRoot
    /\ UNCHANGED <<streams, queue, worker, disk, faults>>

Expire(i) ==
    /\ i \in Kept(job) /\ ~job[i].expired
    /\ job' = [job EXCEPT ![i].expired = TRUE, ![i].stopped = @ \/ job[i].busy]
    /\ UNCHANGED <<streams, files, queue, worker, closing, root, disk, faults>>

\* GenerateTimeout.
Timeout(i) ==
    /\ i \in Kept(job) /\ job[i].busy /\ ~job[i].stopped
    /\ job' = [job EXCEPT ![i].stopped = TRUE]
    /\ UNCHANGED <<streams, files, queue, worker, closing, root, disk, faults>>

\* RetryDelay has passed since the task finished.
Cool(i) ==
    /\ i \in Kept(job) /\ ~job[i].cooled
    /\ job' = [job EXCEPT ![i].cooled = TRUE]
    /\ UNCHANGED <<streams, files, queue, worker, closing, root, disk, faults>>

DiskFails ==
    /\ disk = "works" /\ faults < MaxFaults
    /\ disk' = "fails" /\ faults' = faults + 1
    /\ UNCHANGED <<streams, job, files, queue, worker, closing, root>>

DiskRecovers ==
    /\ disk = "fails"
    /\ disk' = "works"
    /\ UNCHANGED <<streams, job, files, queue, worker, closing, root, faults>>

WorkerStep == Take \/ Prepare \/ Build \/ Fail \/ Publish \/ Settle \/ WorkerStops

Next ==
    \/ \E g \in Group, f \in Filter : Submit(g, f)
    \/ \E i \in Id : Open(i) \/ CloseArtifact(i) \/ Cancel(i) \/ Expire(i) \/ Timeout(i) \/ Cool(i)
    \/ WorkerSweeps \/ WorkerStep
    \/ BeginClose \/ EndClose
    \/ DiskFails \/ DiskRecovers

Spec == Init /\ [][Next]_vars

(***************************************************************************)
(* Safety.                                                                 *)
(***************************************************************************)
Task ==
    [state : {"queued", "running", "ready", "failed", "canceled"}, group : Group,
     filter : Filter, busy : BOOLEAN, stopped : BOOLEAN, expired : BOOLEAN,
     retired : BOOLEAN, cooled : BOOLEAN]

TypeOK ==
    /\ job \in [Id -> Task \cup {Gone}]
    /\ streams \subseteq Id
    /\ files \in [Id -> {"none", "partial", "complete"}]
    /\ queue \in Seq(Id) /\ Len(queue) <= MaxJobs
    /\ worker \in [pc : {"rest", "prepare", "build", "publish", "settle", "done"},
                   task : Id \cup {"none"}, code : {"none", "failed"}]
    /\ closing \in {"open", "closed", "swept"}
    /\ root \in BOOLEAN
    /\ disk \in {"works", "fails"} /\ faults \in 0..MaxFaults

\* "One retained task per group" (Submit), and never more than MaxJobs of them,
\* though canceled ones wait for their reader or for the worker.
OneTaskPerGroup ==
    /\ \A h, i \in Kept(job) : job[h].group = job[i].group => h = i
    /\ Cardinality(Kept(job)) <= MaxJobs

\* "Expiry/cancellation cannot delete a file being streamed" (Artifact), and
\* neither can a replacing request nor Close.
StreamsKeepTheirFile ==
    \A i \in streams : i \in Kept(job) /\ files[i] = "complete" /\ root

\* "The worker owns partial files while running" (Cancel).
WorkerOwnsItsFiles ==
    /\ worker.pc = "build" => files[worker.task] = "partial" /\ root
    /\ worker.pc = "publish" => files[worker.task] = "complete" /\ root
    /\ worker.pc \in {"prepare", "build", "publish", "settle"} => worker.task \in Kept(job)

\* Nobody loses a file in use, neither a download nor the run (removeLocked).
FilesAreKept == StreamsKeepTheirFile /\ WorkerOwnsItsFiles

\* A task is offered for download only with its whole artifact, and a failed,
\* stopped or canceled one never is.
ReadyIsWhole ==
    \A i \in Kept(job) :
        job[i].state = "ready" => files[i] = "complete" /\ (job[i].busy => worker.code = "none")

\* No artifact outlives its registry entry, even when removals fail, and the
\* session directory goes last.
NothingOrphaned ==
    /\ \A i \in Id : files[i] # "none" => i \in Kept(job)
    /\ ~root => Kept(job) = {} /\ Closed /\ worker.pc \in {"rest", "done"}

\* Once the context of a run was stopped, it never publishes.
StoppedStays ==
    \A i \in Kept(job) : job[i].stopped /\ job[i].state = "running"
            => i \notin Kept(job') \/ job'[i].state # "ready"
StoppedNeverReady == [][StoppedStays]_vars

(***************************************************************************)
(* Progress: the worker runs, its ticker fires, builders return, downloads *)
(* end, and the disk recovers; expiry is only needed for what it removes.  *)
(***************************************************************************)
Fairness ==
    /\ WF_vars(WorkerStep) /\ WF_vars(Take) /\ SF_vars(WorkerSweeps)
    /\ WF_vars(closing = "closed" /\ EndClose)
    /\ WF_vars(DiskRecovers)
    /\ \A i \in Id : WF_vars(CloseArtifact(i))

FairSpec == Spec /\ Fairness

\* Every submitted task leaves the queue, finished, canceled or removed.
EveryTaskLeavesQueue == \A i \in Id : []<>(job[i].state # "queued" \/ Closed)

\* What was canceled or has expired is removed without any further call.
RetiredIsRemoved ==
    \A i \in Id : []<>(i \notin Kept(job) \/ ~job[i].retired \/ Closed)

\* Close ends with the session directory removed, by Close or by the last download,
\* unless a removal fails meanwhile (Close then reports it and may be called again).
CloseRemovesRoot == [](Closed => disk = "works") => (Closed ~> ~root)

\* Nothing waits for a further call to be removed: retired tasks go with a later sweep, the session
\* directory with Close or the last download (sweepLocked, Manager.Close, Artifact.Close).
RemovalsFinish == RetiredIsRemoved /\ CloseRemovesRoot
=============================================================================
