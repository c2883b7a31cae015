------------------------- MODULE ExportJobs_proofs -------------------------
(***************************************************************************)
(* Safety of the export manager for every set of tasks, groups and         *)
(* requests, every limit and any number of periods in which removals fail. *)
(***************************************************************************)
EXTENDS ExportJobs, FiniteSetTheorems, TLAPS

Running == worker.pc \in {"prepare", "build", "publish", "settle"}

\* The run has not published, and will not if it is settling.
Unpublished ==
    \/ worker.pc \in {"prepare", "build", "publish"}
    \/ worker.pc = "settle" /\ worker.code = "failed"

\* Only the task of the worker has a context.
BusyIsWorkers ==
    \A i \in Kept(job) : job[i].busy <=> (Running /\ worker.task = i)

\* Nobody downloads what the worker has not published.
UnpublishedIsUnread ==
    Unpublished => /\ job[worker.task].state \in {"running", "canceled"}
                   /\ worker.task \notin streams

\* A place in the channel stands for a task that was never started, or for one
\* that is gone; no task has two places.
QueueWaits ==
    \A k \in 1..Len(queue) : job[queue[k]] # Gone =>
        /\ job[queue[k]].state \in {"queued", "canceled"}
        /\ ~job[queue[k]].busy
        /\ queue[k] \notin streams
QueueDistinct ==
    \A k, l \in 1..Len(queue) : queue[k] = queue[l] => k = l

\* The inductive invariant.
Inv ==
    /\ TypeOK
    /\ StreamsKeepTheirFile /\ WorkerOwnsItsFiles /\ ReadyIsWhole /\ NothingOrphaned
    /\ BusyIsWorkers /\ UnpublishedIsUnread
    /\ QueueWaits /\ QueueDistinct

-----------------------------------------------------------------------------
(***************************************************************************)
(* Facts about the registry and the helpers.                               *)
(***************************************************************************)

\* A registered task is not the mark of an absent one.
LEMMA TaskIsKept == ASSUME NEW j \in Task PROVE j # Gone
  <1>1. j.state \in {"queued", "running", "ready", "failed", "canceled"}
    BY DEF Task
  <1>2. Gone.state = "gone"
    BY DEF Gone
  <1> QED BY <1>1, <1>2

LEMMA KeptIsTask ==
    ASSUME NEW js \in [Id -> Task \cup {Gone}], NEW i \in Kept(js)
    PROVE  js[i] \in Task
  BY DEF Kept

\* removeLocked leaves no file of what it removes and touches no other file.
LEMMA WipeEffect ==
    ASSUME TypeOK, NEW S \in SUBSET Id, \A i \in S : Erased(i)
    PROVE  /\ Wipe(S) \in [Id -> {"none", "partial", "complete"}]
           /\ \A i \in Id : Wipe(S)[i] = IF i \in S THEN "none" ELSE files[i]
  BY DEF Wipe, Erased, TypeOK

LEMMA WipeNothing == ASSUME TypeOK PROVE Wipe({}) = files
  BY DEF Wipe, TypeOK

(***************************************************************************)
(* Everything but the run of a task and the opening of a download: the     *)
(* tasks S are removed, the tasks A admitted, those that stay keep their   *)
(* context, and their state may only become canceled.                      *)
(***************************************************************************)
LEMMA RegistryStep ==
    ASSUME Inv,
           NEW S \in SUBSET Id, NEW A \in SUBSET Id,
           \A i \in S : Erased(i) /\ i \notin streams' /\ (job[i] # Gone => ~job[i].busy),
           job' \in [Id -> Task \cup {Gone}],
           \A i \in Id : job'[i] = Gone => i \in S \/ job[i] = Gone,
           \A i \in Id : job'[i] # Gone =>
               \/ /\ i \notin S /\ job[i] # Gone
                  /\ job'[i].busy = job[i].busy
                  /\ job'[i].state \in {job[i].state, "canceled"}
               \/ /\ i \in A /\ job[i] = Gone
                  /\ ~job'[i].busy /\ job'[i].state = "queued",
           \A i \in A : job[i] = Gone /\ job'[i] # Gone,
           files' = Wipe(S),
           streams' \subseteq streams,
           queue' \in Seq(Id), Len(queue') <= MaxJobs, QueueDistinct',
           \A k \in 1..Len(queue') :
               queue'[k] \in A \/ \E l \in 1..Len(queue) : queue'[k] = queue[l],
           \A i \in A : \A l \in 1..Len(queue) : queue[l] # i,
           worker' = worker,
           Closed => Closed' /\ A = {}, closing' \in {"open", "closed", "swept"},
           disk' \in {"works", "fails"}, faults' \in 0..MaxFaults,
           \/ root' = root
           \/ root' = FALSE /\ Closed' /\ Kept(job') = {}
    PROVE  Inv'
  <1> USE DEF Inv
  <1>1. /\ files' \in [Id -> {"none", "partial", "complete"}]
        /\ \A i \in Id : files'[i] = IF i \in S THEN "none" ELSE files[i]
    BY WipeEffect
  <1>2. TypeOK'
    BY <1>1 DEF TypeOK
  <1>3. \A i \in Id : i \in Kept(job') <=> job'[i] # Gone
    BY DEF Kept
  <1>4. \A i \in Id : i \in Kept(job) <=> job[i] # Gone
    BY DEF Kept
  <1>5. \A i \in streams' : i \in Kept(job') /\ i \notin S /\ i \in Id /\ i \in streams /\ job[i] # Gone
    BY <1>3, <1>4 DEF StreamsKeepTheirFile, TypeOK
  <1>6. StreamsKeepTheirFile'
    BY <1>1, <1>5 DEF StreamsKeepTheirFile
  <1>7. ASSUME Running
        PROVE  /\ worker.task \in Id /\ worker.task \in Kept(job') /\ job[worker.task] # Gone
               /\ worker.task \notin S /\ job[worker.task].busy
    <2>1. worker.task \in Kept(job)
      BY <1>7 DEF WorkerOwnsItsFiles, Running
    <2>2. worker.task \in Id
      BY <2>1 DEF Kept
    <2>3. job[worker.task].busy
      BY <1>7, <2>1 DEF BusyIsWorkers
    <2> QED BY <2>1, <2>2, <2>3, <1>3, <1>4
  <1>8. WorkerOwnsItsFiles'
    BY <1>1, <1>7 DEF WorkerOwnsItsFiles, Running
  <1>9. ReadyIsWhole'
    <2> SUFFICES ASSUME NEW i \in Kept(job'), job'[i].state = "ready"
                 PROVE  files'[i] = "complete" /\ (job'[i].busy => worker.code = "none")
      BY DEF ReadyIsWhole
    <2>1. i \in Id /\ job'[i] # Gone
      BY DEF Kept
    <2>2. i \notin S /\ i \in Kept(job) /\ job[i].state = "ready" /\ job'[i].busy = job[i].busy
      BY <2>1, <1>4
    <2>3. job[i].busy => Running
      BY <2>2 DEF BusyIsWorkers
    <2> QED BY <2>1, <2>2, <2>3, <1>1, <1>7 DEF ReadyIsWhole
  <1>10. NothingOrphaned'
    <2>1. \A i \in Id : files'[i] # "none" => i \in Kept(job')
      BY <1>1, <1>3, <1>4 DEF NothingOrphaned
    <2>2. Closed /\ Kept(job) = {} => Kept(job') = {}
      BY <1>3, <1>4 DEF Kept
    <2>3. Kept(job') = {} => worker.pc \in {"rest", "done"}
      BY <1>7 DEF Running, TypeOK
    <2> QED BY <2>1, <2>2, <2>3 DEF NothingOrphaned
  <1>11. BusyIsWorkers'
    <2> SUFFICES ASSUME NEW i \in Kept(job')
                 PROVE  job'[i].busy <=> (Running /\ worker.task = i)
      BY <1>7 DEF BusyIsWorkers, Running
    <2>1. i \in Id /\ job'[i] # Gone
      BY DEF Kept
    <2>2. CASE job[i] # Gone
      BY <2>1, <2>2, <1>4 DEF BusyIsWorkers
    <2>3. CASE job[i] = Gone
      BY <2>1, <2>3, <1>7
    <2> QED BY <2>2, <2>3
  <1>12. UnpublishedIsUnread'
    <2>1. Unpublished => Running
      BY DEF Unpublished, Running
    <2> QED BY <2>1, <1>3, <1>7 DEF UnpublishedIsUnread, Unpublished
  <1>13. QueueWaits'
    <2> SUFFICES ASSUME NEW k \in 1..Len(queue'), job'[queue'[k]] # Gone
                 PROVE  /\ job'[queue'[k]].state \in {"queued", "canceled"}
                        /\ ~job'[queue'[k]].busy
                        /\ queue'[k] \notin streams'
      BY DEF QueueWaits
    <2>1. queue'[k] \in Id
      OBVIOUS
    <2>2. CASE queue'[k] \in A
      BY <2>1, <2>2, <1>4, <1>5
    <2>3. ASSUME NEW l \in 1..Len(queue), queue'[k] = queue[l]
          PROVE  /\ job'[queue'[k]].state \in {"queued", "canceled"}
                 /\ ~job'[queue'[k]].busy
                 /\ queue'[k] \notin streams'
      <3>1. queue[l] \notin A
        OBVIOUS
      <3> QED BY <2>1, <2>3, <3>1, <1>5 DEF QueueWaits
    <2> QED BY <2>2, <2>3
  <1> QED BY <1>2, <1>6, <1>8, <1>9, <1>10, <1>11, <1>12, <1>13

\* The same where no task is admitted and the worker and the channel stay as they are.
LEMMA RetiringStep ==
    ASSUME Inv,
           NEW S \in SUBSET Id,
           \A i \in S : Erased(i) /\ i \notin streams' /\ (job[i] # Gone => ~job[i].busy),
           job' \in [Id -> Task \cup {Gone}],
           \A i \in Id : job'[i] = Gone => i \in S \/ job[i] = Gone,
           \A i \in Id : job'[i] # Gone =>
               /\ i \notin S /\ job[i] # Gone
               /\ job'[i].busy = job[i].busy
               /\ job'[i].state \in {job[i].state, "canceled"},
           files' = Wipe(S),
           streams' \subseteq streams,
           UNCHANGED <<queue, worker>>,
           Closed => Closed', closing' \in {"open", "closed", "swept"},
           disk' \in {"works", "fails"}, faults' \in 0..MaxFaults,
           \/ root' = root
           \/ root' = FALSE /\ Closed' /\ Kept(job') = {}
    PROVE  Inv'
  <1>1. ASSUME NEW A \in SUBSET Id, A = {}
        PROVE  Inv'
    <2>1. /\ queue' \in Seq(Id) /\ Len(queue') <= MaxJobs /\ QueueDistinct'
          /\ \A k \in 1..Len(queue') : \E l \in 1..Len(queue) : queue'[k] = queue[l]
      BY DEF Inv, TypeOK, QueueDistinct
    <2>2. \A i \in Id : job'[i] # Gone =>
               \/ /\ i \notin S /\ job[i] # Gone
                  /\ job'[i].busy = job[i].busy
                  /\ job'[i].state \in {job[i].state, "canceled"}
               \/ /\ i \in A /\ job[i] = Gone
                  /\ ~job'[i].busy /\ job'[i].state = "queued"
      BY <1>1
    <2> QED BY <1>1, <2>1, <2>2, RegistryStep
  <1> QED BY <1>1

-----------------------------------------------------------------------------
(***************************************************************************)
(* The steps of the callers.                                               *)
(***************************************************************************)

\* A sweep removes idle tasks nobody reads, and only retires the others.
LEMMA SweepEffect ==
    ASSUME Inv
    PROVE  /\ SweptAway \in SUBSET Id
           /\ Swept \in [Id -> Task \cup {Gone}]
           /\ \A i \in SweptAway : /\ Erased(i) /\ i \notin streams
                                   /\ job[i] # Gone /\ ~job[i].busy
           /\ \A i \in Id : Swept[i] = Gone <=> i \in SweptAway \/ job[i] = Gone
           /\ \A i \in Id : Swept[i] # Gone => /\ Swept[i].busy = job[i].busy
                                               /\ Swept[i].state = job[i].state
                                               /\ Swept[i].group = job[i].group
  <1> USE DEF Inv
  <1>1. Due(job) \subseteq Kept(job) /\ Kept(job) \subseteq Id
    BY DEF Due, Kept
  <1>2. SweptAway \subseteq Due(job)
    BY DEF SweptAway, Removed
  <1>3. \A i \in SweptAway : Erased(i) /\ i \notin streams /\ job[i] # Gone /\ ~job[i].busy
    BY <1>1, <1>2 DEF SweptAway, Removed, Removable, Kept
  <1>4. ASSUME NEW i \in Id
        PROVE  /\ Retired(job, Due(job))[i] \in Task \cup {Gone}
               /\ Retired(job, Due(job))[i] = Gone <=> job[i] = Gone
               /\ job[i] # Gone => /\ Retired(job, Due(job))[i].busy = job[i].busy
                                   /\ Retired(job, Due(job))[i].state = job[i].state
                                   /\ Retired(job, Due(job))[i].group = job[i].group
    <2>1. CASE i \in Due(job)
      <3>1. job[i] \in Task /\ job[i] # Gone
        BY <1>1, <2>1, KeptIsTask DEF TypeOK, Kept
      <3>2. Retired(job, Due(job))[i] = [job[i] EXCEPT !.retired = TRUE,
                                                       !.stopped = @ \/ job[i].busy]
        BY <2>1 DEF Retired
      <3>3. Retired(job, Due(job))[i] \in Task
        BY <3>1, <3>2 DEF Task
      <3>4. Retired(job, Due(job))[i] # Gone
        BY <3>3, TaskIsKept
      <3>5. /\ Retired(job, Due(job))[i].busy = job[i].busy
            /\ Retired(job, Due(job))[i].state = job[i].state
            /\ Retired(job, Due(job))[i].group = job[i].group
        BY <3>1, <3>2 DEF Task
      <3> QED BY <3>1, <3>3, <3>4, <3>5
    <2>2. CASE i \notin Due(job)
      BY <2>2 DEF Retired, TypeOK
    <2> QED BY <2>1, <2>2
  <1>5. \A i \in Id : Swept[i] = IF i \in SweptAway THEN Gone ELSE Retired(job, Due(job))[i]
    BY DEF Swept, Forget
  <1>6. Swept \in [Id -> Task \cup {Gone}]
    BY <1>4 DEF Swept, Forget
  <1> QED BY <1>1, <1>2, <1>3, <1>4, <1>5, <1>6

LEMMA SubmitStep ==
    ASSUME Inv, NEW g \in Group, NEW f \in Filter, Submit(g, f)
    PROVE  Inv'
  <1> DEFINE mine == {i \in Kept(Swept) : Swept[i].group = g}
             replaced == {i \in mine : Removable(i \in streams, Swept[i]) /\ Erased(i)}
             left == Forget(Swept, mine)
             S == SweptAway \cup mine
  <1>1. /\ ~Closed
        /\ UNCHANGED <<streams, worker, closing, root, disk, faults>>
        /\ \/ job' = Swept /\ files' = Wipe(SweptAway) /\ UNCHANGED queue
           \/ /\ \A i \in mine : i \in replaced
              /\ job' = left /\ files' = Wipe(S) /\ UNCHANGED queue
           \/ /\ \A i \in mine : i \in replaced
              /\ ~Full(left)
              /\ \E i \in Id \ Kept(job) :
                    /\ ~Contains(queue, i)
                    /\ job' = [left EXCEPT ![i] = Queued(g, f)]
                    /\ queue' = Append(queue, i)
              /\ files' = Wipe(S)
    BY DEF Submit
  <1>2. /\ queue \in Seq(Id) /\ Len(queue) <= MaxJobs /\ QueueDistinct
        /\ closing \in {"open", "closed", "swept"}
        /\ disk \in {"works", "fails"} /\ faults \in 0..MaxFaults
    BY DEF Inv, TypeOK
  <1>3. /\ SweptAway \in SUBSET Id
        /\ Swept \in [Id -> Task \cup {Gone}]
        /\ \A i \in SweptAway : /\ Erased(i) /\ i \notin streams
                                /\ job[i] # Gone /\ ~job[i].busy
        /\ \A i \in Id : Swept[i] = Gone <=> i \in SweptAway \/ job[i] = Gone
        /\ \A i \in Id : Swept[i] # Gone => /\ Swept[i].busy = job[i].busy
                                            /\ Swept[i].state = job[i].state
    BY SweepEffect
  <1>4. CASE job' = Swept /\ files' = Wipe(SweptAway) /\ UNCHANGED queue
    BY <1>1, <1>2, <1>3, <1>4, RetiringStep DEF Closed
  <1>5. ASSUME \A i \in mine : i \in replaced
        PROVE  /\ S \in SUBSET Id
               /\ left \in [Id -> Task \cup {Gone}]
               /\ \A i \in S : /\ Erased(i) /\ i \notin streams
                               /\ job[i] # Gone /\ ~job[i].busy
               /\ \A i \in Id : left[i] = Gone <=> i \in S \/ job[i] = Gone
               /\ \A i \in Id : left[i] # Gone => /\ left[i].busy = job[i].busy
                                                  /\ left[i].state = job[i].state
    <2>1. \A i \in mine : i \in Id /\ Swept[i] # Gone
      BY DEF Kept
    <2>2. \A i \in mine : i \notin streams /\ ~Swept[i].busy /\ Erased(i)
      BY <1>5 DEF Removable
    <2>3. \A i \in Id : left[i] = IF i \in mine THEN Gone ELSE Swept[i]
      BY DEF Forget
    <2>4. left \in [Id -> Task \cup {Gone}]
      BY <1>3 DEF Forget
    <2>5. \A i \in mine : job[i] # Gone /\ ~job[i].busy
      BY <2>1, <2>2, <1>3
    <2> HIDE DEF mine, replaced, left
    <2> QED BY <2>1, <2>2, <2>3, <2>4, <2>5, <1>3
  <1>6. CASE /\ \A i \in mine : i \in replaced
             /\ job' = left /\ files' = Wipe(S) /\ UNCHANGED queue
    <2> HIDE DEF mine, replaced, left, S
    <2> QED BY <1>1, <1>2, <1>5, <1>6, RetiringStep DEF Closed
  <1>7. ASSUME \A i \in mine : i \in replaced,
               ~Full(left),
               NEW i \in Id \ Kept(job),
               ~Contains(queue, i),
               job' = [left EXCEPT ![i] = Queued(g, f)],
               queue' = Append(queue, i),
               files' = Wipe(S)
        PROVE  Inv'
    <2>1. job[i] = Gone
      BY DEF Kept
    <2>2. \A l \in 1..Len(queue) : queue[l] # i
      BY <1>7 DEF Contains
    <2>3. Queued(g, f) \in Task
      BY DEF Queued, Task
    <2>4. Queued(g, f).state = "queued" /\ ~Queued(g, f).busy /\ Queued(g, f) # Gone
      BY <2>3, TaskIsKept DEF Queued
    <2> HIDE DEF mine, replaced, left, S
    <2>5. \A h \in Id : job'[h] = IF h = i THEN Queued(g, f) ELSE left[h]
      BY <1>5, <1>7
    <2>6. job' \in [Id -> Task \cup {Gone}]
      BY <1>5, <1>7, <2>3
    <2>7. /\ queue' \in Seq(Id) /\ Len(queue') = Len(queue) + 1
          /\ \A k \in 1..Len(queue) : queue'[k] = queue[k]
          /\ queue'[Len(queue) + 1] = i
      BY <1>2, <1>7
    <2>8. Len(queue') <= MaxJobs
      <3>1. ~(Len(queue) >= MaxJobs)
        BY <1>7 DEF Full
      <3> QED BY <3>1, <2>7, <1>2, LimitAssumption
    <2>9. QueueDistinct'
      BY <1>2, <2>2, <2>7 DEF QueueDistinct
    <2>10. ASSUME NEW A \in SUBSET Id, A = {i}
           PROVE  Inv'
      <3>1. \A k \in 1..Len(queue') :
                queue'[k] \in A \/ \E l \in 1..Len(queue) : queue'[k] = queue[l]
        BY <1>2, <2>7, <2>10
      <3>2. \A h \in Id : job'[h] # Gone =>
               \/ /\ h \notin S /\ job[h] # Gone
                  /\ job'[h].busy = job[h].busy
                  /\ job'[h].state \in {job[h].state, "canceled"}
               \/ /\ h \in A /\ job[h] = Gone
                  /\ ~job'[h].busy /\ job'[h].state = "queued"
        BY <1>5, <1>7, <2>1, <2>4, <2>5, <2>10
      <3>3. \A h \in Id : job'[h] = Gone => h \in S \/ job[h] = Gone
        BY <1>5, <1>7, <2>4, <2>5
      <3>4. \A h \in A : job[h] = Gone /\ job'[h] # Gone
        BY <2>1, <2>4, <2>5, <2>10
      <3>5. \A h \in S : Erased(h) /\ h \notin streams' /\ (job[h] # Gone => ~job[h].busy)
        BY <1>1, <1>5, <1>7
      <3>6. Closed => Closed' /\ A = {}
        BY <1>1
      <3>7. S \in SUBSET Id
        BY <1>5, <1>7
      <3>8. \A h \in A : \A l \in 1..Len(queue) : queue[l] # h
        BY <2>2, <2>10
      <3>9. /\ streams' \subseteq streams /\ files' = Wipe(S)
            /\ worker' = worker
            /\ root' = root \/ (root' = FALSE /\ Closed' /\ Kept(job') = {})
        BY <1>1, <1>7
      <3>10. /\ closing' \in {"open", "closed", "swept"}
             /\ disk' \in {"works", "fails"} /\ faults' \in 0..MaxFaults
        BY <1>1, <1>2
      <3>11. queue' \in Seq(Id)
        BY <2>7
      <3> QED BY <2>6, <3>11, <2>8, <2>9, <3>8, <3>9, <3>10,
                 <3>1, <3>2, <3>3, <3>4, <3>5, <3>6, <3>7, RegistryStep, Zenon
    <2> QED BY <2>10
  <1> QED BY <1>1, <1>4, <1>6, <1>7

LEMMA SweepStep == ASSUME Inv, WorkerSweeps PROVE Inv'
  <1>1. /\ job' = Swept /\ files' = Wipe(SweptAway)
        /\ UNCHANGED <<streams, queue, worker, closing, root, disk, faults>>
    BY DEF WorkerSweeps
  <1>2. /\ closing \in {"open", "closed", "swept"}
        /\ disk \in {"works", "fails"} /\ faults \in 0..MaxFaults
    BY DEF Inv, TypeOK
  <1> QED BY <1>1, <1>2, SweepEffect, RetiringStep DEF Closed

\* One task is dropped, or stays as j: Cancel and Artifact.Close.
LEMMA DropStep ==
    ASSUME Inv, NEW i \in Id, NEW j \in Task,
           job[i] # Gone,
           j.busy = job[i].busy, j.state \in {job[i].state, "canceled"},
           Drop(i, j) \/ (job' = job /\ files' = files),
           streams' \subseteq streams,
           UNCHANGED <<queue, worker, closing, disk, faults>>,
           \/ root' = root
           \/ root' = FALSE /\ Closed' /\ Kept(job') = {}
    PROVE  Inv'
  <1>1. /\ job \in [Id -> Task \cup {Gone}]
        /\ closing \in {"open", "closed", "swept"}
        /\ disk \in {"works", "fails"} /\ faults \in 0..MaxFaults
    BY DEF Inv, TypeOK
  <1>2. Wipe({}) = files
    BY WipeNothing DEF Inv
  <1>3. j # Gone
    BY TaskIsKept
  <1>4. CASE /\ Removable(i \in streams', j) /\ Erased(i)
             /\ job' = [job EXCEPT ![i] = Gone] /\ files' = Wipe({i})
    <2>1. i \notin streams' /\ ~job[i].busy /\ Erased(i)
      BY <1>4 DEF Removable
    <2>2. job' \in [Id -> Task \cup {Gone}]
      BY <1>1, <1>4
    <2>3. \A h \in Id : job'[h] = IF h = i THEN Gone ELSE job[h]
      BY <1>1, <1>4
    <2>4. ASSUME NEW S \in SUBSET Id, S = {i}
          PROVE  Inv'
      <3>1. files' = Wipe(S)
        BY <1>4, <2>4
      <3> QED BY <1>1, <2>1, <2>2, <2>3, <2>4, <3>1, RetiringStep DEF Closed
    <2> QED BY <2>4
  <1>5. CASE job' \in {job, [job EXCEPT ![i] = j]} /\ files' = files
    <2>1. job' \in [Id -> Task \cup {Gone}]
      BY <1>1, <1>5
    <2>2. \A h \in Id : job'[h] = job[h] \/ (h = i /\ job'[h] = j)
      BY <1>1, <1>5
    <2>3. ASSUME NEW S \in SUBSET Id, S = {}
          PROVE  Inv'
      <3>1. files' = Wipe(S)
        BY <1>2, <1>5, <2>3
      <3> QED BY <1>1, <1>3, <2>1, <2>2, <2>3, <3>1, RetiringStep DEF Closed
    <2> QED BY <2>3
  <1> QED BY <1>4, <1>5 DEF Drop

LEMMA CloseArtifactStep == ASSUME Inv, NEW i \in Id, CloseArtifact(i) PROVE Inv'
  <1>1. job[i] # Gone
    BY DEF CloseArtifact, Inv, StreamsKeepTheirFile, Kept
  <1>2. job[i] \in Task
    BY <1>1 DEF Inv, TypeOK
  <1>3. streams' \subseteq streams
    BY DEF CloseArtifact
  <1>4. Drop(i, job[i]) \/ (job' = job /\ files' = files)
    BY DEF CloseArtifact
  <1>5. root' = root \/ (root' = FALSE /\ Closed' /\ Kept(job') = {})
    BY DEF CloseArtifact, RemoveRoot, Closed
  <1>6. UNCHANGED <<queue, worker, closing, disk, faults>>
    BY DEF CloseArtifact
  <1> QED BY <1>1, <1>2, <1>3, <1>4, <1>5, <1>6, DropStep

LEMMA CancelStep == ASSUME Inv, NEW i \in Id, Cancel(i) PROVE Inv'
  <1> DEFINE j == [job[i] EXCEPT !.state = "canceled", !.retired = TRUE, !.cooled = FALSE,
                                 !.stopped = @ \/ job[i].busy]
  <1>1. job[i] # Gone
    BY DEF Cancel, Found, Kept
  <1>2. job[i] \in Task
    BY <1>1 DEF Inv, TypeOK
  <1>3. j \in Task /\ j.busy = job[i].busy /\ j.state = "canceled"
    BY <1>2 DEF Task
  <1>4. Drop(i, j) /\ streams' \subseteq streams /\ root' = root
        /\ UNCHANGED <<queue, worker, closing, disk, faults>>
    BY DEF Cancel
  <1> HIDE DEF j
  <1> QED BY <1>1, <1>3, <1>4, DropStep

\* Expire, Timeout and Cool change one flag of a task.
LEMMA FlagStep ==
    ASSUME Inv, NEW i \in Id, NEW j \in Task,
           job[i] # Gone, j.busy = job[i].busy, j.state = job[i].state,
           job' = [job EXCEPT ![i] = j],
           UNCHANGED <<streams, files, queue, worker, closing, root, disk, faults>>
    PROVE  Inv'
  <1>1. /\ job \in [Id -> Task \cup {Gone}]
        /\ closing \in {"open", "closed", "swept"}
        /\ disk \in {"works", "fails"} /\ faults \in 0..MaxFaults
    BY DEF Inv, TypeOK
  <1>2. Wipe({}) = files
    BY WipeNothing DEF Inv
  <1>3. j # Gone
    BY TaskIsKept
  <1>4. job' \in [Id -> Task \cup {Gone}]
    BY <1>1
  <1>5. \A h \in Id : job'[h] = IF h = i THEN j ELSE job[h]
    BY <1>1
  <1>6. ASSUME NEW S \in SUBSET Id, S = {}
        PROVE  Inv'
    <2>1. files' = Wipe(S)
      BY <1>2, <1>6
    <2> QED BY <1>1, <1>3, <1>4, <1>5, <1>6, <2>1, RetiringStep DEF Closed
  <1>7. {} \in SUBSET Id
    OBVIOUS
  <1> QED BY <1>6, <1>7, Zenon

LEMMA TimeStep ==
    ASSUME Inv, NEW i \in Id, Expire(i) \/ Timeout(i) \/ Cool(i)
    PROVE  Inv'
  <1>1. job[i] # Gone
    BY DEF Expire, Timeout, Cool, Kept
  <1>2. job[i] \in Task
    BY <1>1 DEF Inv, TypeOK
  <1>3. UNCHANGED <<streams, files, queue, worker, closing, root, disk, faults>>
    BY DEF Expire, Timeout, Cool
  <1>4. CASE Expire(i)
    <2> DEFINE j == [job[i] EXCEPT !.expired = TRUE, !.stopped = @ \/ job[i].busy]
    <2>1. j \in Task /\ j.busy = job[i].busy /\ j.state = job[i].state
      BY <1>2 DEF Task
    <2>2. job' = [job EXCEPT ![i] = j]
      <3>1. job' = [job EXCEPT ![i].expired = TRUE, ![i].stopped = @ \/ job[i].busy]
        BY <1>4 DEF Expire
      <3>2. job \in [Id -> Task \cup {Gone}]
        BY DEF Inv, TypeOK
      <3>3. \A h \in Id : job'[h] = IF h = i THEN j ELSE job[h]
        BY <1>2, <3>1, <3>2 DEF Task
      <3>4. DOMAIN job' = Id /\ job' = [h \in Id |-> job'[h]]
        BY <3>1, <3>2
      <3> HIDE DEF j
      <3>5. [job EXCEPT ![i] = j] = [h \in Id |-> IF h = i THEN j ELSE job[h]]
        BY <3>2
      <3> QED BY <3>3, <3>4, <3>5
    <2> HIDE DEF j
    <2> QED BY <1>1, <1>3, <2>1, <2>2, FlagStep
  <1>5. CASE Timeout(i)
    <2> DEFINE j == [job[i] EXCEPT !.stopped = TRUE]
    <2>1. j \in Task /\ j.busy = job[i].busy /\ j.state = job[i].state
      BY <1>2 DEF Task
    <2>2. job' = [job EXCEPT ![i] = j]
      BY <1>5 DEF Timeout
    <2> HIDE DEF j
    <2> QED BY <1>1, <1>3, <2>1, <2>2, FlagStep
  <1>6. CASE Cool(i)
    <2> DEFINE j == [job[i] EXCEPT !.cooled = TRUE]
    <2>1. j \in Task /\ j.busy = job[i].busy /\ j.state = job[i].state
      BY <1>2 DEF Task
    <2>2. job' = [job EXCEPT ![i] = j]
      BY <1>6 DEF Cool
    <2> HIDE DEF j
    <2> QED BY <1>1, <1>3, <2>1, <2>2, FlagStep
  <1> QED BY <1>4, <1>5, <1>6

\* The begin of Close and the state of the disk.
LEMMA EnvironmentStep ==
    ASSUME Inv, BeginClose \/ DiskFails \/ DiskRecovers
    PROVE  Inv'
  <1>1. /\ job \in [Id -> Task \cup {Gone}] /\ streams \subseteq Id
        /\ closing \in {"open", "closed", "swept"}
        /\ disk \in {"works", "fails"} /\ faults \in 0..MaxFaults
    BY DEF Inv, TypeOK
  <1>2. UNCHANGED <<job, files, streams, queue, worker, root>>
    BY DEF BeginClose, DiskFails, DiskRecovers
  <1>3. closing' \in {"open", "closed", "swept"} /\ (Closed => Closed')
    BY <1>1 DEF BeginClose, DiskFails, DiskRecovers, Closed
  <1>4. disk' \in {"works", "fails"} /\ faults' \in 0..MaxFaults
    BY <1>1, LimitAssumption DEF BeginClose, DiskFails, DiskRecovers
  <1>5. Wipe({}) = files
    BY WipeNothing DEF Inv
  <1>6. ASSUME NEW S \in SUBSET Id, S = {}
        PROVE  Inv'
    BY <1>1, <1>2, <1>3, <1>4, <1>5, <1>6, RetiringStep
  <1>7. {} \in SUBSET Id
    OBVIOUS
  <1> QED BY <1>6, <1>7, Zenon

LEMMA EndCloseStep == ASSUME Inv, EndClose PROVE Inv'
  <1> DEFINE S == Removed(job, Kept(job))
  <1>1. /\ job \in [Id -> Task \cup {Gone}]
        /\ disk \in {"works", "fails"} /\ faults \in 0..MaxFaults
    BY DEF Inv, TypeOK
  <1>2. /\ S \in SUBSET Id
        /\ \A i \in S : Erased(i) /\ i \notin streams /\ ~job[i].busy
    BY DEF Removed, Removable, Kept
  <1>3. /\ Closed /\ closing' = "swept" /\ files' = Wipe(S)
        /\ UNCHANGED <<streams, queue, worker, disk, faults>>
        /\ job' = Forget([i \in Id |-> IF i \in Kept(job) THEN [job[i] EXCEPT !.retired = TRUE]
                                                          ELSE Gone], S)
    BY DEF EndClose
  <1>4. root' = root \/ (root' = FALSE /\ Closed' /\ Kept(job') = {})
    BY DEF EndClose, RemoveRoot, Closed
  <1> HIDE DEF S
  <1>5. \A i \in Id : job'[i] = IF i \in S \/ job[i] = Gone THEN Gone
                                ELSE [job[i] EXCEPT !.retired = TRUE]
    BY <1>3 DEF Forget, Kept
  <1>6. \A i \in Id : job[i] # Gone =>
            /\ [job[i] EXCEPT !.retired = TRUE] \in Task
            /\ [job[i] EXCEPT !.retired = TRUE].busy = job[i].busy
            /\ [job[i] EXCEPT !.retired = TRUE].state = job[i].state
    BY <1>1 DEF Task
  <1>7. job' = [i \in Id |-> job'[i]]
    BY <1>3 DEF Forget
  <1>8. job' \in [Id -> Task \cup {Gone}]
    BY <1>5, <1>6, <1>7
  <1>9. \A i \in Id : job'[i] = Gone => i \in S \/ job[i] = Gone
    BY <1>5, <1>6, TaskIsKept
  <1>10. \A i \in Id : job'[i] # Gone =>
            /\ i \notin S /\ job[i] # Gone
            /\ job'[i].busy = job[i].busy
            /\ job'[i].state \in {job[i].state, "canceled"}
    BY <1>5, <1>6
  <1>11. \A i \in S : Erased(i) /\ i \notin streams' /\ (job[i] # Gone => ~job[i].busy)
    BY <1>2, <1>3
  <1>12. /\ files' = Wipe(S) /\ streams' \subseteq streams
         /\ UNCHANGED <<queue, worker>>
         /\ (Closed => Closed') /\ closing' \in {"open", "closed", "swept"}
         /\ disk' \in {"works", "fails"} /\ faults' \in 0..MaxFaults
    BY <1>1, <1>3 DEF Closed
  <1> QED BY <1>2, <1>4, <1>8, <1>9, <1>10, <1>11, <1>12, RetiringStep

\* A download is opened for a published task only.
LEMMA OpenStep == ASSUME Inv, NEW i \in Id, Open(i) PROVE Inv'
  <1> USE DEF Inv
  <1>1. /\ ~Closed /\ i \in Kept(job) /\ job[i].state = "ready" /\ files[i] = "complete"
        /\ streams' = streams \cup {i}
        /\ UNCHANGED <<job, files, queue, worker, closing, root, disk, faults>>
    BY DEF Open, Found
  <1>2. TypeOK'
    BY <1>1 DEF TypeOK
  <1>3. root
    BY <1>1 DEF NothingOrphaned, TypeOK
  <1>4. StreamsKeepTheirFile'
    BY <1>1, <1>3 DEF StreamsKeepTheirFile, Kept
  <1>5. WorkerOwnsItsFiles' /\ ReadyIsWhole' /\ NothingOrphaned' /\ BusyIsWorkers'
    BY <1>1 DEF WorkerOwnsItsFiles, ReadyIsWhole, NothingOrphaned, BusyIsWorkers, Running,
                Kept, Closed
  <1>6. UnpublishedIsUnread'
    BY <1>1 DEF UnpublishedIsUnread, Unpublished
  <1>7. job[i] # Gone
    BY <1>1 DEF Kept
  <1>8. QueueWaits' /\ QueueDistinct'
    BY <1>1, <1>7 DEF QueueWaits, QueueDistinct
  <1> QED BY <1>2, <1>4, <1>5, <1>6, <1>8

-----------------------------------------------------------------------------
(***************************************************************************)
(* The steps of the worker.                                                *)
(***************************************************************************)

\* What the invariant says of the task the worker runs.
LEMMA RunningTask ==
    ASSUME Inv, Running
    PROVE  /\ worker.task \in Id /\ worker.task \in Kept(job)
           /\ job[worker.task] \in Task /\ job[worker.task].busy
           /\ \A k \in 1..Len(queue) : queue[k] # worker.task
           /\ root
  <1> USE DEF Inv
  <1>1. worker.task \in Kept(job)
    BY DEF WorkerOwnsItsFiles, Running
  <1>2. worker.task \in Id /\ job[worker.task] # Gone
    BY <1>1 DEF Kept
  <1>3. job[worker.task] \in Task
    BY <1>2 DEF TypeOK
  <1>4. job[worker.task].busy
    BY <1>1 DEF BusyIsWorkers
  <1>5. \A k \in 1..Len(queue) : queue[k] # worker.task
    BY <1>2, <1>4 DEF QueueWaits
  <1>6. root
    BY DEF NothingOrphaned, Running, TypeOK
  <1> QED BY <1>1, <1>2, <1>3, <1>4, <1>5, <1>6

\* A step within a run sets the state of its task and the files of its task only.
LEMMA RunStep ==
    ASSUME Inv, Running,
           NEW s \in {"queued", "running", "ready", "failed", "canceled"},
           NEW v \in {"none", "partial", "complete"},
           NEW pc \in {"build", "publish", "settle"}, NEW code \in {"none", "failed"},
           \A i \in Id : i # worker.task => job'[i] = job[i],
           job'[worker.task] \in Task,
           job'[worker.task].busy, job'[worker.task].state = s,
           job' \in [Id -> Task \cup {Gone}],
           files' = [files EXCEPT ![worker.task] = v],
           worker'.pc = pc, worker'.task = worker.task, worker'.code = code,
           worker' \in [pc : {"rest", "prepare", "build", "publish", "settle", "done"},
                        task : Id \cup {"none"}, code : {"none", "failed"}],
           UNCHANGED <<streams, queue, closing, root, disk, faults>>,
           worker.task \in streams => v = "complete",
           pc = "build" => v = "partial",
           pc = "publish" => v = "complete",
           s = "ready" => v = "complete" /\ code = "none",
           pc # "settle" \/ code = "failed" =>
               s \in {"running", "canceled"} /\ worker.task \notin streams
    PROVE  Inv'
  <1> USE DEF Inv
  <1> DEFINE t == worker.task
  <1>1. /\ t \in Id /\ t \in Kept(job) /\ job[t].busy /\ root
        /\ \A k \in 1..Len(queue) : queue[k] # t
    BY RunningTask
  <1>2. job'[t] # Gone
    BY TaskIsKept
  <1>3. \A i \in Id : i \in Kept(job') <=> i \in Kept(job)
    BY <1>1, <1>2 DEF Kept
  <1>4. \A i \in Id : files'[i] = IF i = t THEN v ELSE files[i]
    BY <1>1 DEF TypeOK
  <1>5. \A i \in Kept(job) : i # t => ~job[i].busy
    BY DEF BusyIsWorkers
  <1>6. Running'
    BY DEF Running
  <1>7. TypeOK'
    BY <1>1, <1>4 DEF TypeOK
  <1> HIDE DEF t
  <1>8. StreamsKeepTheirFile'
    <2> SUFFICES ASSUME NEW i \in streams
                 PROVE  i \in Kept(job') /\ files'[i] = "complete" /\ root
      BY DEF StreamsKeepTheirFile
    <2>1. i \in Id /\ i \in Kept(job) /\ files[i] = "complete"
      BY DEF StreamsKeepTheirFile, TypeOK
    <2> QED BY <2>1, <1>1, <1>3, <1>4 DEF t
  <1>9. WorkerOwnsItsFiles'
    BY <1>1, <1>3, <1>4 DEF WorkerOwnsItsFiles, t
  <1>10. ReadyIsWhole'
    <2> SUFFICES ASSUME NEW i \in Kept(job'), job'[i].state = "ready"
                 PROVE  files'[i] = "complete" /\ (job'[i].busy => worker'.code = "none")
      BY DEF ReadyIsWhole
    <2>1. i \in Id /\ i \in Kept(job)
      BY <1>3 DEF Kept
    <2>2. CASE i = t
      BY <2>2, <1>1, <1>4 DEF t
    <2>3. CASE i # t
      BY <2>1, <2>3, <1>4, <1>5 DEF ReadyIsWhole, t
    <2> QED BY <2>2, <2>3
  <1>11. NothingOrphaned'
    BY <1>1, <1>3, <1>4 DEF NothingOrphaned
  <1>12. BusyIsWorkers'
    <2> SUFFICES ASSUME NEW i \in Kept(job')
                 PROVE  job'[i].busy <=> worker'.task = i
      BY <1>6 DEF BusyIsWorkers
    <2>1. i \in Id /\ i \in Kept(job)
      BY <1>3 DEF Kept
    <2> QED BY <2>1, <1>5 DEF t
  <1>13. UnpublishedIsUnread'
    BY DEF UnpublishedIsUnread, Unpublished
  <1>14. QueueWaits' /\ QueueDistinct'
    <2>1. \A k \in 1..Len(queue) : queue[k] \in Id /\ job'[queue[k]] = job[queue[k]]
      BY <1>1 DEF TypeOK, t
    <2> QED BY <2>1 DEF QueueWaits, QueueDistinct
  <1> QED BY <1>7, <1>8, <1>9, <1>10, <1>11, <1>12, <1>13, <1>14

LEMMA GotoEffect ==
    ASSUME Inv, NEW pc \in {"build", "publish", "settle"}, NEW code \in {"none", "failed"},
           Goto(pc, code)
    PROVE  /\ worker'.pc = pc /\ worker'.task = worker.task /\ worker'.code = code
           /\ worker' \in [pc : {"rest", "prepare", "build", "publish", "settle", "done"},
                           task : Id \cup {"none"}, code : {"none", "failed"}]
  BY DEF Goto, Inv, TypeOK

LEMMA PrepareStep == ASSUME Inv, Prepare PROVE Inv'
  <1>1. Running /\ Unpublished
    BY DEF Prepare, Running, Unpublished
  <1>2. /\ job[worker.task].state \in {"running", "canceled"} /\ worker.task \notin streams
        /\ job \in [Id -> Task \cup {Gone}]
    BY <1>1 DEF Inv, UnpublishedIsUnread, TypeOK
  <1>3. job[worker.task] \in Task /\ job[worker.task].busy
    BY <1>1, RunningTask
  <1>4. /\ files' = [files EXCEPT ![worker.task] = "partial"] /\ Goto("build", "none")
        /\ UNCHANGED <<streams, job, queue, closing, root, disk, faults>>
    BY DEF Prepare
  <1>5. /\ worker'.pc = "build" /\ worker'.task = worker.task /\ worker'.code = "none"
        /\ worker' \in [pc : {"rest", "prepare", "build", "publish", "settle", "done"},
                        task : Id \cup {"none"}, code : {"none", "failed"}]
    BY <1>4, GotoEffect
  <1>6. ASSUME NEW s, s = job[worker.task].state,
               NEW v, v = "partial", NEW pc, pc = "build", NEW code, code = "none"
        PROVE  Inv'
    BY <1>1, <1>2, <1>3, <1>4, <1>5, <1>6, RunStep
  <1> QED BY <1>6

LEMMA BuildStep == ASSUME Inv, Build PROVE Inv'
  <1>1. Running /\ Unpublished
    BY DEF Build, Running, Unpublished
  <1>2. /\ job[worker.task].state \in {"running", "canceled"} /\ worker.task \notin streams
        /\ job \in [Id -> Task \cup {Gone}]
    BY <1>1 DEF Inv, UnpublishedIsUnread, TypeOK
  <1>3. job[worker.task] \in Task /\ job[worker.task].busy
    BY <1>1, RunningTask
  <1>4. /\ files' = [files EXCEPT ![worker.task] = "complete"] /\ Goto("publish", "none")
        /\ UNCHANGED <<streams, job, queue, closing, root, disk, faults>>
    BY DEF Build, Renamed
  <1>5. /\ worker'.pc = "publish" /\ worker'.task = worker.task /\ worker'.code = "none"
        /\ worker' \in [pc : {"rest", "prepare", "build", "publish", "settle", "done"},
                        task : Id \cup {"none"}, code : {"none", "failed"}]
    BY <1>4, GotoEffect
  <1>6. ASSUME NEW s, s = job[worker.task].state,
               NEW v, v = "complete", NEW pc, pc = "publish", NEW code, code = "none"
        PROVE  Inv'
    BY <1>1, <1>2, <1>3, <1>4, <1>5, <1>6, RunStep
  <1> QED BY <1>6

LEMMA FailStep == ASSUME Inv, Fail PROVE Inv'
  <1>1. Running /\ Unpublished
    BY DEF Fail, Running, Unpublished
  <1>2. /\ job[worker.task].state \in {"running", "canceled"} /\ worker.task \notin streams
        /\ job \in [Id -> Task \cup {Gone}]
        /\ files \in [Id -> {"none", "partial", "complete"}]
    BY <1>1 DEF Inv, UnpublishedIsUnread, TypeOK
  <1>3. worker.task \in Id /\ job[worker.task] \in Task /\ job[worker.task].busy
    BY <1>1, RunningTask
  <1>4. /\ Goto("settle", "failed")
        /\ UNCHANGED <<streams, job, files, queue, closing, root, disk, faults>>
    BY DEF Fail
  <1>5. /\ worker'.pc = "settle" /\ worker'.task = worker.task /\ worker'.code = "failed"
        /\ worker' \in [pc : {"rest", "prepare", "build", "publish", "settle", "done"},
                        task : Id \cup {"none"}, code : {"none", "failed"}]
    BY <1>4, GotoEffect
  <1>6. files' = [files EXCEPT ![worker.task] = files[worker.task]]
    BY <1>2, <1>4
  <1>7. ASSUME NEW s, s = job[worker.task].state, NEW v, v = files[worker.task],
               NEW pc, pc = "settle", NEW code, code = "failed"
        PROVE  Inv'
    BY <1>1, <1>2, <1>3, <1>4, <1>5, <1>6, <1>7, RunStep
  <1> QED BY <1>7

LEMMA PublishStep == ASSUME Inv, Publish PROVE Inv'
  <1>1. Running /\ Unpublished
    BY DEF Publish, Running, Unpublished
  <1>2. /\ job[worker.task].state \in {"running", "canceled"} /\ worker.task \notin streams
        /\ job \in [Id -> Task \cup {Gone}]
        /\ files \in [Id -> {"none", "partial", "complete"}]
        /\ files[worker.task] = "complete"
    BY <1>1 DEF Inv, UnpublishedIsUnread, TypeOK, WorkerOwnsItsFiles, Publish
  <1>3. worker.task \in Id /\ job[worker.task] \in Task /\ job[worker.task].busy
    BY <1>1, RunningTask
  <1>4. UNCHANGED <<streams, files, queue, closing, root, disk, faults>>
    BY DEF Publish
  <1>5. files' = [files EXCEPT ![worker.task] = files[worker.task]]
    BY <1>2, <1>4
  <1>6. CASE job' = [job EXCEPT ![worker.task].state = "ready"] /\ Goto("settle", "none")
    <2>1. /\ worker'.pc = "settle" /\ worker'.task = worker.task /\ worker'.code = "none"
          /\ worker' \in [pc : {"rest", "prepare", "build", "publish", "settle", "done"},
                          task : Id \cup {"none"}, code : {"none", "failed"}]
      BY <1>6, GotoEffect
    <2>2. /\ [job[worker.task] EXCEPT !.state = "ready"] \in Task
          /\ [job[worker.task] EXCEPT !.state = "ready"].busy
          /\ [job[worker.task] EXCEPT !.state = "ready"].state = "ready"
      BY <1>3 DEF Task
    <2>3. /\ job'[worker.task] = [job[worker.task] EXCEPT !.state = "ready"]
          /\ \A i \in Id : i # worker.task => job'[i] = job[i]
          /\ job' = [i \in Id |-> job'[i]]
      BY <1>2, <1>3, <1>6
    <2>4. job' \in [Id -> Task \cup {Gone}]
      BY <1>2, <2>2, <2>3
    <2>5. ASSUME NEW s, s = "ready", NEW v, v = files[worker.task],
                 NEW pc, pc = "settle", NEW code, code = "none"
          PROVE  Inv'
      BY <1>1, <1>2, <1>4, <1>5, <2>1, <2>2, <2>3, <2>4, <2>5, RunStep
    <2> QED BY <2>5
  <1>7. CASE Goto("settle", "failed") /\ UNCHANGED job
    <2>1. /\ worker'.pc = "settle" /\ worker'.task = worker.task /\ worker'.code = "failed"
          /\ worker' \in [pc : {"rest", "prepare", "build", "publish", "settle", "done"},
                          task : Id \cup {"none"}, code : {"none", "failed"}]
      BY <1>7, GotoEffect
    <2>2. ASSUME NEW s, s = job[worker.task].state, NEW v, v = files[worker.task],
                 NEW pc, pc = "settle", NEW code, code = "failed"
          PROVE  Inv'
      BY <1>1, <1>2, <1>3, <1>4, <1>5, <1>7, <2>1, <2>2, RunStep
    <2> QED BY <2>2
  <1> QED BY <1>6, <1>7 DEF Publish

\* The end of a run: its task is idle again, removed or kept.
LEMMA SettleStep == ASSUME Inv, Settle PROVE Inv'
  <1> USE DEF Inv
  <1> DEFINE t == worker.task
             j == Settled(job[t], worker.code)
  <1>1. /\ worker.pc = "settle" /\ Running
        /\ worker' = Rest
        /\ UNCHANGED <<streams, queue, closing, root, disk, faults>>
    BY DEF Settle, Running
  <1>2. /\ t \in Id /\ t \in Kept(job) /\ job[t] \in Task /\ job[t] # Gone /\ root
        /\ \A k \in 1..Len(queue) : queue[k] # t
    BY <1>1, RunningTask, TaskIsKept
  <1>3. j \in Task /\ ~j.busy
        /\ j.state = (IF worker.code = "failed" THEN "failed" ELSE job[t].state)
    BY <1>2 DEF Settled, Task
  <1>4. j # Gone
    BY <1>3, TaskIsKept
  <1>5. worker.code = "failed" => t \notin streams
    BY <1>1 DEF UnpublishedIsUnread, Unpublished
  <1>6. /\ job \in [Id -> Task \cup {Gone}]
        /\ files \in [Id -> {"none", "partial", "complete"}]
    BY DEF TypeOK
  <1>7. /\ \A i \in Id : i # t => job'[i] = job[i] /\ files'[i] = files[i]
        /\ job' \in [Id -> Task \cup {Gone}]
        /\ files' \in [Id -> {"none", "partial", "complete"}]
        /\ \/ job'[t] = Gone /\ t \notin streams /\ files'[t] = "none"
           \/ job'[t] = j /\ (files'[t] # files[t] => worker.code = "failed" /\ files'[t] = "none")
    <2>1. CASE /\ Removable(t \in streams', j) /\ Erased(t)
               /\ job' = [job EXCEPT ![t] = Gone] /\ files' = Wipe({t})
      <3>1. /\ files' \in [Id -> {"none", "partial", "complete"}]
            /\ \A i \in Id : files'[i] = IF i = t THEN "none" ELSE files[i]
        BY <1>2, <2>1, WipeEffect
      <3>2. t \notin streams
        BY <1>1, <2>1 DEF Removable
      <3> HIDE DEF t, j
      <3> QED BY <1>2, <1>6, <2>1, <3>1, <3>2
    <2>2. CASE job' = [job EXCEPT ![t] = j] /\ UNCHANGED files
      <3> HIDE DEF t, j
      <3> QED BY <1>2, <1>3, <1>6, <2>2
    <2>3. CASE /\ job' = [job EXCEPT ![t] = j]
               /\ worker.code = "failed" /\ files' = Wipe({t})
      <3>1. /\ files' \in [Id -> {"none", "partial", "complete"}]
            /\ \A i \in Id : i # t => files'[i] = files[i]
            /\ files'[t] \in {"none", files[t]}
        BY <1>2, <1>6, <2>3 DEF Wipe
      <3> HIDE DEF t, j
      <3> QED BY <1>2, <1>3, <1>6, <2>3, <3>1
    <2> QED BY <2>1, <2>2, <2>3 DEF Settle, Drop
  <1> HIDE DEF t, j
  <1>8. \A i \in Kept(job) : i # t => ~job[i].busy
    BY <1>1 DEF BusyIsWorkers, t
  <1>9. \A i \in Id : i \in Kept(job') <=> job'[i] # Gone
    BY DEF Kept
  <1>10. \A i \in Id : i \in Kept(job) <=> job[i] # Gone
    BY DEF Kept
  <1>11. TypeOK'
    BY <1>1, <1>7 DEF TypeOK, Rest
  <1>12. StreamsKeepTheirFile'
    <2> SUFFICES ASSUME NEW i \in streams
                 PROVE  i \in Kept(job') /\ files'[i] = "complete" /\ root
      BY <1>1 DEF StreamsKeepTheirFile
    <2>1. i \in Id /\ i \in Kept(job) /\ files[i] = "complete"
      BY DEF StreamsKeepTheirFile, TypeOK
    <2>2. CASE i = t
      BY <2>1, <2>2, <1>2, <1>4, <1>5, <1>7, <1>9
    <2>3. CASE i # t
      BY <2>1, <2>3, <1>2, <1>7, <1>9, <1>10
    <2> QED BY <2>2, <2>3
  <1>13. WorkerOwnsItsFiles' /\ UnpublishedIsUnread'
    BY <1>1 DEF WorkerOwnsItsFiles, UnpublishedIsUnread, Unpublished, Rest
  <1>14. ReadyIsWhole'
    <2> SUFFICES ASSUME NEW i \in Kept(job'), job'[i].state = "ready"
                 PROVE  files'[i] = "complete"
      BY <1>1 DEF ReadyIsWhole, Rest
    <2>1. i \in Id /\ job'[i] # Gone
      BY DEF Kept
    <2>2. CASE i = t
      <3>1. job'[t] = j /\ j.state = "ready"
        BY <2>1, <2>2, <1>7
      <3>2. worker.code # "failed" /\ job[t].state = "ready"
        BY <3>1, <1>3
      <3> QED BY <2>2, <3>1, <3>2, <1>2, <1>4, <1>7 DEF ReadyIsWhole
    <2>3. CASE i # t
      BY <2>1, <2>3, <1>7, <1>10 DEF ReadyIsWhole
    <2> QED BY <2>2, <2>3
  <1>15. NothingOrphaned'
    BY <1>1, <1>2, <1>4, <1>7, <1>9, <1>10 DEF NothingOrphaned
  <1>16. BusyIsWorkers'
    <2> SUFFICES ASSUME NEW i \in Kept(job')
                 PROVE  ~job'[i].busy
      BY <1>1 DEF BusyIsWorkers, Running, Rest
    <2>1. i \in Id /\ job'[i] # Gone
      BY DEF Kept
    <2> QED BY <2>1, <1>3, <1>7, <1>8, <1>10
  <1>17. QueueWaits' /\ QueueDistinct'
    <2>1. \A k \in 1..Len(queue) : queue[k] \in Id /\ job'[queue[k]] = job[queue[k]]
      BY <1>2, <1>7 DEF TypeOK
    <2> QED BY <1>1, <2>1 DEF QueueWaits, QueueDistinct
  <1> QED BY <1>11, <1>12, <1>13, <1>14, <1>15, <1>16, <1>17

\* A task leaves the channel; it is started unless it was removed meanwhile.
LEMMA TakeStep == ASSUME Inv, Take PROVE Inv'
  <1> USE DEF Inv
  <1> DEFINE h == Head(queue)
  <1>1. /\ worker.pc = "rest" /\ ~Running
        /\ queue' = Tail(queue)
        /\ UNCHANGED <<streams, files, closing, root, disk, faults>>
    BY DEF Take, Running
  <1>2. /\ queue \in Seq(Id) /\ queue # <<>> /\ Len(queue) <= MaxJobs
        /\ job \in [Id -> Task \cup {Gone}]
    BY DEF Take, TypeOK
  <1>3. /\ h \in Id /\ h = queue[1] /\ 1 \in 1..Len(queue)
        /\ queue' \in Seq(Id) /\ Len(queue') = Len(queue) - 1
        /\ \A k \in 1..Len(queue') : queue'[k] = queue[k + 1] /\ k + 1 \in 1..Len(queue)
    BY <1>1, <1>2
  <1>4. \A k \in 1..Len(queue') : queue'[k] # h /\ queue'[k] \in Id
    BY <1>2, <1>3 DEF QueueDistinct
  <1>5. QueueDistinct'
    BY <1>2, <1>3 DEF QueueDistinct
  <1>6. Len(queue') <= MaxJobs
    BY <1>2, <1>3, LimitAssumption
  <1>7. \A i \in Kept(job) : ~job[i].busy
    BY <1>1 DEF BusyIsWorkers
  <1>8. \A i \in Id : i \in Kept(job) <=> job[i] # Gone
    BY DEF Kept
  <1>9. CASE UNCHANGED <<job, worker>>
    <2>1. TypeOK'
      BY <1>1, <1>3, <1>6, <1>9 DEF TypeOK
    <2>2. /\ StreamsKeepTheirFile' /\ WorkerOwnsItsFiles' /\ ReadyIsWhole' /\ NothingOrphaned'
          /\ BusyIsWorkers' /\ UnpublishedIsUnread'
      BY <1>1, <1>9 DEF StreamsKeepTheirFile, WorkerOwnsItsFiles, ReadyIsWhole, NothingOrphaned,
                        BusyIsWorkers, UnpublishedIsUnread, Unpublished, Running, Kept, Closed
    <2>3. QueueWaits'
      BY <1>1, <1>3, <1>9 DEF QueueWaits
    <2> QED BY <1>5, <2>1, <2>2, <2>3
  <1>10. CASE /\ Startable(h)
              /\ job' = [job EXCEPT ![h].busy = TRUE, ![h].state = "running"]
              /\ worker' = [pc |-> "prepare", task |-> h, code |-> "none"]
    <2>1. ~Closed /\ h \in Kept(job) /\ job[h] # Gone
      BY <1>10 DEF Startable, Kept
    <2>2. job[h] \in Task
      BY <1>2, <1>3, <2>1
    <2>3. h \notin streams
      BY <1>3, <2>1 DEF QueueWaits
    <2> HIDE DEF h
    <2>4. /\ job'[h].busy /\ job'[h].state = "running" /\ job'[h] \in Task
          /\ \A i \in Id : i # h => job'[i] = job[i]
          /\ job' = [i \in Id |-> job'[i]]
      BY <1>2, <1>3, <1>10, <2>2 DEF Task
    <2>5. job'[h] # Gone
      BY <2>4, TaskIsKept
    <2>6. \A i \in Id : i \in Kept(job') <=> i \in Kept(job)
      BY <2>1, <2>4, <2>5 DEF Kept
    <2>7. job' \in [Id -> Task \cup {Gone}]
      BY <1>2, <2>4
    <2>8. worker'.pc = "prepare" /\ worker'.task = h /\ worker'.code = "none" /\ Running'
      BY <1>10 DEF Running
    <2>9. TypeOK'
      BY <1>1, <1>3, <1>6, <1>10, <2>7 DEF TypeOK
    <2>10. StreamsKeepTheirFile'
      BY <1>1, <2>6 DEF StreamsKeepTheirFile, TypeOK
    <2>11. WorkerOwnsItsFiles'
      BY <1>3, <2>1, <2>6, <2>8 DEF WorkerOwnsItsFiles
    <2>12. ReadyIsWhole'
      <3> SUFFICES ASSUME NEW i \in Kept(job'), job'[i].state = "ready"
                   PROVE  files'[i] = "complete" /\ worker'.code = "none"
        BY DEF ReadyIsWhole
      <3>1. i \in Id /\ i \in Kept(job) /\ i # h
        BY <2>4, <2>6 DEF Kept
      <3> QED BY <1>1, <2>4, <2>8, <3>1 DEF ReadyIsWhole
    <2>13. NothingOrphaned'
      BY <1>1, <1>3, <2>1, <2>6 DEF NothingOrphaned
    <2>14. BusyIsWorkers'
      <3> SUFFICES ASSUME NEW i \in Kept(job')
                   PROVE  job'[i].busy <=> h = i
        BY <2>8 DEF BusyIsWorkers
      <3>1. i \in Id /\ i \in Kept(job)
        BY <2>6 DEF Kept
      <3> QED BY <1>7, <2>4, <3>1
    <2>15. UnpublishedIsUnread'
      BY <1>1, <2>3, <2>4, <2>8 DEF UnpublishedIsUnread
    <2>16. QueueWaits'
      <3> SUFFICES ASSUME NEW k \in 1..Len(queue'), job'[queue'[k]] # Gone
                   PROVE  /\ job'[queue'[k]].state \in {"queued", "canceled"}
                          /\ ~job'[queue'[k]].busy
                          /\ queue'[k] \notin streams
        BY <1>1 DEF QueueWaits
      <3>1. job'[queue'[k]] = job[queue'[k]]
        BY <1>4, <2>4
      <3>2. queue'[k] = queue[k + 1] /\ k + 1 \in 1..Len(queue)
        BY <1>3
      <3> QED BY <3>1, <3>2 DEF QueueWaits
    <2> QED BY <1>5, <2>9, <2>10, <2>11, <2>12, <2>13, <2>14, <2>15, <2>16
  <1> QED BY <1>9, <1>10 DEF Take

LEMMA WorkerStopsStep == ASSUME Inv, WorkerStops PROVE Inv'
  <1> USE DEF Inv
  <1>1. /\ worker.pc = "rest"
        /\ worker'.pc = "done" /\ worker'.code = "none"
        /\ worker' \in [pc : {"rest", "prepare", "build", "publish", "settle", "done"},
                        task : Id \cup {"none"}, code : {"none", "failed"}]
        /\ UNCHANGED <<streams, job, files, queue, closing, root, disk, faults>>
    BY DEF WorkerStops, Rest
  <1>2. TypeOK'
    BY <1>1 DEF TypeOK
  <1>3. StreamsKeepTheirFile' /\ NothingOrphaned' /\ QueueWaits' /\ QueueDistinct'
    BY <1>1 DEF StreamsKeepTheirFile, NothingOrphaned, QueueWaits, QueueDistinct, Closed
  <1>4. WorkerOwnsItsFiles' /\ ReadyIsWhole' /\ BusyIsWorkers' /\ UnpublishedIsUnread'
    BY <1>1 DEF WorkerOwnsItsFiles, ReadyIsWhole, BusyIsWorkers, UnpublishedIsUnread,
                Unpublished, Running
  <1> QED BY <1>2, <1>3, <1>4

-----------------------------------------------------------------------------
LEMMA InvInitially == Init => Inv
  <1> SUFFICES ASSUME Init PROVE Inv
    OBVIOUS
  <1> USE DEF Init
  <1>1. TypeOK
    BY LimitAssumption DEF TypeOK, Rest
  <1>2. StreamsKeepTheirFile /\ WorkerOwnsItsFiles /\ ReadyIsWhole /\ NothingOrphaned
    BY DEF StreamsKeepTheirFile, WorkerOwnsItsFiles, ReadyIsWhole, NothingOrphaned, Rest, Kept
  <1>3. BusyIsWorkers /\ UnpublishedIsUnread /\ QueueWaits /\ QueueDistinct
    BY DEF BusyIsWorkers, UnpublishedIsUnread, Unpublished, QueueWaits, QueueDistinct, Rest, Kept
  <1> QED BY <1>1, <1>2, <1>3 DEF Inv

LEMMA InvPreserved == Inv /\ [Next]_vars => Inv'
  <1> SUFFICES ASSUME Inv, [Next]_vars PROVE Inv'
    OBVIOUS
  <1>1. CASE \E g \in Group, f \in Filter : Submit(g, f)
    BY <1>1, SubmitStep
  <1>2. ASSUME NEW i \in Id, Open(i)
        PROVE  Inv'
    BY <1>2, OpenStep
  <1>3. ASSUME NEW i \in Id, CloseArtifact(i)
        PROVE  Inv'
    BY <1>3, CloseArtifactStep
  <1>4. ASSUME NEW i \in Id, Cancel(i)
        PROVE  Inv'
    BY <1>4, CancelStep
  <1>5. ASSUME NEW i \in Id, Expire(i) \/ Timeout(i) \/ Cool(i)
        PROVE  Inv'
    BY <1>5, TimeStep
  <1>6. CASE WorkerSweeps
    BY <1>6, SweepStep
  <1>7. CASE WorkerStep
    BY <1>7, TakeStep, PrepareStep, BuildStep, FailStep, PublishStep, SettleStep, WorkerStopsStep
       DEF WorkerStep
  <1>8. CASE BeginClose \/ DiskFails \/ DiskRecovers
    BY <1>8, EnvironmentStep
  <1>9. CASE EndClose
    BY <1>9, EndCloseStep
  <1>10. CASE UNCHANGED vars
    <2> USE DEF Inv
    <2>1. UNCHANGED <<job, streams, files, queue, worker, closing, root, disk, faults>>
      BY <1>10 DEF vars
    <2>2. TypeOK' /\ QueueWaits' /\ QueueDistinct'
      BY <2>1 DEF TypeOK, QueueWaits, QueueDistinct
    <2>3. StreamsKeepTheirFile' /\ WorkerOwnsItsFiles' /\ ReadyIsWhole' /\ NothingOrphaned'
      BY <2>1 DEF StreamsKeepTheirFile, WorkerOwnsItsFiles, ReadyIsWhole, NothingOrphaned,
                  Kept, Closed
    <2>4. BusyIsWorkers' /\ UnpublishedIsUnread'
      BY <2>1 DEF BusyIsWorkers, UnpublishedIsUnread, Unpublished, Running, Kept
    <2> QED BY <2>2, <2>3, <2>4
  <1> QED BY <1>1, <1>2, <1>3, <1>4, <1>5, <1>6, <1>7, <1>8, <1>9, <1>10 DEF Next

LEMMA InvAlways == Spec => []Inv
  BY InvInitially, InvPreserved, PTL DEF Spec

\* Every task, artifact, place in the channel and state of the worker is one
\* the code knows, whatever the order of its critical sections.
THEOREM TypeCorrect == Spec => []TypeOK
  <1>1. Inv => TypeOK
    BY DEF Inv
  <1> QED BY <1>1, InvAlways, PTL

\* No cancellation, expiry, sweep, replacement or Close takes the file of an
\* open download away (Artifact, removeLocked).
THEOREM DownloadsKeepTheirFile == Spec => []StreamsKeepTheirFile
  <1>1. Inv => StreamsKeepTheirFile
    BY DEF Inv
  <1> QED BY <1>1, InvAlways, PTL

\* From the creation of its directory to the publication nobody but the worker
\* touches the files of the running task (run, Cancel).
THEOREM RunOwnsItsFiles == Spec => []WorkerOwnsItsFiles
  <1>1. Inv => WorkerOwnsItsFiles
    BY DEF Inv
  <1> QED BY <1>1, InvAlways, PTL

\* Both at once: no file in use is ever taken away (removeLocked).
THEOREM NoFileInUseIsTaken == Spec => []FilesAreKept
  <1>1. Inv => FilesAreKept
    BY DEF Inv, FilesAreKept
  <1> QED BY <1>1, InvAlways, PTL

\* A task offered for download has its whole artifact (run, Open).
THEOREM PublishedIsWhole == Spec => []ReadyIsWhole
  <1>1. Inv => ReadyIsWhole
    BY DEF Inv
  <1> QED BY <1>1, InvAlways, PTL

\* Files are removed before their registry entry, the session directory last,
\* though removals may fail at any time (removeLocked, Close).
THEOREM FilesAreTracked == Spec => []NothingOrphaned
  <1>1. Inv => NothingOrphaned
    BY DEF Inv
  <1> QED BY <1>1, InvAlways, PTL

-----------------------------------------------------------------------------
(***************************************************************************)
(* Only the publishing step of a run makes a task ready.                   *)
(***************************************************************************)
LEMMA DropNeverReady ==
    ASSUME Inv, NEW i \in Id, NEW h \in Id, NEW j \in Task, Drop(h, j),
           job[i].state # "ready", j.state # "ready"
    PROVE  job'[i].state # "ready"
  <1>1. job' = [job EXCEPT ![h] = Gone] \/ job' = [job EXCEPT ![h] = j]
    BY DEF Drop
  <1>2. job \in [Id -> Task \cup {Gone}]
    BY DEF Inv, TypeOK
  <1>3. Gone.state # "ready"
    BY DEF Gone
  <1> QED BY <1>1, <1>2, <1>3

LEMMA StoppedStep ==
    ASSUME Inv, [Next]_vars, NEW i \in Kept(job), job[i].stopped, job[i].state = "running"
    PROVE  job'[i].state # "ready"
  <1>1. i \in Id /\ job \in [Id -> Task \cup {Gone}] /\ job[i] \in Task /\ job[i] # Gone
    BY DEF Kept, Inv, TypeOK
  <1>2. Gone.state # "ready"
    BY DEF Gone
  <1>3. Swept \in [Id -> Task \cup {Gone}] /\ Swept[i].state # "ready"
    BY <1>1, <1>2, SweepEffect
  <1>4. ASSUME NEW g \in Group, NEW f \in Filter, Submit(g, f)
        PROVE  job'[i].state # "ready"
    <2> DEFINE left == Forget(Swept, {h \in Kept(Swept) : Swept[h].group = g})
    <2>1. \/ job' = Swept \/ job' = left
          \/ \E h \in Id \ Kept(job) : job' = [left EXCEPT ![h] = Queued(g, f)]
      BY <1>4 DEF Submit
    <2>2. left[i].state # "ready" /\ DOMAIN left = Id
      BY <1>1, <1>2, <1>3 DEF Forget
    <2> HIDE DEF left
    <2>3. ASSUME NEW h \in Id \ Kept(job), job' = [left EXCEPT ![h] = Queued(g, f)]
          PROVE  job'[i] = left[i]
      BY <1>1, <2>2, <2>3
    <2> QED BY <1>3, <2>1, <2>2, <2>3
  <1>5. ASSUME NEW h \in Id, CloseArtifact(h)
        PROVE  job'[i].state # "ready"
    <2>1. CASE job[h] # Gone /\ Drop(h, job[h])
      <3>1. job[h] \in Task
        BY <1>1, <2>1
      <3>2. CASE job[h].state # "ready"
        BY <1>1, <2>1, <3>1, <3>2, DropNeverReady
      <3>3. CASE job[h].state = "ready"
        BY <1>1, <2>1, <3>1, <3>3 DEF Drop
      <3> QED BY <3>2, <3>3
    <2>2. job[h] # Gone
      BY <1>5 DEF CloseArtifact, Inv, StreamsKeepTheirFile, Kept
    <2> QED BY <1>5, <2>1, <2>2 DEF CloseArtifact
  <1>6. ASSUME NEW h \in Id, Cancel(h)
        PROVE  job'[i].state # "ready"
    <2> DEFINE j == [job[h] EXCEPT !.state = "canceled", !.retired = TRUE, !.cooled = FALSE,
                                   !.stopped = @ \/ job[h].busy]
    <2>1. job[h] \in Task
      BY <1>1, <1>6, KeptIsTask DEF Cancel, Found
    <2>2. j \in Task /\ j.state = "canceled"
      BY <2>1 DEF Task
    <2>3. Drop(h, j)
      BY <1>6 DEF Cancel
    <2> HIDE DEF j
    <2> QED BY <1>1, <2>2, <2>3, DropNeverReady
  <1>7. ASSUME NEW h \in Id, Open(h) \/ Expire(h) \/ Timeout(h) \/ Cool(h)
        PROVE  job'[i].state # "ready"
    <2>1. CASE Open(h)
      BY <2>1 DEF Open
    <2>2. CASE Expire(h)
      BY <1>1, <2>2 DEF Expire, Task
    <2>3. CASE Timeout(h)
      BY <1>1, <2>3 DEF Timeout, Task
    <2>4. CASE Cool(h)
      BY <1>1, <2>4 DEF Cool, Task
    <2> QED BY <1>7, <2>1, <2>2, <2>3, <2>4
  <1>8. CASE WorkerSweeps
    BY <1>3, <1>8 DEF WorkerSweeps
  <1>9. CASE Take
    BY <1>1, <1>9 DEF Take, Task
  <1>10. CASE Prepare \/ Build \/ Fail \/ WorkerStops
    BY <1>10 DEF Prepare, Build, Fail, WorkerStops
  <1>11. CASE Publish
    BY <1>1, <1>11 DEF Publish, Publishable, Stopped
  <1>12. CASE Settle
    <2> DEFINE j == Settled(job[worker.task], worker.code)
    <2>1. Running
      BY <1>12 DEF Settle, Running
    <2>2. worker.task \in Id /\ job[worker.task] \in Task
      BY <2>1, RunningTask
    <2>3. j \in Task /\ j.state \in {"failed", job[worker.task].state}
      BY <2>2 DEF Settled, Task
    <2>4. \/ job' = [job EXCEPT ![worker.task] = Gone]
          \/ job' = [job EXCEPT ![worker.task] = j]
      BY <1>12 DEF Settle, Drop
    <2> HIDE DEF j
    <2> QED BY <1>1, <1>2, <2>2, <2>3, <2>4
  <1>13. CASE BeginClose \/ DiskFails \/ DiskRecovers
    BY <1>13 DEF BeginClose, DiskFails, DiskRecovers
  <1>14. CASE EndClose
    <2>1. job'[i] = Gone \/ job'[i] = [job[i] EXCEPT !.retired = TRUE]
      BY <1>1, <1>14 DEF EndClose, Forget
    <2> QED BY <1>1, <1>2, <2>1 DEF Task
  <1>15. CASE UNCHANGED vars
    BY <1>15 DEF vars
  <1> QED BY <1>4, <1>5, <1>6, <1>7, <1>8, <1>9, <1>10, <1>11, <1>12, <1>13, <1>14, <1>15
          DEF Next, WorkerStep

\* A run whose context was stopped by a cancellation, its time limit or its
\* expiry never turns its task ready, however late it reaches the end (run).
THEOREM StoppedStaysUnready == Spec => StoppedNeverReady
  <1>1. Inv /\ [Next]_vars =>
            [StoppedStays]_vars
    BY StoppedStep DEF StoppedStays
  <1> QED BY <1>1, InvAlways, PTL DEF Spec, StoppedNeverReady

-----------------------------------------------------------------------------
(***************************************************************************)
(* The number of tasks, and one per group.                                 *)
(***************************************************************************)

\* No task is admitted and those that stay keep their group.
NoneAdmitted ==
    \A i \in Id : job'[i] # Gone => job[i] # Gone /\ job'[i].group = job[i].group

\* Task i is admitted to group g, whose other tasks are gone.
Admitted(i, g, js) ==
    /\ i \in Id /\ Cardinality(Kept(js)) < MaxJobs
    /\ \A h \in Id : js[h] # Gone =>
           job[h] # Gone /\ js[h].group = job[h].group /\ js[h].group # g
    /\ \A h \in Id : h # i => job'[h] = js[h]
    /\ job'[i] # Gone /\ job'[i].group = g

Few == IsFiniteSet(Kept(job)) /\ OneTaskPerGroup

LEMMA DropAdmitsNone ==
    ASSUME Inv, NEW h \in Id, NEW j \in Task, job[h] \in Task,
           j.group = job[h].group, Drop(h, j)
    PROVE  NoneAdmitted
  <1>1. job \in [Id -> Task \cup {Gone}] /\ job[h] # Gone
    BY TaskIsKept DEF Inv, TypeOK
  <1>2. job' = [job EXCEPT ![h] = Gone] \/ job' = [job EXCEPT ![h] = j]
    BY DEF Drop
  <1> QED BY <1>1, <1>2 DEF NoneAdmitted

LEMMA SubmitAdmits ==
    ASSUME Inv, NEW g \in Group, NEW f \in Filter, Submit(g, f), Few
    PROVE  NoneAdmitted \/ \E i \in Id, js \in [Id -> Task \cup {Gone}] : Admitted(i, g, js)
  <1> DEFINE mine == {i \in Kept(Swept) : Swept[i].group = g}
             left == Forget(Swept, mine)
  <1>1. \/ job' = Swept \/ job' = left
        \/ /\ ~Full(left)
           /\ \E i \in Id \ Kept(job) : job' = [left EXCEPT ![i] = Queued(g, f)]
    BY DEF Submit
  <1>2. /\ Swept \in [Id -> Task \cup {Gone}]
        /\ \A i \in Id : Swept[i] # Gone => job[i] # Gone /\ Swept[i].group = job[i].group
    BY SweepEffect
  <1>3. /\ left \in [Id -> Task \cup {Gone}]
        /\ \A i \in Id : left[i] # Gone => /\ job[i] # Gone /\ left[i].group = job[i].group
                                           /\ left[i].group # g
    <2>1. \A i \in Id : left[i] = IF i \in mine THEN Gone ELSE Swept[i]
      BY DEF Forget
    <2>2. left \in [Id -> Task \cup {Gone}]
      BY <1>2 DEF Forget
    <2>3. \A i \in Id : left[i] # Gone => left[i] = Swept[i] /\ Swept[i].group # g
      BY <2>1 DEF Kept
    <2> HIDE DEF mine, left
    <2> QED BY <1>2, <2>2, <2>3
  <1> HIDE DEF mine, left
  <1>4. ASSUME ~Full(left), NEW i \in Id \ Kept(job), job' = [left EXCEPT ![i] = Queued(g, f)]
        PROVE  Admitted(i, g, left)
    <2>1. Kept(left) \subseteq Kept(job)
      BY <1>3 DEF Kept
    <2>2. Cardinality(Kept(left)) \in Nat
      BY <2>1, FS_Subset, FS_CardinalityType DEF Few
    <2>3. Cardinality(Kept(left)) < MaxJobs
      <3>1. ~(Cardinality(Kept(left)) >= MaxJobs)
        BY <1>4 DEF Full
      <3> QED BY <3>1, <2>2, LimitAssumption
    <2>4. Queued(g, f) # Gone /\ Queued(g, f).group = g
      <3>1. Queued(g, f) \in Task
        BY DEF Queued, Task
      <3> QED BY <3>1, TaskIsKept DEF Queued
    <2> QED BY <1>3, <1>4, <2>3, <2>4 DEF Admitted
  <1> QED BY <1>1, <1>2, <1>3, <1>4 DEF NoneAdmitted

LEMMA OthersAdmitNone ==
    ASSUME Inv, [Next]_vars, ~(\E g \in Group, f \in Filter : Submit(g, f))
    PROVE  NoneAdmitted
  <1>1. job \in [Id -> Task \cup {Gone}]
    BY DEF Inv, TypeOK
  <1>2. \A h \in Id : job[h] # Gone => job[h] \in Task
    BY <1>1
  <1>3. ASSUME NEW h \in Id, CloseArtifact(h)
        PROVE  NoneAdmitted
    <2>1. job[h] # Gone
      BY <1>3 DEF CloseArtifact, Inv, StreamsKeepTheirFile, Kept
    <2> QED BY <1>2, <1>3, <2>1, DropAdmitsNone DEF CloseArtifact, NoneAdmitted
  <1>4. ASSUME NEW h \in Id, Cancel(h)
        PROVE  NoneAdmitted
    <2> DEFINE j == [job[h] EXCEPT !.state = "canceled", !.retired = TRUE, !.cooled = FALSE,
                                   !.stopped = @ \/ job[h].busy]
    <2>1. job[h] \in Task
      BY <1>1, <1>4, KeptIsTask DEF Cancel, Found
    <2>2. j \in Task /\ j.group = job[h].group
      BY <2>1 DEF Task
    <2>3. Drop(h, j)
      BY <1>4 DEF Cancel
    <2> HIDE DEF j
    <2> QED BY <2>1, <2>2, <2>3, DropAdmitsNone
  <1>5. ASSUME NEW h \in Id, Open(h) \/ Expire(h) \/ Timeout(h) \/ Cool(h)
        PROVE  NoneAdmitted
    <2>1. CASE Open(h)
      BY <2>1 DEF Open, NoneAdmitted
    <2>2. CASE Expire(h)
      BY <1>1, <2>2 DEF Expire, NoneAdmitted, Kept, Task
    <2>3. CASE Timeout(h)
      BY <1>1, <2>3 DEF Timeout, NoneAdmitted, Kept, Task
    <2>4. CASE Cool(h)
      BY <1>1, <2>4 DEF Cool, NoneAdmitted, Kept, Task
    <2> QED BY <1>5, <2>1, <2>2, <2>3, <2>4
  <1>6. CASE WorkerSweeps
    BY <1>6, SweepEffect DEF WorkerSweeps, NoneAdmitted
  <1>7. CASE Take
    BY <1>1, <1>7 DEF Take, Startable, NoneAdmitted, Kept, Task
  <1>8. CASE Publish
    <2>1. worker.task \in Id /\ job[worker.task] \in Task
      BY <1>8, RunningTask DEF Publish, Running
    <2>2. job[worker.task] # Gone
      BY <2>1, TaskIsKept
    <2> QED BY <1>1, <1>8, <2>1, <2>2 DEF Publish, NoneAdmitted, Task
  <1>9. CASE Settle
    <2> DEFINE j == Settled(job[worker.task], worker.code)
    <2>1. Running
      BY <1>9 DEF Settle, Running
    <2>2. worker.task \in Id /\ job[worker.task] \in Task /\ job[worker.task] # Gone
      BY <2>1, RunningTask, TaskIsKept
    <2>3. j \in Task /\ j.group = job[worker.task].group
      BY <2>2 DEF Settled, Task
    <2>4. \/ job' = [job EXCEPT ![worker.task] = Gone]
          \/ job' = [job EXCEPT ![worker.task] = j]
      BY <1>9 DEF Settle, Drop
    <2> HIDE DEF j
    <2> QED BY <1>1, <2>2, <2>3, <2>4 DEF NoneAdmitted
  <1>10. CASE EndClose
    <2>1. \A i \in Id : job'[i] = Gone
                        \/ (job[i] # Gone /\ job'[i] = [job[i] EXCEPT !.retired = TRUE])
      BY <1>1, <1>10 DEF EndClose, Forget, Kept
    <2>2. \A i \in Id : job[i] # Gone => [job[i] EXCEPT !.retired = TRUE].group = job[i].group
      BY <1>2 DEF Task
    <2> QED BY <2>1, <2>2 DEF NoneAdmitted
  <1>11. CASE UNCHANGED job
    BY <1>11 DEF NoneAdmitted
  <1>12. Prepare \/ Build \/ Fail \/ WorkerStops \/ BeginClose \/ DiskFails \/ DiskRecovers
             \/ UNCHANGED vars => UNCHANGED job
    BY DEF Prepare, Build, Fail, WorkerStops, BeginClose, DiskFails, DiskRecovers, vars
  <1> QED BY <1>3, <1>4, <1>5, <1>6, <1>7, <1>8, <1>9, <1>10, <1>11, <1>12 DEF Next, WorkerStep

LEMMA FewPreserved == Inv /\ Few /\ [Next]_vars => Few'
  <1> SUFFICES ASSUME Inv, Few, [Next]_vars PROVE Few'
    OBVIOUS
  <1>1. /\ IsFiniteSet(Kept(job)) /\ Cardinality(Kept(job)) \in Nat
        /\ Cardinality(Kept(job)) <= MaxJobs
        /\ \A h, i \in Kept(job) : job[h].group = job[i].group => h = i
    BY FS_CardinalityType DEF Few, OneTaskPerGroup
  <1>2. CASE NoneAdmitted
    <2>1. Kept(job') \subseteq Kept(job)
      BY <1>2 DEF NoneAdmitted, Kept
    <2>2. \A i \in Kept(job') : job'[i].group = job[i].group
      BY <1>2 DEF NoneAdmitted, Kept
    <2>3. IsFiniteSet(Kept(job')) /\ Cardinality(Kept(job')) <= Cardinality(Kept(job))
      BY <1>1, <2>1, FS_Subset
    <2>4. Cardinality(Kept(job')) \in Nat
      BY <2>3, FS_CardinalityType
    <2>5. Cardinality(Kept(job')) <= MaxJobs
      BY <1>1, <2>3, <2>4, LimitAssumption
    <2> QED BY <1>1, <2>1, <2>2, <2>3, <2>5 DEF Few, OneTaskPerGroup
  <1>3. ASSUME NEW g \in Group, NEW i \in Id, NEW js \in [Id -> Task \cup {Gone}],
               Admitted(i, g, js)
        PROVE  Few'
    <2>1. Kept(js) \subseteq Kept(job)
      BY <1>3 DEF Admitted, Kept
    <2>2. IsFiniteSet(Kept(js)) /\ Cardinality(Kept(js)) \in Nat
      BY <1>1, <2>1, FS_Subset, FS_CardinalityType
    <2>3. Kept(job') \subseteq Kept(js) \cup {i}
      BY <1>3 DEF Admitted, Kept
    <2>4. /\ IsFiniteSet(Kept(js) \cup {i})
          /\ Cardinality(Kept(js) \cup {i}) \in Nat
          /\ Cardinality(Kept(js) \cup {i}) <= MaxJobs
      <3>1. Cardinality(Kept(js)) < MaxJobs
        BY <1>3 DEF Admitted
      <3>2. /\ IsFiniteSet(Kept(js) \cup {i})
            /\ Cardinality(Kept(js) \cup {i}) =
               IF i \in Kept(js) THEN Cardinality(Kept(js)) ELSE Cardinality(Kept(js)) + 1
        BY <2>2, FS_AddElement
      <3> QED BY <3>1, <3>2, <2>2, LimitAssumption
    <2>5. IsFiniteSet(Kept(job')) /\ Cardinality(Kept(job')) <= Cardinality(Kept(js) \cup {i})
      BY <2>3, <2>4, FS_Subset
    <2>6. Cardinality(Kept(job')) \in Nat
      BY <2>5, FS_CardinalityType
    <2>7. Cardinality(Kept(job')) <= MaxJobs
      BY <2>4, <2>5, <2>6, LimitAssumption
    <2>8. \A h \in Kept(job') : h # i => h \in Kept(job) /\ job'[h].group = job[h].group
                                         /\ job'[h].group # g
      BY <1>3 DEF Admitted, Kept
    <2>9. job'[i].group = g
      BY <1>3 DEF Admitted
    <2>10. \A h, k \in Kept(job') : job'[h].group = job'[k].group => h = k
      BY <1>1, <2>8, <2>9
    <2> QED BY <2>5, <2>7, <2>10 DEF Few, OneTaskPerGroup
  <1>4. CASE \E g \in Group, f \in Filter : Submit(g, f)
    BY <1>2, <1>3, <1>4, SubmitAdmits
  <1> QED BY <1>2, <1>4, OthersAdmitNone

\* "One retained task per group", and never more than the limit, though canceled
\* tasks wait in the registry for their reader or the worker (Submit).
THEOREM OnePerGroup == Spec => []OneTaskPerGroup
  <1>1. Init => Few
    <2> SUFFICES ASSUME Init PROVE Few
      OBVIOUS
    <2>1. Kept(job) = {}
      BY DEF Init, Kept
    <2>2. IsFiniteSet(Kept(job)) /\ Cardinality(Kept(job)) = 0
      BY <2>1, FS_EmptySet
    <2>3. Cardinality(Kept(job)) <= MaxJobs
      BY <2>2, LimitAssumption
    <2> QED BY <2>1, <2>2, <2>3 DEF Few, OneTaskPerGroup
  <1>2. Few => OneTaskPerGroup
    BY DEF Few
  <1> QED BY <1>1, <1>2, FewPreserved, InvAlways, PTL DEF Spec
=============================================================================
