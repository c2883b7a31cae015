-------------------------- MODULE BooksParts_proofs --------------------------
(***************************************************************************)
(* Proofs about the parts that read books elsewhere and keep what they read: *)
(* the stability backfill, the metric watermarks, the usage facts of a       *)
(* rolling window and those of the full history.  Each is an instance under  *)
(* its own constants and variables, and each has an inductive invariant with *)
(* the three facts that a user of the part needs: it holds at first, every   *)
(* step keeps it, and it implies what the runs check.                        *)
(***************************************************************************)
EXTENDS Integers, FiniteSets, FiniteSetTheorems, NaturalsInduction, WellFoundedInduction, TLAPS

\* A nonempty set of naturals has a least element.
LEMMA Least == ASSUME NEW S \in SUBSET Nat, S # {} PROVE \E x \in S : \A y \in S : x <= y
  <1> DEFINE R == {ss \in Nat \X Nat : ss[1] < ss[2]}
  <1>1. IsWellFoundedOn(R, Nat)
    BY ONLY NatLessThanWellFounded, Zenon DEF OpToRel
  <1>2. PICK x \in S : \A y \in S : ~ (<<y, x>> \in R)
    <2> HIDE DEF R
    <2> QED BY <1>1, WFMin
  <1>3. ASSUME NEW y \in S PROVE x <= y
    <2>1. \A a, b \in Nat : a < b => <<a, b>> \in R
      OBVIOUS
    <2>2. ~ (<<y, x>> \in R)
      BY <1>2
    <2> HIDE DEF R
    <2> QED BY <2>1, <2>2
  <1> QED BY <1>3

\* A nonempty bounded one has a greatest.
LEMMA Greatest ==
  ASSUME NEW n \in Nat, NEW S \in SUBSET (0 .. n), S # {}
  PROVE  \E x \in S : \A y \in S : x >= y
  <1> DEFINE T == {n - y : y \in S}
  <1>1. T \in SUBSET Nat
    OBVIOUS
  <1>2. T # {}
    <2>1. PICK y \in S : TRUE
      OBVIOUS
    <2>2. n - y \in T
      BY <2>1
    <2> QED BY <2>2
  <1>3. PICK t \in T : \A u \in T : t <= u
    <2> HIDE DEF T
    <2> QED BY <1>1, <1>2, Least
  <1>4. PICK x \in S : t = n - x
    OBVIOUS
  <1>5. ASSUME NEW y \in S PROVE x >= y
    <2>1. n - y \in T
      OBVIOUS
    <2>2. t <= n - y
      BY <1>3, <2>1
    <2>3. x \in 0 .. n /\ y \in 0 .. n
      OBVIOUS
    <2> QED BY ONLY <1>4, <2>2, <2>3, n \in Nat
  <1> QED BY <1>5

-----------------------------------------------------------------------------
\* The stability backfill: a job that has ended accounts for every hour of its range.
CONSTANTS Job, Retained, Batches, MaxAttempts, Busy, First, Last

VARIABLES end, hour, minutes, job, worker, epoch

Stability == INSTANCE StabilityBackfill

StabilityConstants ==
    /\ Retained \in Nat /\ MaxAttempts \in Nat
    /\ Batches \subseteq Nat /\ 1 \in Batches
    /\ First \in Nat /\ Last \in Nat /\ First <= Last

\* The instance counts as the library does.
LEMMA SameCount == \A S : Stability!Cardinality(S) = Cardinality(S)
  BY Zenon DEF Stability!Cardinality, Cardinality

\* The greatest element of a set is one of it.
LEMMA MaxIsIn ==
  ASSUME NEW n \in Nat, NEW S \in SUBSET (0 .. n), S # {}
  PROVE  Stability!Max(S) \in S
  <1>1. \E x \in S : \A y \in S : x >= y
    BY Greatest
  <1> QED BY <1>1 DEF Stability!Max

-----------------------------------------------------------------------------
\* Who works on a job; who repairs an hour.
JobPlaces == {"run", "loop", "fetch", "write", "seal", "again"}
Works == worker.pc \in JobPlaces
Repairs == worker.pc \in {"mark", "read", "settle"}

\* An hour of which nothing is kept, or that coverage no longer asks for.
Known(h) == h < end - Retained \/ hour[h].rows # "none"

\* The rows of an hour that had traffic are complete, and complete rows are there.
HoursAgree ==
    \A h \in Stability!Hour : /\ hour[h].rows = "some" => hour[h].status = "complete"
                              /\ hour[h].status = "complete" => hour[h].rows # "none"

\* A job lists as failed hours of its own; what an ended one does not list is known.
JobsAgree ==
    \A j \in Job : job[j] # Stability!NoJob =>
       /\ job[j].failed \subseteq job[j].hours
       /\ job[j].status \in {"partial", "complete"} =>
             \A h \in job[j].hours \ job[j].failed : Known(h)
       /\ job[j].status = "complete" => job[j].failed = {}

\* Of the hours of the job that a worker runs it knows some, gave up others, and has the traffic of
\* none that it does not know; in its last pass it has met them all.
WorkerAgrees ==
    LET hours == job[worker.job].hours
        unknown == hours \ worker.known
    IN  /\ job[worker.job].status \in {"queued", "running"}
        /\ worker.pc = "run" => worker.todo = {} /\ worker.left = {} /\ ~worker.last
        /\ worker.pc # "run" =>
             /\ job[worker.job].status = "running"
             /\ worker.known \subseteq hours /\ worker.failed \subseteq unknown
             /\ \A h \in worker.known : Known(h)
             /\ \A h \in unknown : hour[h].rows # "some"
             /\ worker.todo \subseteq unknown /\ worker.left \subseteq unknown
             /\ worker.todo \cap worker.left = {}
             /\ worker.last => unknown \subseteq worker.failed
             /\ ~worker.last => worker.left = {}
             /\ worker.pc = "loop" => ~worker.last
             /\ worker.pc = "again" => worker.last
             /\ worker.pc = "seal" \/ (worker.pc = "fetch" /\ worker.last) => worker.todo # {}

StabilityInv ==
    /\ Stability!TypeOK
    /\ job \in [Job -> Stability!JobRow \cup {Stability!NoJob}]
    /\ HoursAgree /\ JobsAgree
    /\ Works => WorkerAgrees
    /\ Repairs => (worker.pc # "settle" => hour[worker.hour].rows # "some")

\* The invariant says what the runs check.
LEMMA StabilityImplies == StabilityInv => Stability!TypeOK /\ Stability!HoursAccounted
  <1> SUFFICES ASSUME StabilityInv PROVE Stability!HoursAccounted
    BY DEF StabilityInv
  <1>1. ASSUME NEW j \in Job, job[j].status \in {"partial", "complete"}
        PROVE  /\ \A h \in job[j].hours \ job[j].failed : h < end - Retained \/ hour[h].rows # "none"
               /\ job[j].status = "complete" => job[j].failed = {}
    <2>1. job[j] # Stability!NoJob
      BY <1>1 DEF Stability!NoJob
    <2> QED BY <1>1, <2>1 DEF StabilityInv, JobsAgree, Known
  <1>2. \A h \in Stability!Window : hour[h].rows = "some" => hour[h].status = "complete"
    BY DEF StabilityInv, HoursAgree, Stability!Window
  <1> QED BY <1>1, <1>2 DEF Stability!HoursAccounted

\* At first no hour is read and no job is known.
LEMMA StabilityFirst == StabilityConstants => (Stability!Init => StabilityInv)
  <1> SUFFICES ASSUME StabilityConstants, Stability!Init PROVE StabilityInv
    OBVIOUS
  <1>1. ~Works /\ ~Repairs
    BY DEF Stability!Init, Stability!Nobody, Works, Repairs, JobPlaces
  <1>2. Stability!TypeOK
    BY DEF StabilityConstants, Stability!Init, Stability!TypeOK, Stability!Unknown, Stability!NoJob,
           Stability!Nobody
  <1>3. HoursAgree /\ JobsAgree /\ job \in [Job -> Stability!JobRow \cup {Stability!NoJob}]
    BY DEF Stability!Init, HoursAgree, JobsAgree, Stability!Unknown
  <1> QED BY <1>1, <1>2, <1>3 DEF StabilityInv

-----------------------------------------------------------------------------
(* What a step leaves of the rows of the hours and of the jobs.             *)

HourRows == [Stability!Hour -> [status : {"none", "running", "queued", "failed", "complete"},
                                rows : {"none", "zero", "some"}]]
JobRows == [Job -> Stability!JobRow \cup {Stability!NoJob}]

\* No hour loses its rows.
RowsStay ==
    /\ hour' \in HourRows /\ HoursAgree'
    /\ \A h \in Stability!Hour : hour[h].rows # "none" => hour'[h].rows # "none"

\* A mark on an hour without traffic changes no rows.
LEMMA MarkStays ==
  ASSUME StabilityInv, NEW h \in Stability!Hour, hour[h].rows # "some",
         NEW status \in {"running", "queued", "failed"}, Stability!MayMark(h, status)
  PROVE  RowsStay /\ \A k \in Stability!Hour : hour'[k].rows = hour[k].rows
  BY DEF StabilityInv, Stability!TypeOK, Stability!MayMark, Stability!Mark, HoursAgree, RowsStay,
         HourRows

\* Nothing at all changes none.
LEMMA SameStay == ASSUME StabilityInv, UNCHANGED hour PROVE RowsStay
  BY DEF StabilityInv, Stability!TypeOK, HoursAgree, RowsStay, HourRows

\* An answer changes the rows of its own hour.
LEMMA SealStays ==
  ASSUME StabilityInv, NEW h \in Stability!Hour, Stability!SealHour(h)
  PROVE  /\ RowsStay /\ hour'[h].rows # "none"
         /\ \A k \in Stability!Hour : k # h => hour'[k].rows = hour[k].rows
  <1>1. Stability!Answer(h) \in {"some", "zero"}
    BY DEF Stability!Answer
  <1> QED
    BY <1>1 DEF StabilityInv, Stability!TypeOK, Stability!SealHour, HoursAgree, RowsStay, HourRows

\* With the hours that are kept the rows of the jobs stay true.
LEMMA JobsStay ==
  ASSUME StabilityInv, RowsStay, UNCHANGED <<job, end>>
  PROVE  JobsAgree'
  BY DEF StabilityInv, JobsAgree, Known, RowsStay, Stability!JobRow

\* A row that is saved as unfinished says nothing of its hours.
LEMMA SaveStays ==
  ASSUME StabilityInv, RowsStay, UNCHANGED end, NEW j \in Job, job[j] # Stability!NoJob,
         NEW status \in {"queued", "running", "paused"}, NEW failed \in SUBSET job[j].hours,
         NEW stopped \in BOOLEAN,
         job' = [job EXCEPT ![j].status = status, ![j].failed = failed, ![j].stopped = stopped]
  PROVE  /\ job' \in JobRows /\ JobsAgree'
         /\ job'[j].hours = job[j].hours /\ job'[j].status = status
         /\ job'[j] # Stability!NoJob
  <1>1. job[j] \in Stability!JobRow /\ job \in JobRows
    BY DEF StabilityInv, JobRows
  <1>2. /\ job'[j] = [job[j] EXCEPT !.status = status, !.failed = failed, !.stopped = stopped]
        /\ \A k \in Job : k # j => job'[k] = job[k]
    BY <1>1 DEF JobRows
  <1>3. job'[j] \in Stability!JobRow /\ job'[j].hours = job[j].hours /\ job'[j].status = status
        /\ job'[j].failed = failed
    <2> DEFINE r == job[j]
    <2>1. r \in Stability!JobRow /\ failed \in SUBSET Stability!Hour
      BY <1>1 DEF Stability!JobRow
    <2>2. job'[j] = [r EXCEPT !.status = status, !.failed = failed, !.stopped = stopped]
      BY <1>2
    <2> HIDE DEF r
    <2>3. /\ job'[j] \in Stability!JobRow /\ job'[j].hours = r.hours /\ job'[j].status = status
          /\ job'[j].failed = failed
      BY ONLY <2>1, <2>2, stopped \in BOOLEAN, status \in {"queued", "running", "paused"}
         DEF Stability!JobRow
    <2> QED BY <2>3 DEF r
  <1>4. job' \in JobRows
    BY <1>1, <1>2, <1>3 DEF JobRows
  <1>5. JobsAgree'
    BY <1>2, <1>3 DEF StabilityInv, JobsAgree, Known, RowsStay, Stability!JobRow
  <1>6. job'[j] # Stability!NoJob
    BY <1>3 DEF Stability!NoJob, Stability!JobRow
  <1> QED BY <1>3, <1>4, <1>5, <1>6

-----------------------------------------------------------------------------
(* How a step of a worker ends.                                             *)

\* A worker's row is one of a job.
LEMMA WorkerShape ==
  ASSUME StabilityInv, Works
  PROVE  /\ worker \in Stability!Worker /\ WorkerAgrees
         /\ worker.job \in Job /\ job[worker.job] \in Stability!JobRow
         /\ job[worker.job] # Stability!NoJob
  <1>1. worker \in Stability!Worker /\ WorkerAgrees
    BY DEF StabilityInv, Stability!TypeOK, Works, JobPlaces, Stability!Repairer, Stability!Nobody
  <1>2. worker.job \in Job
    BY <1>1 DEF Stability!Worker
  <1>3. job[worker.job] \in Stability!JobRow /\ job[worker.job] # Stability!NoJob
    BY <1>1, <1>2 DEF StabilityInv, WorkerAgrees, Stability!NoJob
  <1> QED BY <1>1, <1>2, <1>3

\* A worker that is gone is owed nothing.
LEMMA EndKeeps ==
  ASSUME StabilityInv, RowsStay, job' \in JobRows, JobsAgree', worker' = Stability!Nobody,
         UNCHANGED <<end, minutes>>, epoch' \in {"away", "back", "resumed"}
  PROVE  StabilityInv'
  <1>1. ~Works' /\ ~Repairs'
    BY DEF Works, Repairs, JobPlaces, Stability!Nobody
  <1>2. Stability!TypeOK'
    BY DEF StabilityInv, Stability!TypeOK, RowsStay, HourRows, JobRows
  <1> QED BY <1>1, <1>2 DEF StabilityInv, RowsStay, JobRows

\* A worker that leaves its job saves it as unfinished.
LEMMA LeaveKeeps ==
  ASSUME StabilityInv, Works, RowsStay, Stability!Others, NEW status \in {"queued", "paused"},
         NEW stopped \in BOOLEAN, Stability!Leaves(status, stopped)
  PROVE  StabilityInv'
  <1>1. job[worker.job].failed \in SUBSET job[worker.job].hours
    BY WorkerShape DEF StabilityInv, JobsAgree
  <1>2. job' \in JobRows /\ JobsAgree'
    BY <1>1, WorkerShape, SaveStays DEF Stability!Leaves, Stability!Saves, Stability!Mine,
       Stability!Others
  <1>3. epoch' \in {"away", "back", "resumed"}
    BY DEF Stability!Others, StabilityInv, Stability!TypeOK
  <1> QED BY <1>2, <1>3, EndKeeps DEF Stability!Leaves, Stability!Ends, Stability!Others

\* A worker that goes on is judged by where it goes.
LEMMA GoKeeps ==
  ASSUME StabilityInv, RowsStay, job' \in JobRows, JobsAgree', worker' \in Stability!Worker,
         WorkerAgrees', Stability!Others
  PROVE  StabilityInv'
  <1>1. ~Repairs'
    BY DEF Repairs, Stability!Worker
  <1>2. Stability!TypeOK'
    BY DEF StabilityInv, Stability!TypeOK, RowsStay, HourRows, JobRows, Stability!Others
  <1> QED BY <1>1, <1>2 DEF StabilityInv, RowsStay, JobRows

\* A set of the hours of a worker has its greatest among them.
LEMMA GreatestHour ==
  ASSUME StabilityConstants, NEW S \in SUBSET Stability!Hour, S # {}
  PROVE  Stability!Max(S) \in S
  <1>1. Last \in Nat /\ S \in SUBSET (0 .. Last)
    BY DEF StabilityConstants, Stability!Hour
  <1> QED BY <1>1, MaxIsIn

-----------------------------------------------------------------------------
(* The steps of a worker.                                                   *)

\* Begin: what is complete is known, and what was repaired is no longer given up.
LEMMA BeginKeeps == ASSUME StabilityConstants, StabilityInv, Stability!Begin PROVE StabilityInv'
  <1> DEFINE known == {h \in job[worker.job].hours : Stability!Complete(h)}
             failed == job[worker.job].failed \ known
  <1>1. Works /\ worker.pc = "run"
    BY DEF Stability!Begin, Stability!At, Works, JobPlaces
  <1>2. RowsStay
    BY SameStay DEF Stability!Begin
  <1>3. CASE Stability!Leaves("paused", Stability!Mine.stopped)
    <2>1. job[worker.job].stopped \in BOOLEAN
      BY <1>1, WorkerShape DEF Stability!JobRow
    <2> QED BY <1>1, <1>2, <1>3, <2>1, LeaveKeeps DEF Stability!Begin, Stability!Mine
  <1>4. ASSUME Stability!Saves("running", failed, FALSE), NEW b \in Batches,
               worker' = [worker EXCEPT !.pc = "loop", !.known = known, !.failed = failed,
                                        !.batch = b]
        PROVE  StabilityInv'
    <2>1. job[worker.job].failed \subseteq job[worker.job].hours
          /\ job[worker.job].hours \subseteq Stability!Hour
      BY <1>1, WorkerShape DEF StabilityInv, JobsAgree, Stability!JobRow
    <2>2. failed \in SUBSET job[worker.job].hours
      BY <2>1
    <2>3. /\ job' \in JobRows /\ JobsAgree'
          /\ job'[worker.job].hours = job[worker.job].hours /\ job'[worker.job].status = "running"
      <3> HIDE DEF failed
      <3> QED
        BY <1>1, <1>2, <1>4, <2>2, WorkerShape, SaveStays DEF Stability!Saves, Stability!Begin,
           Stability!Others
    <2>4. known \in SUBSET Stability!Hour /\ failed \in SUBSET Stability!Hour
      BY <2>1, <2>2
    <2>5. /\ worker' \in Stability!Worker /\ worker'.job = worker.job /\ worker'.pc = "loop"
          /\ worker'.known = known /\ worker'.failed = failed /\ worker'.last = worker.last
          /\ worker'.todo = worker.todo /\ worker'.left = worker.left
      <3> HIDE DEF known, failed
      <3> QED BY <1>1, <1>4, <2>4, WorkerShape DEF Stability!Worker
    <2>6. /\ \A h \in known : Known(h)'
          /\ \A h \in job[worker.job].hours \ known : hour'[h].rows # "some"
      BY <1>2, <2>1 DEF Stability!Complete, StabilityInv, HoursAgree, Known, Stability!Begin,
         Stability!Others, RowsStay
    <2>7. WorkerAgrees'
      <3>1. worker.todo = {} /\ worker.left = {} /\ ~worker.last
        BY <1>1, WorkerShape DEF WorkerAgrees
      <3>2. known \subseteq job[worker.job].hours /\ failed \subseteq job[worker.job].hours \ known
        BY <2>1
      <3> HIDE DEF known, failed
      <3> QED BY <2>3, <2>5, <2>6, <3>1, <3>2 DEF WorkerAgrees
    <2> QED BY <1>2, <2>3, <2>5, <2>7, GoKeeps DEF Stability!Begin
  <1> QED BY <1>3, <1>4 DEF Stability!Begin, Stability!Goes, Stability!Mine

\* NextRange: missing hours of the job, or its last pass.
LEMMA NextRangeKeeps ==
  ASSUME StabilityConstants, StabilityInv, Stability!NextRange PROVE StabilityInv'
  <1>1. Works /\ worker.pc = "loop"
    BY DEF Stability!NextRange, Stability!At, Works, JobPlaces
  <1>2. RowsStay /\ UNCHANGED hour /\ Stability!Others
    BY SameStay DEF Stability!NextRange
  <1>3. CASE ~Stability!Ready
    BY <1>1, <1>2, <1>3, LeaveKeeps DEF Stability!NextRange
  <1>4. CASE Stability!Ready
    <2> DEFINE next == Stability!NextHours
               missing == Stability!Missing
    <2>1. /\ worker \in Stability!Worker /\ WorkerAgrees /\ UNCHANGED job
          /\ job' \in JobRows /\ JobsAgree'
          /\ job[worker.job].hours \subseteq Stability!Hour
      BY <1>1, <1>2, <1>4, WorkerShape, JobsStay DEF Stability!NextRange, StabilityInv, JobRows,
         Stability!Others, Stability!JobRow
    <2>2. next \subseteq missing
      BY DEF Stability!NextHours
    <2>3. /\ missing = job[worker.job].hours \ (worker.known \cup worker.failed)
          /\ missing \subseteq Stability!Hour
      BY <2>1 DEF Stability!Missing, Stability!Mine
    <2>4. \A h \in Stability!Hour : Known(h)' <=> Known(h)
      BY <1>2 DEF Known, Stability!Others
    <2>5. CASE worker' = [worker EXCEPT !.pc = "fetch", !.todo = next]
      <3>1. next \in SUBSET Stability!Hour
        BY <2>2, <2>3
      <3>2. /\ worker' \in Stability!Worker /\ worker'.job = worker.job /\ worker'.pc = "fetch"
            /\ worker'.known = worker.known /\ worker'.failed = worker.failed
            /\ worker'.last = worker.last /\ worker'.todo = next /\ worker'.left = worker.left
        <4> HIDE DEF next
        <4> QED BY <2>1, <2>5, <3>1 DEF Stability!Worker
      <3>3. WorkerAgrees'
        <4> HIDE DEF next, missing
        <4> QED BY <1>1, <1>2, <2>1, <2>2, <2>3, <2>4, <3>2 DEF WorkerAgrees
      <3> QED BY <1>2, <2>1, <3>2, <3>3, GoKeeps
    <2>6. CASE /\ missing = {}
               /\ worker' = [worker EXCEPT !.pc = "again", !.last = TRUE, !.left = worker.failed,
                                           !.batch = 1, !.todo = {}, !.had = {}]
      <3>1. /\ worker' \in Stability!Worker /\ worker'.job = worker.job /\ worker'.pc = "again"
            /\ worker'.known = worker.known /\ worker'.failed = worker.failed
            /\ worker'.last = TRUE /\ worker'.todo = {} /\ worker'.left = worker.failed
        BY <2>1, <2>6 DEF Stability!Worker, StabilityConstants
      <3>2. WorkerAgrees'
        BY <1>1, <1>2, <2>1, <2>3, <2>4, <2>6, <3>1 DEF WorkerAgrees
      <3> QED BY <1>2, <2>1, <3>1, <3>2, GoKeeps
    <2>7. \/ worker' = [worker EXCEPT !.pc = "fetch", !.todo = next]
          \/ /\ missing = {}
             /\ worker' = [[worker EXCEPT !.pc = "again", !.last = TRUE, !.left = worker.failed,
                                         !.batch = 1] EXCEPT !.todo = {}, !.had = {}]
      BY <1>4 DEF Stability!NextRange, Stability!Goes, Stability!Turns
    <2>8. [[worker EXCEPT !.pc = "again", !.last = TRUE, !.left = worker.failed,
                          !.batch = 1] EXCEPT !.todo = {}, !.had = {}]
          = [worker EXCEPT !.pc = "again", !.last = TRUE, !.left = worker.failed,
                                           !.batch = 1, !.todo = {}, !.had = {}]
      BY <2>1 DEF Stability!Worker
    <2> HIDE DEF next, missing
    <2> QED BY <2>5, <2>6, <2>7, <2>8
  <1> QED BY <1>3, <1>4

\* Whoever goes on with what it knows, over hours it has not met yet, agrees with its job.
LEMMA MoveKeeps ==
  ASSUME StabilityInv, Works, worker.pc # "run", Stability!Others, UNCHANGED job, RowsStay,
         \A h \in Stability!Hour : hour'[h].rows = hour[h].rows,
         worker' \in Stability!Worker, worker'.job = worker.job, worker'.pc # "run",
         worker'.known = worker.known, worker'.failed = worker.failed, worker'.last = worker.last,
         worker'.todo \subseteq worker.todo \cup worker.left, worker'.left \subseteq worker.left,
         worker'.todo \cap worker'.left = {},
         worker'.pc = "loop" => ~worker.last, worker'.pc = "again" => worker.last,
         worker'.pc = "seal" \/ (worker'.pc = "fetch" /\ worker.last) => worker'.todo # {}
  PROVE  StabilityInv'
  <1>1. WorkerAgrees /\ job' \in JobRows /\ JobsAgree' /\ worker.known \subseteq Stability!Hour
        /\ job[worker.job].hours \subseteq Stability!Hour
    BY WorkerShape, JobsStay DEF StabilityInv, JobRows, Stability!Others, Stability!Worker,
       Stability!JobRow
  <1>2. \A h \in Stability!Hour : Known(h)' <=> Known(h)
    BY DEF Known, Stability!Others
  <1>3. WorkerAgrees'
    BY <1>1, <1>2 DEF WorkerAgrees
  <1> QED BY <1>1, <1>3, GoKeeps

\* A single hour is tried again, or fewer hours are read.
LEMMA LessKeeps ==
  ASSUME StabilityConstants, StabilityInv, Stability!Fetch, Stability!Read \/ Stability!Shrink
                                                            \/ Stability!TryAgain
  PROVE  StabilityInv'
  <1>1. Works /\ worker.pc = "fetch" /\ ~worker.last
    BY DEF Stability!Fetch, Stability!At, Works, JobPlaces
  <1>2. /\ worker \in Stability!Worker /\ WorkerAgrees
        /\ Stability!Others /\ UNCHANGED <<job, hour>> /\ RowsStay
    BY <1>1, WorkerShape, SameStay DEF Stability!Fetch, Stability!Read, Stability!Shrink,
       Stability!TryAgain
  <1>3. worker.todo \cap worker.left = {} /\ worker.todo \in SUBSET Stability!Hour
    BY <1>1, <1>2 DEF WorkerAgrees, Stability!Worker
  <1>4. ASSUME NEW had \in SUBSET worker.todo, worker' = [worker EXCEPT !.pc = "write", !.had = had]
        PROVE  StabilityInv'
    <2>1. had \in SUBSET Stability!Hour
      BY <1>3
    <2>2. /\ worker' \in Stability!Worker /\ worker'.job = worker.job /\ worker'.pc = "write"
          /\ worker'.known = worker.known /\ worker'.failed = worker.failed
          /\ worker'.last = worker.last /\ worker'.todo = worker.todo /\ worker'.left = worker.left
      BY <1>2, <1>4, <2>1 DEF Stability!Worker
    <2> QED BY <1>1, <1>2, <1>3, <2>2, MoveKeeps
  <1>5. CASE Stability!Shrink
    <2> DEFINE less == {b \in Batches : b = 1 \/ b < Stability!Cardinality(worker.todo)}
               next == Stability!Max(less)
    <2>1. next \in Batches
      <3>1. IsFiniteSet(worker.todo) /\ Cardinality(worker.todo) \in Nat
        <4>1. IsFiniteSet(Stability!Hour)
          BY FS_Interval DEF Stability!Hour, StabilityConstants
        <4> QED BY <1>3, <4>1, FS_Subset, FS_CardinalityType
      <3>2. Cardinality(worker.todo) + 1 \in Nat
        BY <3>1
      <3>3. 1 \in less
        BY DEF StabilityConstants
      <3>4. ASSUME NEW b \in less PROVE b \in 0 .. Cardinality(worker.todo) + 1
        BY <3>1, SameCount DEF StabilityConstants
      <3>5. less \in SUBSET (0 .. Cardinality(worker.todo) + 1) /\ less # {}
        <4> HIDE DEF less
        <4> QED BY <3>3, <3>4
      <3>6. next \in less
        <4> HIDE DEF less
        <4> QED BY <3>2, <3>5, MaxIsIn
      <3> QED BY <3>6
    <2>2. worker' = [[worker EXCEPT !.pc = "loop", !.batch = next] EXCEPT !.todo = {}, !.had = {}]
      BY <1>5, Zenon DEF Stability!Shrink, Stability!Turns, Stability!Goes
    <2>3. /\ worker' \in Stability!Worker /\ worker'.job = worker.job /\ worker'.pc = "loop"
          /\ worker'.known = worker.known /\ worker'.failed = worker.failed
          /\ worker'.last = worker.last /\ worker'.todo = {} /\ worker'.left = worker.left
      <3> HIDE DEF next
      <3> QED BY <1>2, <2>1, <2>2 DEF Stability!Worker
    <2> QED BY <1>1, <1>2, <2>3, MoveKeeps
  <1>6. CASE Stability!TryAgain
    <2>1. worker' = [[worker EXCEPT !.pc = "loop", !.tries = @ + 1] EXCEPT !.todo = {}, !.had = {}]
      BY <1>6 DEF Stability!TryAgain, Stability!Turns, Stability!Goes
    <2>2. worker.tries + 1 \in 0 .. MaxAttempts
      BY <1>2, <1>6 DEF Stability!TryAgain, Stability!Worker, StabilityConstants
    <2>3. /\ worker' \in Stability!Worker /\ worker'.job = worker.job /\ worker'.pc = "loop"
          /\ worker'.known = worker.known /\ worker'.failed = worker.failed
          /\ worker'.last = worker.last /\ worker'.todo = {} /\ worker'.left = worker.left
      BY <1>2, <2>1, <2>2 DEF Stability!Worker
    <2> QED BY <1>1, <1>2, <2>3, MoveKeeps
  <1> QED BY <1>4, <1>5, <1>6 DEF Stability!Read, Stability!Goes

\* Isolate: a single hour is given up for now.
LEMMA IsolateKeeps ==
  ASSUME StabilityConstants, StabilityInv, Stability!Fetch, Stability!Isolate PROVE StabilityInv'
  <1> DEFINE h == Stability!Max(worker.todo)
  <1>1. Works /\ worker.pc = "fetch" /\ ~worker.last
    BY DEF Stability!Fetch, Stability!At, Works, JobPlaces
  <1>2. /\ worker \in Stability!Worker /\ WorkerAgrees /\ Stability!Others
        /\ job[worker.job].hours \subseteq Stability!Hour
        /\ job[worker.job].failed \subseteq job[worker.job].hours
        /\ worker.todo \in SUBSET Stability!Hour
    BY <1>1, WorkerShape DEF Stability!Fetch, Stability!Worker, Stability!JobRow, StabilityInv,
       JobsAgree
  <1>3. h \in worker.todo
    <2>1. worker.todo # {}
      <3>1. Cardinality(worker.todo) = 1
        BY SameCount DEF Stability!Isolate
      <3>2. Cardinality({}) = 0
        BY FS_EmptySet
      <3> QED BY <3>1, <3>2
    <2> QED BY <1>2, <2>1, GreatestHour
  <1>4. h \in Stability!Hour /\ h \in job[worker.job].hours \ worker.known /\ hour[h].rows # "some"
    BY <1>1, <1>2, <1>3 DEF WorkerAgrees
  <1> HIDE DEF h
  <1>5. RowsStay /\ \A k \in Stability!Hour : hour'[k].rows = hour[k].rows
    BY <1>4, MarkStays DEF Stability!Isolate, Stability!MayMark, h
  <1>6. CASE Stability!Ends /\ UNCHANGED job
    <2>1. job' \in JobRows /\ JobsAgree'
      BY <1>2, <1>5, <1>6, JobsStay DEF StabilityInv, JobRows, Stability!Others
    <2> QED
      BY <1>2, <1>5, <1>6, <2>1, EndKeeps DEF Stability!Ends, Stability!Others, StabilityInv,
         Stability!TypeOK
  <1>7. ASSUME Stability!Saves("running", job[worker.job].failed \cup {h}, FALSE), NEW b \in Batches,
               worker' = [[worker EXCEPT !.pc = "loop", !.failed = @ \cup {h}, !.tries = 0,
                                         !.batch = b] EXCEPT !.todo = {}, !.had = {}]
        PROVE  StabilityInv'
    <2>1. job[worker.job].failed \cup {h} \in SUBSET job[worker.job].hours
      BY <1>2, <1>4
    <2>2. /\ job' \in JobRows /\ JobsAgree'
          /\ job'[worker.job].hours = job[worker.job].hours /\ job'[worker.job].status = "running"
      BY <1>1, <1>2, <1>5, <1>7, <2>1, WorkerShape, SaveStays DEF Stability!Saves, Stability!Others
    <2>3. /\ worker' \in Stability!Worker /\ worker'.job = worker.job /\ worker'.pc = "loop"
          /\ worker'.known = worker.known /\ worker'.failed = worker.failed \cup {h}
          /\ worker'.last = worker.last /\ worker'.todo = {} /\ worker'.left = worker.left
      <3>1. worker.failed \cup {h} \in SUBSET Stability!Hour /\ 0 \in 0 .. MaxAttempts
        BY <1>2, <1>4 DEF Stability!Worker, StabilityConstants
      <3> QED BY <1>2, <1>7, <3>1 DEF Stability!Worker
    <2>4. \A k \in Stability!Hour : Known(k)' <=> Known(k)
      BY <1>2, <1>5 DEF Known, Stability!Others
    <2>5. worker.known \subseteq Stability!Hour
      BY <1>2 DEF Stability!Worker
    <2>6. WorkerAgrees'
      BY <1>1, <1>2, <1>4, <1>5, <2>2, <2>3, <2>4, <2>5 DEF WorkerAgrees
    <2> QED BY <1>2, <1>5, <2>2, <2>3, <2>6, GoKeeps
  <1> QED BY <1>6, <1>7 DEF Stability!Isolate, Stability!Turns, Stability!Goes, Stability!Mine, h

\* Fetch: the hours are read, or fewer of them next time, or the job waits.
LEMMA FetchKeeps ==
  ASSUME StabilityConstants, StabilityInv, Stability!Fetch PROVE StabilityInv'
  <1>1. ASSUME NEW status \in {"queued", "paused"}, Stability!Leaves(status, FALSE), UNCHANGED hour
        PROVE  StabilityInv'
    <2>1. Works
      BY DEF Stability!Fetch, Stability!At, Works, JobPlaces
    <2> QED BY <1>1, <2>1, SameStay, LeaveKeeps DEF Stability!Fetch
  <1> QED BY <1>1, LessKeeps, IsolateKeeps DEF Stability!Fetch

\* Write: the next hour of the range is opened, or the range is done.
LEMMA WriteKeeps ==
  ASSUME StabilityConstants, StabilityInv, Stability!Write PROVE StabilityInv'
  <1>1. Works /\ worker.pc = "write" /\ Stability!Others
    BY DEF Stability!Write, Stability!At, Works, JobPlaces
  <1>2. /\ worker \in Stability!Worker /\ WorkerAgrees
        /\ worker.todo \in SUBSET Stability!Hour /\ worker.todo \cap worker.left = {}
    BY <1>1, WorkerShape DEF Stability!Worker, WorkerAgrees
  <1>3. ASSUME worker.todo # {}, Stability!Mark(Stability!Max(worker.todo), "running"),
               worker' = [worker EXCEPT !.pc = "seal"], UNCHANGED job
        PROVE  StabilityInv'
    <2>1. Stability!Max(worker.todo) \in worker.todo
      BY <1>2, <1>3, GreatestHour
    <2>2. hour[Stability!Max(worker.todo)].rows # "some"
      BY <1>1, <1>2, <2>1 DEF WorkerAgrees
    <2>3. RowsStay /\ \A k \in Stability!Hour : hour'[k].rows = hour[k].rows
      BY <1>2, <1>3, <2>1, <2>2, MarkStays DEF Stability!MayMark
    <2>4. /\ worker' \in Stability!Worker /\ worker'.job = worker.job /\ worker'.pc = "seal"
          /\ worker'.known = worker.known /\ worker'.failed = worker.failed
          /\ worker'.last = worker.last /\ worker'.todo = worker.todo /\ worker'.left = worker.left
      BY <1>2, <1>3 DEF Stability!Worker
    <2> QED BY <1>1, <1>2, <1>3, <2>3, <2>4, MoveKeeps
  <1>4. CASE Stability!Leaves("paused", FALSE) /\ UNCHANGED hour
    BY <1>1, <1>4, SameStay, LeaveKeeps
  <1>5. ASSUME worker.todo = {}, UNCHANGED <<job, hour>>, NEW pc \in {"again", "loop"},
               pc = "again" <=> worker.last, NEW b \in Batches,
               worker' = [[worker EXCEPT !.pc = pc, !.batch = b] EXCEPT !.todo = {}, !.had = {}]
        PROVE  StabilityInv'
    <2>1. /\ worker' \in Stability!Worker /\ worker'.job = worker.job /\ worker'.pc = pc
          /\ worker'.known = worker.known /\ worker'.failed = worker.failed
          /\ worker'.last = worker.last /\ worker'.todo = {} /\ worker'.left = worker.left
      BY <1>2, <1>5 DEF Stability!Worker
    <2> QED BY <1>1, <1>2, <1>5, <2>1, SameStay, MoveKeeps
  <1>6. ASSUME worker.todo = {}, UNCHANGED <<job, hour>>, worker.last,
               worker' = [[worker EXCEPT !.pc = "again"] EXCEPT !.todo = {}, !.had = {}]
        PROVE  StabilityInv'
    <2>1. /\ worker' \in Stability!Worker /\ worker'.job = worker.job /\ worker'.pc = "again"
          /\ worker'.known = worker.known /\ worker'.failed = worker.failed
          /\ worker'.last = worker.last /\ worker'.todo = {} /\ worker'.left = worker.left
      BY <1>2, <1>6 DEF Stability!Worker
    <2> QED BY <1>1, <1>2, <1>6, <2>1, SameStay, MoveKeeps
  <1>7. CASE worker.todo = {}
    BY <1>3, <1>4, <1>5, <1>6, <1>7 DEF Stability!Write, Stability!Turns, Stability!Goes
  <1>8. CASE worker.todo # {}
    BY <1>3, <1>4, <1>8 DEF Stability!Write, Stability!Goes
  <1> QED BY <1>7, <1>8

\* Seal: the hour is known with its rows, or the job pauses.
LEMMA SealKeeps ==
  ASSUME StabilityConstants, StabilityInv, Stability!Seal PROVE StabilityInv'
  <1> DEFINE h == Stability!Max(worker.todo)
  <1>1. Works /\ worker.pc = "seal" /\ Stability!Others
    BY DEF Stability!Seal, Stability!At, Works, JobPlaces
  <1>2. /\ worker \in Stability!Worker /\ WorkerAgrees /\ worker.todo \in SUBSET Stability!Hour
        /\ job[worker.job].hours \subseteq Stability!Hour
    BY <1>1, WorkerShape DEF Stability!Worker, Stability!JobRow
  <1>3. h \in worker.todo
    BY <1>1, <1>2, GreatestHour DEF WorkerAgrees
  <1>4. h \in Stability!Hour /\ h \in job[worker.job].hours \ worker.known /\ hour[h].rows # "some"
        /\ h \notin worker.left
    BY <1>1, <1>2, <1>3 DEF WorkerAgrees
  <1> HIDE DEF h
  <1>5. ASSUME Stability!SealHour(h), UNCHANGED job,
               worker' = [worker EXCEPT !.pc = "write", !.todo = @ \ {h}, !.known = @ \cup {h},
                                        !.failed = @ \ {h}, !.tries = 0]
        PROVE  StabilityInv'
    <2>1. /\ RowsStay /\ hour'[h].rows # "none"
          /\ \A k \in Stability!Hour : k # h => hour'[k].rows = hour[k].rows
      BY <1>4, <1>5, SealStays
    <2>2. job' \in JobRows /\ JobsAgree'
      BY <1>1, <1>5, <2>1, JobsStay DEF StabilityInv, JobRows, Stability!Others
    <2>3. /\ worker' \in Stability!Worker /\ worker'.job = worker.job /\ worker'.pc = "write"
          /\ worker'.known = worker.known \cup {h} /\ worker'.failed = worker.failed \ {h}
          /\ worker'.last = worker.last /\ worker'.todo = worker.todo \ {h}
          /\ worker'.left = worker.left
      <3>1. /\ worker.known \cup {h} \in SUBSET Stability!Hour
            /\ worker.failed \ {h} \in SUBSET Stability!Hour
            /\ worker.todo \ {h} \in SUBSET Stability!Hour /\ 0 \in 0 .. MaxAttempts
        BY <1>2, <1>4 DEF Stability!Worker, StabilityConstants
      <3> QED BY <1>2, <1>5, <3>1 DEF Stability!Worker
    <2>4. \A k \in worker.known \cup {h} : Known(k)'
      BY <1>1, <1>2, <1>4, <2>1 DEF Known, Stability!Others, WorkerAgrees, Stability!Worker
    <2>5. WorkerAgrees'
      BY <1>1, <1>2, <1>4, <1>5, <2>1, <2>3, <2>4 DEF WorkerAgrees
    <2> QED BY <1>1, <2>1, <2>2, <2>3, <2>5, GoKeeps
  <1>6. ASSUME Stability!MayMark(h, "failed"), NEW stopped \in BOOLEAN,
               Stability!Leaves("paused", stopped)
        PROVE  StabilityInv'
    BY <1>1, <1>4, <1>6, MarkStays, LeaveKeeps
  <1>7. (~Stability!Ready) \in BOOLEAN
    BY DEF Stability!Ready
  <1> QED BY <1>5, <1>6, <1>7 DEF Stability!Seal, Stability!Goes, h

\* Again: an isolated hour is met once more.
LEMMA AgainKeeps ==
  ASSUME StabilityConstants, StabilityInv, Stability!Again PROVE StabilityInv'
  <1> DEFINE h == Stability!Max(worker.left)
  <1>1. /\ Works /\ worker.pc = "again" /\ Stability!Others /\ UNCHANGED <<job, hour>> /\ RowsStay
        /\ worker.left # {}
    BY SameStay DEF Stability!Again, Stability!At, Works, JobPlaces
  <1>2. /\ worker \in Stability!Worker /\ WorkerAgrees /\ worker.left \in SUBSET Stability!Hour
    BY <1>1, WorkerShape DEF Stability!Worker
  <1>3. h \in worker.left
    BY <1>1, <1>2, GreatestHour
  <1>4. worker' = [worker EXCEPT !.pc = "fetch", !.todo = {h}, !.left = @ \ {h}]
    BY DEF Stability!Again, Stability!Goes
  <1> HIDE DEF h
  <1>5. /\ worker' \in Stability!Worker /\ worker'.job = worker.job /\ worker'.pc = "fetch"
        /\ worker'.known = worker.known /\ worker'.failed = worker.failed
        /\ worker'.last = worker.last /\ worker'.todo = {h} /\ worker'.left = worker.left \ {h}
    <2>1. {h} \in SUBSET Stability!Hour /\ worker.left \ {h} \in SUBSET Stability!Hour
      BY <1>2, <1>3
    <2> QED BY <1>2, <1>4, <2>1 DEF Stability!Worker
  <1> QED BY <1>1, <1>2, <1>3, <1>5, MoveKeeps

\* FetchAgain: it is read, or stays failed.
LEMMA FetchAgainKeeps ==
  ASSUME StabilityConstants, StabilityInv, Stability!FetchAgain PROVE StabilityInv'
  <1> DEFINE h == Stability!Max(worker.todo)
  <1>1. Works /\ worker.pc = "fetch" /\ worker.last /\ Stability!Others
    BY DEF Stability!FetchAgain, Stability!At, Works, JobPlaces
  <1>2. /\ worker \in Stability!Worker /\ WorkerAgrees /\ worker.todo \in SUBSET Stability!Hour
        /\ worker.todo \cap worker.left = {}
    BY <1>1, WorkerShape DEF Stability!Worker, WorkerAgrees
  <1>3. h \in worker.todo
    BY <1>1, <1>2, GreatestHour DEF WorkerAgrees
  <1>4. h \in Stability!Hour /\ hour[h].rows # "some"
    BY <1>1, <1>2, <1>3 DEF WorkerAgrees
  <1>5. ASSUME NEW had \in SUBSET worker.todo, UNCHANGED <<job, hour>>,
               worker' = [worker EXCEPT !.pc = "write", !.had = had]
        PROVE  StabilityInv'
    <2>1. had \in SUBSET Stability!Hour
      BY <1>2
    <2>2. /\ worker' \in Stability!Worker /\ worker'.job = worker.job /\ worker'.pc = "write"
          /\ worker'.known = worker.known /\ worker'.failed = worker.failed
          /\ worker'.last = worker.last /\ worker'.todo = worker.todo /\ worker'.left = worker.left
      BY <1>2, <1>5, <2>1 DEF Stability!Worker
    <2> QED BY <1>1, <1>2, <1>5, <2>2, SameStay, MoveKeeps
  <1>6. ASSUME Stability!MayMark(h, "failed"), UNCHANGED job,
               worker' = [[worker EXCEPT !.pc = "again"] EXCEPT !.todo = {}, !.had = {}]
        PROVE  StabilityInv'
    <2>1. /\ worker' \in Stability!Worker /\ worker'.job = worker.job /\ worker'.pc = "again"
          /\ worker'.known = worker.known /\ worker'.failed = worker.failed
          /\ worker'.last = worker.last /\ worker'.todo = {} /\ worker'.left = worker.left
      BY <1>2, <1>6 DEF Stability!Worker
    <2>2. RowsStay /\ \A k \in Stability!Hour : hour'[k].rows = hour[k].rows
      BY <1>4, <1>6, MarkStays
    <2> QED BY <1>1, <1>2, <1>6, <2>1, <2>2, MoveKeeps
  <1>7. CASE Stability!Leaves("queued", FALSE) /\ UNCHANGED hour
    BY <1>1, <1>7, SameStay, LeaveKeeps
  <1> QED
    BY <1>5, <1>6, <1>7 DEF Stability!FetchAgain, Stability!Read, Stability!Turns, Stability!Goes

\* Finish: every hour of the job is known, or listed as failed.
LEMMA FinishKeeps ==
  ASSUME StabilityConstants, StabilityInv, Stability!Finish PROVE StabilityInv'
  <1> DEFINE status == IF worker.failed = {} THEN "complete" ELSE "partial"
             j == worker.job
  <1>1. Works /\ worker.pc = "again" /\ Stability!Others /\ RowsStay /\ UNCHANGED hour
    BY SameStay DEF Stability!Finish, Stability!At, Works, JobPlaces
  <1>2. /\ worker \in Stability!Worker /\ WorkerAgrees /\ j \in Job
        /\ job[j] \in Stability!JobRow /\ job \in JobRows
    BY <1>1, WorkerShape DEF StabilityInv, JobRows
  <1>3. /\ job'[j] = [job[j] EXCEPT !.status = status, !.failed = worker.failed, !.stopped = FALSE]
        /\ \A k \in Job : k # j => job'[k] = job[k]
        /\ job' = [k \in Job |-> job'[k]]
    <2>1. job' = [job EXCEPT ![j].status = status, ![j].failed = worker.failed, ![j].stopped = FALSE]
      BY DEF Stability!Finish, Stability!Saves
    <2> HIDE DEF status, j
    <2> QED BY <1>2, <2>1 DEF JobRows
  <1>4. worker.failed \in SUBSET Stability!Hour /\ status \in {"complete", "partial"}
    BY <1>2 DEF Stability!Worker
  <1>5. /\ job'[j] \in Stability!JobRow /\ job'[j].hours = job[j].hours
        /\ job'[j].status = status /\ job'[j].failed = worker.failed
    <2> DEFINE r == job[j]
    <2>1. r \in Stability!JobRow
      BY <1>2
    <2>2. job'[j] = [r EXCEPT !.status = status, !.failed = worker.failed, !.stopped = FALSE]
      BY <1>3
    <2> HIDE DEF r, status, j
    <2>3. /\ job'[j] \in Stability!JobRow /\ job'[j].hours = r.hours
          /\ job'[j].status = status /\ job'[j].failed = worker.failed
      BY ONLY <2>1, <2>2, <1>4 DEF Stability!JobRow
    <2> QED BY <2>3 DEF r
  <1>6. job' \in JobRows
    BY <1>2, <1>3, <1>5 DEF JobRows
  <1>7. /\ \A h \in job[j].hours \ worker.failed : Known(h)
        /\ worker.failed \subseteq job[j].hours
    BY <1>1, <1>2 DEF WorkerAgrees
  <1>8. JobsAgree'
    <2> SUFFICES ASSUME NEW k \in Job, job'[k] # Stability!NoJob
                 PROVE  /\ job'[k].failed \subseteq job'[k].hours
                        /\ job'[k].status \in {"partial", "complete"} =>
                              \A h \in job'[k].hours \ job'[k].failed : Known(h)'
                        /\ job'[k].status = "complete" => job'[k].failed = {}
      BY DEF JobsAgree
    <2>1. \A h : Known(h)' <=> Known(h)
      BY <1>1 DEF Known, Stability!Others
    <2>2. CASE k = j
      BY <1>5, <1>7, <2>1, <2>2
    <2>3. CASE k # j
      BY <1>3, <2>1, <2>3 DEF StabilityInv, JobsAgree
    <2> QED BY <2>2, <2>3
  <1> QED
    BY <1>1, <1>6, <1>8, EndKeeps DEF Stability!Finish, Stability!Ends, Stability!Others, StabilityInv,
       Stability!TypeOK

-----------------------------------------------------------------------------
(* The repair of one hour, and new jobs.                                    *)

\* A repair touches an hour without traffic only.
LEMMA RepairKeeps ==
  ASSUME StabilityConstants, StabilityInv, Stability!Repair \/ Stability!RepairMarks
                                           \/ Stability!RepairReads \/ Stability!RepairSeals
  PROVE  StabilityInv'
  <1> USE DEF Stability!At, Stability!Goes, Stability!Others
  <1>1. ASSUME RowsStay, \A k \in Stability!Hour : hour'[k].rows = hour[k].rows,
               Stability!Others, UNCHANGED job, worker' \in Stability!Repairer,
               worker'.pc # "settle" => hour[worker'.hour].rows # "some"
        PROVE  StabilityInv'
    <2>1. job' \in JobRows /\ JobsAgree'
      BY <1>1, JobsStay DEF StabilityInv, JobRows
    <2>2. ~Works' /\ worker'.hour \in Stability!Hour
      BY <1>1 DEF Works, JobPlaces, Stability!Repairer
    <2>3. Stability!TypeOK'
      BY <1>1, <2>1 DEF StabilityInv, Stability!TypeOK, RowsStay, HourRows, JobRows
    <2> QED BY <1>1, <2>1, <2>2, <2>3 DEF StabilityInv, RowsStay, JobRows
  <1>2. ASSUME RowsStay, Stability!Others, UNCHANGED job, Stability!Ends PROVE StabilityInv'
    BY <1>2, JobsStay, EndKeeps DEF Stability!Ends, StabilityInv, JobRows, Stability!TypeOK
  <1>3. CASE Stability!Repair
    <2> DEFINE missing == {h \in Stability!Window : ~Stability!Complete(h)}
               h == Stability!Max(missing)
    <2>1. h \in missing
      <3>1. missing \in SUBSET Stability!Hour
        BY DEF Stability!Window
      <3>2. missing # {}
        BY <1>3 DEF Stability!Repair
      <3> HIDE DEF missing
      <3> QED BY <3>1, <3>2, GreatestHour
    <2>2. worker' = [pc |-> "mark", hour |-> h, tries |-> 0, had |-> {}]
      BY <1>3, Zenon DEF Stability!Repair
    <2>3. h \in Stability!Hour /\ hour[h].rows # "some"
      BY <2>1 DEF Stability!Window, Stability!Complete, StabilityInv, HoursAgree
    <2> HIDE DEF h
    <2>4. worker' \in Stability!Repairer /\ worker'.pc = "mark" /\ worker'.hour = h
      BY <2>2, <2>3 DEF Stability!Repairer, StabilityConstants
    <2> QED BY <1>1, <1>3, <2>3, <2>4, SameStay DEF Stability!Repair
  <1>4. ASSUME Repairs
        PROVE  /\ worker \in Stability!Repairer /\ worker.hour \in Stability!Hour
               /\ worker.pc # "settle" => hour[worker.hour].rows # "some"
    BY <1>4 DEF StabilityInv, Stability!TypeOK, Repairs, Stability!Worker, Stability!Repairer,
                Stability!Nobody
  <1>5. CASE Stability!RepairMarks
    <2>1. /\ worker \in Stability!Repairer /\ worker.hour \in Stability!Hour
          /\ hour[worker.hour].rows # "some"
      BY <1>4, <1>5 DEF Stability!RepairMarks, Repairs
    <2>2. worker' \in Stability!Repairer /\ worker'.hour = worker.hour
      BY <1>5, <2>1 DEF Stability!RepairMarks, Stability!Repairer
    <2>3. RowsStay /\ \A k \in Stability!Hour : hour'[k].rows = hour[k].rows
      BY <1>5, <2>1, MarkStays DEF Stability!RepairMarks, Stability!MayMark
    <2> QED BY <1>1, <1>5, <2>1, <2>2, <2>3 DEF Stability!RepairMarks
  <1>6. CASE Stability!RepairReads
    <2>1. /\ worker \in Stability!Repairer /\ worker.hour \in Stability!Hour
          /\ hour[worker.hour].rows # "some"
      BY <1>4, <1>6 DEF Stability!RepairReads, Repairs
    <2>2. ASSUME NEW had \in SUBSET {worker.hour}, UNCHANGED hour,
                 worker' = [worker EXCEPT !.pc = "settle", !.had = had]
          PROVE  StabilityInv'
      <3>1. had \in SUBSET Stability!Hour
        BY <2>1
      <3>2. worker' \in Stability!Repairer /\ worker'.pc = "settle"
        BY <2>1, <2>2, <3>1 DEF Stability!Repairer
      <3> QED BY <1>1, <1>6, <2>2, <3>2, SameStay DEF Stability!RepairReads
    <2>3. ASSUME NEW status \in {"queued", "failed"}, Stability!MayMark(worker.hour, status),
                 Stability!Ends
          PROVE  StabilityInv'
      BY <1>2, <1>6, <2>1, <2>3, MarkStays DEF Stability!RepairReads
    <2>4. ASSUME Stability!Mark(worker.hour, "failed"), worker.tries + 1 < MaxAttempts,
                 worker' = [worker EXCEPT !.pc = "mark", !.tries = @ + 1]
          PROVE  StabilityInv'
      <3>1. worker.tries + 1 \in 0 .. MaxAttempts
        BY <2>1, <2>4 DEF Stability!Repairer, StabilityConstants
      <3>2. worker' \in Stability!Repairer /\ worker'.hour = worker.hour
        BY <2>1, <2>4, <3>1 DEF Stability!Repairer
      <3>3. RowsStay /\ \A k \in Stability!Hour : hour'[k].rows = hour[k].rows
        BY <2>1, <2>4, MarkStays DEF Stability!MayMark
      <3> QED BY <1>1, <1>6, <2>1, <3>2, <3>3 DEF Stability!RepairReads
    <2> QED BY <1>6, <2>2, <2>3, <2>4 DEF Stability!RepairReads, Stability!MayMark
  <1>7. CASE Stability!RepairSeals
    <2>1. worker.hour \in Stability!Hour
      BY <1>4, <1>7 DEF Stability!RepairSeals, Repairs
    <2>2. RowsStay
      BY <1>7, <2>1, SealStays, SameStay DEF Stability!RepairSeals
    <2> QED BY <1>2, <1>7, <2>2 DEF Stability!RepairSeals
  <1> QED BY <1>3, <1>5, <1>6, <1>7

\* A job that is queued takes the worker, or waits for one.
LEMMA TakeKeeps ==
  ASSUME StabilityConstants, StabilityInv, UNCHANGED <<hour, end, minutes>>, NEW j \in Job,
         epoch' \in {"away", "back", "resumed"}, job' \in JobRows, JobsAgree', RowsStay,
         job'[j].status = "queued", Stability!Takes(j)
  PROVE  StabilityInv'
  <1>1. CASE worker' = Stability!Nobody
    BY <1>1, EndKeeps
  <1>2. CASE worker' = Stability!Run(j)
    <2>1. /\ worker' \in Stability!Worker /\ worker'.pc = "run" /\ worker'.job = j
          /\ worker'.todo = {} /\ worker'.left = {} /\ worker'.last = FALSE
      BY <1>2 DEF Stability!Run, Stability!Worker, StabilityConstants
    <2>2. WorkerAgrees' /\ ~Repairs'
      BY <2>1 DEF WorkerAgrees, Repairs
    <2>3. Stability!TypeOK'
      BY <2>1 DEF StabilityInv, Stability!TypeOK, RowsStay, HourRows, JobRows
    <2> QED BY <2>2, <2>3 DEF StabilityInv, RowsStay, JobRows
  <1> QED BY <1>1, <1>2 DEF Stability!Takes

\* A new job is queued over hours that are final.
LEMMA NewJobKeeps ==
  ASSUME StabilityConstants, StabilityInv, UNCHANGED <<hour, end, minutes>>,
         epoch' \in {"away", "back", "resumed"},
         NEW kind \in {"manual", "migration"}, NEW hours \in SUBSET Stability!Hour,
         Stability!NewJob(kind, hours)
  PROVE  StabilityInv'
  <1>1. RowsStay
    BY SameStay
  <1>2. PICK j \in Job :
          /\ job' = [job EXCEPT ![j] = [status |-> "queued", kind |-> kind, hours |-> hours,
                                        failed |-> {}, stopped |-> FALSE]]
          /\ Stability!Takes(j)
    BY DEF Stability!NewJob
  <1> DEFINE row == [status |-> "queued", kind |-> kind, hours |-> hours, failed |-> {},
                     stopped |-> FALSE]
  <1>3. row \in Stability!JobRow /\ row.failed = {} /\ row.status = "queued"
    BY DEF Stability!JobRow
  <1>4. job'[j] = row /\ \A k \in Job : k # j => job'[k] = job[k]
    BY <1>2 DEF StabilityInv
  <1>5. job' \in JobRows
    BY <1>2, <1>3 DEF StabilityInv, JobRows
  <1> HIDE DEF row
  <1>6. JobsAgree'
    BY <1>1, <1>3, <1>4 DEF StabilityInv, JobsAgree, Known
  <1> QED BY <1>1, <1>2, <1>3, <1>4, <1>5, <1>6, TakeKeeps

\* By hand, with the source, or again: the job is queued with no other beside it.
LEMMA QueueKeeps ==
  ASSUME StabilityConstants, StabilityInv,
         Stability!Start \/ Stability!Resume \/ \E j \in Job : Stability!Retry(j)
  PROVE  StabilityInv'
  <1>1. Stability!Window \in SUBSET Stability!Hour /\ epoch \in {"away", "back", "resumed"}
        /\ RowsStay
    BY SameStay DEF Stability!Window, StabilityInv, Stability!TypeOK, Stability!Start,
       Stability!Resume,
       Stability!Retry
  <1>2. CASE Stability!Start
    <2>1. PICK n \in 1 .. Retained :
             Stability!NewJob("manual", {h \in Stability!Window : h + n >= end})
      BY <1>2 DEF Stability!Start
    <2>2. {h \in Stability!Window : h + n >= end} \in SUBSET Stability!Hour
      BY <1>1
    <2> QED BY <1>1, <1>2, <2>1, <2>2, NewJobKeeps DEF Stability!Start
  <1>3. ASSUME Stability!Idle, UNCHANGED <<hour, end, minutes>>, NEW j \in Job,
               job[j] # Stability!NoJob,
               epoch' \in {"away", "back", "resumed"}, Stability!Takes(j),
               NEW failed \in SUBSET job[j].hours, NEW stopped \in BOOLEAN,
               job' = [job EXCEPT ![j].status = "queued", ![j].failed = failed,
                                  ![j].stopped = stopped]
        PROVE  StabilityInv'
    BY <1>1, <1>3, SaveStays, TakeKeeps
  <1>4. ASSUME NEW j \in Job, Stability!Retry(j) PROVE StabilityInv'
    <2>1. job[j] # Stability!NoJob
      <3>1. job[j].status \in {"partial", "paused"}
        BY <1>4 DEF Stability!Retry
      <3>2. Stability!NoJob.status = "none"
        BY DEF Stability!NoJob
      <3> QED BY <3>1, <3>2
    <2> QED BY <1>1, <1>3, <1>4, <2>1 DEF Stability!Retry
  <1>5. ASSUME Stability!Resume, Stability!Idle, NEW j \in Job, Stability!Resumable(j),
               job' = [job EXCEPT ![j].status = "queued"], Stability!Takes(j)
        PROVE  StabilityInv'
    <2>1. job[j] # Stability!NoJob
      <3>1. job[j].status \in {"queued", "running", "paused"}
        BY <1>5 DEF Stability!Resumable
      <3>2. Stability!NoJob.status = "none"
        BY DEF Stability!NoJob
      <3> QED BY <3>1, <3>2
    <2>2. job[j] \in Stability!JobRow /\ job \in JobRows
          /\ job[j].failed \in SUBSET job[j].hours /\ job[j].stopped \in BOOLEAN
      BY <2>1 DEF StabilityInv, JobsAgree, JobRows, Stability!JobRow
    <2>3. job' = [job EXCEPT ![j].status = "queued", ![j].failed = job[j].failed,
                             ![j].stopped = job[j].stopped]
      <3>1. [job[j] EXCEPT !.status = "queued"]
            = [job[j] EXCEPT !.status = "queued", !.failed = job[j].failed,
                             !.stopped = job[j].stopped]
        BY <2>2 DEF Stability!JobRow
      <3> QED BY <1>5, <2>2, <3>1 DEF JobRows
    <2> QED BY <1>1, <1>3, <1>5, <2>1, <2>2, <2>3 DEF Stability!Resume
  <1>6. CASE Stability!Resume
    <2>1. CASE Stability!NewJob("migration", Stability!Window)
      BY <1>1, <1>6, <2>1, NewJobKeeps DEF Stability!Resume
    <2>2. CASE UNCHANGED <<job, worker>>
      <3>1. Stability!TypeOK' /\ HoursAgree' /\ JobsAgree' /\ job' \in JobRows
        BY <1>1, <1>6, <2>2, JobsStay DEF Stability!Resume, StabilityInv, Stability!TypeOK, RowsStay,
           JobRows
      <3>2. /\ (Works => WorkerAgrees)'
            /\ (Repairs => (worker.pc # "settle" => hour[worker.hour].rows # "some"))'
        BY <1>6, <2>2 DEF Stability!Resume, StabilityInv, Works, Repairs, WorkerAgrees, Known
      <3> QED BY <3>1, <3>2 DEF StabilityInv, JobRows
    <2> QED BY <1>5, <1>6, <2>1, <2>2 DEF Stability!Resume
  <1> QED BY <1>2, <1>4, <1>6

\* The environment: the clock, the source, the minute facts, and what the retention deletes.
LEMMA WorldKeeps ==
  ASSUME StabilityConstants, StabilityInv,
         \/ Stability!SourceReturns \/ Stability!SourceLeaves \/ Stability!HourFinal
         \/ \E h \in Busy : Stability!MinuteFacts(h)
         \/ UNCHANGED Stability!vars
  PROVE  StabilityInv'
  <1>1. /\ UNCHANGED <<hour, job, worker>> /\ end' \in First .. Last /\ end' >= end /\ end \in Int
        /\ minutes' \subseteq Busy /\ epoch' \in {"away", "back", "resumed"}
    BY DEF StabilityConstants, StabilityInv, Stability!TypeOK, Stability!SourceReturns,
       Stability!SourceLeaves, Stability!HourFinal, Stability!MinuteFacts, Stability!vars
  <1>2. \A h \in Stability!Hour : Known(h) => Known(h)'
    <2>1. end' \in Int /\ Retained \in Int /\ Stability!Hour \subseteq Int
      BY <1>1 DEF Stability!Hour, StabilityConstants
    <2>2. end' >= end /\ end \in Int
      BY <1>1
    <2>3. \A h \in Int : h < end - Retained => h < end' - Retained
      <3>1. \A x, y, z, h \in Int : y >= x /\ h < x - z => h < y - z
        OBVIOUS
      <3> QED BY ONLY <2>1, <2>2, <3>1
    <2> QED BY <1>1, <2>1, <2>3 DEF Known
  <1>3. Stability!TypeOK' /\ HoursAgree' /\ (job \in [Job -> Stability!JobRow \cup {Stability!NoJob}])'
    BY <1>1 DEF StabilityInv, Stability!TypeOK, HoursAgree
  <1>4. JobsAgree'
    BY <1>1, <1>2 DEF StabilityInv, JobsAgree, Stability!JobRow
  <1>5. Works => WorkerAgrees'
    <2> SUFFICES ASSUME Works PROVE WorkerAgrees'
      OBVIOUS
    <2>1. WorkerAgrees /\ worker.known \subseteq Stability!Hour
      BY WorkerShape DEF Stability!Worker
    <2> QED BY <1>1, <1>2, <2>1 DEF WorkerAgrees
  <1> QED BY <1>1, <1>3, <1>4, <1>5 DEF StabilityInv, Works, Repairs

\* Prune: what is deleted is no longer asked for.
LEMMA PruneKeeps ==
  ASSUME StabilityConstants, StabilityInv, Stability!Prune PROVE StabilityInv'
  <1>1. /\ \A h \in Stability!Hour :
              hour'[h] = hour[h] \/ (hour'[h] = Stability!Unknown /\ h < end - Retained)
        /\ hour' \in HourRows
    BY DEF Stability!Prune, Stability!Cutoff, StabilityInv, Stability!TypeOK, HourRows,
       Stability!Unknown
  <1>2. /\ \A j \in Job : job'[j] = job[j] \/ (job'[j] = Stability!NoJob /\ job[j].status = "complete")
        /\ job' \in JobRows
    BY DEF Stability!Prune, StabilityInv, JobRows
  <1>3. UNCHANGED <<end, minutes, worker, epoch>>
    BY DEF Stability!Prune
  <1>4. HoursAgree'
    BY <1>1 DEF HoursAgree, StabilityInv, Stability!Unknown
  <1>5. \A h \in Stability!Hour : Known(h) => Known(h)'
    BY <1>1, <1>3 DEF Known
  <1>6. JobsAgree'
    BY <1>2, <1>5 DEF StabilityInv, JobsAgree, Stability!JobRow
  <1>7. \A h \in Stability!Hour : hour[h].rows # "some" => hour'[h].rows # "some"
    BY <1>1 DEF Stability!Unknown
  <1>8. Works => WorkerAgrees'
    <2> SUFFICES ASSUME Works PROVE WorkerAgrees'
      OBVIOUS
    <2>1. /\ WorkerAgrees /\ worker.known \subseteq Stability!Hour /\ worker.job \in Job
          /\ job[worker.job].hours \subseteq Stability!Hour
      BY WorkerShape DEF Stability!Worker, Stability!JobRow
    <2>2. job'[worker.job] = job[worker.job]
      BY <1>2, <2>1 DEF WorkerAgrees
    <2> QED BY <1>3, <1>5, <1>7, <2>1, <2>2 DEF WorkerAgrees
  <1>9. Repairs => (worker.pc # "settle" => hour'[worker.hour].rows # "some")
    BY <1>7 DEF StabilityInv, Repairs, Stability!TypeOK, Stability!Worker, Stability!Repairer,
       Stability!Nobody
  <1>10. Stability!TypeOK'
    BY <1>1, <1>2, <1>3 DEF StabilityInv, Stability!TypeOK, HourRows, JobRows
  <1> QED BY <1>2, <1>3, <1>4, <1>6, <1>8, <1>9, <1>10 DEF StabilityInv, Works, Repairs, JobRows

\* Every step keeps the invariant.
LEMMA StabilityStep ==
  StabilityConstants => (StabilityInv /\ [Stability!Next]_(Stability!vars) => StabilityInv')
  <1> SUFFICES ASSUME StabilityConstants, StabilityInv, [Stability!Next]_(Stability!vars)
               PROVE  StabilityInv'
    OBVIOUS
  <1>1. CASE Stability!Breaks
    BY <1>1, SameStay, JobsStay, EndKeeps DEF Stability!Breaks, Stability!Ends, StabilityInv, JobRows,
       Stability!TypeOK
  <1> QED
    BY <1>1, QueueKeeps, BeginKeeps, NextRangeKeeps, FetchKeeps, WriteKeeps, SealKeeps, AgainKeeps,
       FetchAgainKeeps, FinishKeeps, RepairKeeps, WorldKeeps, PruneKeeps DEF Stability!Next

\* A job that has ended accounts for every hour of its range (runStabilityBackfill).
THEOREM HoursAlwaysAccounted ==
  StabilityConstants => (Stability!Spec => [](Stability!TypeOK /\ Stability!HoursAccounted))
  <1> SUFFICES ASSUME StabilityConstants
               PROVE  Stability!Spec => [](Stability!TypeOK /\ Stability!HoursAccounted)
    OBVIOUS
  <1>1. Stability!Init => StabilityInv
    BY StabilityFirst
  <1>2. StabilityInv /\ [Stability!Next]_(Stability!vars) => StabilityInv'
    BY StabilityStep
  <1> QED BY <1>1, <1>2, StabilityImplies, PTL DEF Stability!Spec

-----------------------------------------------------------------------------
(* The metric watermarks: what a row covers was read when it was final.     *)

CONSTANTS HourLen, Delay, Slice, Overlap, Migrated, Lookback, Retention, HourRetention, MaxHours,
          Followed, FirstMinute, LastMinute

VARIABLES now, fact, hours, mark, loop, fill

\* A multiple has a factor.
LEMMA Factor == ASSUME NEW a \in Int, NEW H \in Nat \ {0}, a % H = 0 PROVE \E k \in Int : a = k * H
  <1>1. a = H * (a \div H) + (a % H) /\ a \div H \in Int
    OBVIOUS
  <1>2. H * (a \div H) = (a \div H) * H
    BY <1>1
  <1> QED BY <1>1, <1>2

\* A product is a multiple.
LEMMA Multiple == ASSUME NEW H \in Nat \ {0}, NEW k \in Int PROVE (k * H) % H = 0
  OBVIOUS

\* A multiple and a product are a multiple.
LEMMA Sums ==
  ASSUME NEW a \in Int, NEW H \in Nat \ {0}, a % H = 0, NEW n \in Int
  PROVE  (a + n * H) % H = 0
  <1>1. PICK k \in Int : a = k * H
    BY Factor
  <1>2. a + n * H = (k + n) * H
    BY <1>1
  <1> QED BY <1>2, Multiple

\* Two multiples lie at least one step apart.
LEMMA Apart ==
  ASSUME NEW a \in Int, NEW b \in Int, NEW H \in Nat \ {0}, a % H = 0, b % H = 0, a < b
  PROVE  a + H <= b
  <1>1. PICK k \in Int : a = k * H
    BY Factor
  <1>2. PICK l \in Int : b = l * H
    BY Factor
  <1>3. k < l
    BY <1>1, <1>2
  <1>4. (k + 1) * H <= l * H
    BY <1>3
  <1> QED BY <1>1, <1>2, <1>4

\* What is cut down to a multiple is one.
LEMMA Rounded ==
  ASSUME NEW t \in Nat, NEW H \in Nat \ {0}
  PROVE  t - (t % H) \in 0 .. t /\ (t - (t % H)) % H = 0
  <1>1. t = H * (t \div H) + (t % H) /\ t \div H \in Int /\ t % H \in 0 .. H - 1 /\ t % H <= t
    OBVIOUS
  <1>2. t - (t % H) = (t \div H) * H
    BY <1>1
  <1>3. t - (t % H) \in 0 .. t
    BY <1>1
  <1>4. ((t \div H) * H) % H = 0
    BY <1>1, Multiple
  <1> QED BY <1>2, <1>3, <1>4

-----------------------------------------------------------------------------
Marks == INSTANCE MetricWatermarks WITH First <- FirstMinute, Last <- LastMinute, hour <- hours

\* The clock begins after what a new row looks back to.
MarksConstants ==
    /\ HourLen \in Nat \ {0} /\ FirstMinute \in Nat /\ LastMinute \in Nat
    /\ Delay \in Nat /\ Slice \in Nat /\ Overlap \in Nat /\ Migrated \in Nat /\ Lookback \in Nat
    /\ Retention \in Nat /\ MaxHours \in Nat
    /\ FirstMinute <= LastMinute
    /\ Delay + Overlap <= FirstMinute /\ Delay + Migrated <= FirstMinute

\* The minutes from one to another that are still kept aside were read when they were final.
ReadWhole(from, to) ==
    \A m \in Marks!Minute : from <= m /\ m < to /\ m >= Marks!Cutoff(now) => fact[m] = "final"

\* A minute is whole only if it was final, and of the older rule only if the store had it at first.
FactsAgree ==
    \A m \in Marks!Minute :
       /\ Marks!Whole(fact, m) => m < Marks!Target(now)
       /\ fact[m] = "legacy" => m < Marks!Target(FirstMinute)

\* The FRT of the slice continues what the turn knew of it.
Continues == loop.row.frtCurrent /\ loop.row.frtFrom > 0 /\ loop.row.frtFrom <= loop.from
             /\ loop.row.frtThrough = loop.from

\* A turn that comes to its cursor has read its slice, and, if FRT continues, has seen no fact of
\* the older rule below it.
LoopAgrees ==
    /\ loop.pc \in {"advance", "replayed"} => ReadWhole(loop.from, loop.to)
    /\ loop.pc \in {"advance", "replay", "replayed"} => mark # Marks!NoRow
    /\ loop.pc = "advance" =>
          /\ mark.current /\ mark.frtCurrent
          /\ loop.row \in Marks!Row /\ loop.row.target <= Marks!Target(now)
          /\ Continues => \A m \in Marks!Minute :
                             m >= Marks!Cutoff(now) /\ m < loop.from => fact[m] # "legacy"

FillRow == [pc : {"read", "roll", "tail", "load", "publish"}, from : Nat, at : Marks!Hour,
            until : Nat, time : Nat, failed : BOOLEAN]

\* A backfill without a failure has read the hours behind it, and at last its tail.
FillAgrees ==
    fill.pc # "none" =>
       /\ fill \in FillRow
       /\ fill.time \in FirstMinute .. now
       /\ fill.from \in Nat /\ fill.until \in Nat /\ fill.until <= Marks!Target(fill.time)
       /\ fill.until % HourLen = 0
       /\ fill.pc \in {"read", "roll"} => fill.at < fill.until
       /\ fill.pc = "tail" => fill.at = fill.until
       /\ fill.pc \in {"load", "publish"} =>
             ~fill.failed /\ ReadWhole(fill.from, Marks!Target(fill.time))
       /\ ~fill.failed =>
             ReadWhole(fill.from, fill.at + (IF fill.pc = "roll" THEN HourLen ELSE 0))
       /\ fill.pc = "publish" => mark # Marks!NoRow

MarksInv ==
    /\ Marks!TypeOK /\ FactsAgree /\ LoopAgrees /\ FillAgrees
    /\ mark # Marks!NoRow => mark.target <= Marks!Target(now)
    /\ Marks!CoverageIsHeld

-----------------------------------------------------------------------------
(* The clock and the facts.                                                 *)

\* What is final or given up at a time stays so.
LEMMA Edges ==
  ASSUME MarksConstants, NEW t \in FirstMinute .. LastMinute, NEW u \in FirstMinute .. LastMinute,
     t <= u
  PROVE  /\ Marks!Target(t) \in Nat /\ Marks!Target(t) <= Marks!Target(u)
         /\ Marks!Cutoff(t) \in Nat /\ Marks!Cutoff(t) <= Marks!Cutoff(u)
         /\ Marks!Cutoff(t) <= Marks!Target(t) /\ Marks!Target(t) <= t
  BY DEF MarksConstants, Marks!Target, Marks!Cutoff, Marks!Larger

\* Facts that take the place of the present ones: of those that are still asked for none is lost.
Stays(f) ==
    /\ f \in [Marks!Minute -> Marks!Kinds]
    /\ \A m \in Marks!Minute :
          /\ m >= Marks!Cutoff(now) /\ Marks!Whole(fact, m) => Marks!Whole(f, m)
          /\ m >= Marks!Cutoff(now) /\ fact[m] = "final" => f[m] = "final"
          /\ Marks!Whole(f, m) => m < Marks!Target(now)
          /\ f[m] = "legacy" => fact[m] = "legacy"

\* Facts that do not change keep what is final or given up.
LEMMA SameFacts == ASSUME MarksInv PROVE Stays(fact)
  BY DEF MarksInv, Marks!TypeOK, FactsAgree, Stays

\* sampleRange: what was final is final when it is read again.
LEMMA ReadStays ==
  ASSUME MarksConstants, MarksInv, NEW lo \in Int, NEW hi \in Int
  PROVE  /\ Stays(Marks!Read(lo, hi))
         /\ \A m \in Marks!Minute : lo <= m /\ m < hi /\ m < Marks!Target(now) =>
               Marks!Read(lo, hi)[m] = "final"
  <1> DEFINE f == Marks!Read(lo, hi)
  <1>1. f \in [Marks!Minute -> Marks!Kinds]
    BY DEF MarksInv, Marks!TypeOK, Marks!Read, Marks!Kinds
  <1>2. Marks!Minute \subseteq Int /\ Marks!Target(now) \in Int /\ Marks!Cutoff(now) \in Int
    <2>1. now \in FirstMinute .. LastMinute /\ now <= now
      BY DEF MarksConstants, MarksInv, Marks!TypeOK
    <2> QED BY <2>1, Edges DEF Marks!Minute
  <1>3. \A m \in Marks!Minute :
           f[m] = IF m < lo \/ m >= hi THEN fact[m]
                  ELSE IF m < Marks!Target(now) THEN "final" ELSE "live"
    BY DEF Marks!Read
  <1> HIDE DEF f
  <1>4. ASSUME NEW m \in Marks!Minute
        PROVE  /\ Marks!Whole(fact, m) => Marks!Whole(f, m)
               /\ fact[m] = "final" => f[m] = "final"
               /\ Marks!Whole(f, m) => m < Marks!Target(now)
               /\ f[m] = "legacy" => fact[m] = "legacy"
               /\ lo <= m /\ m < hi /\ m < Marks!Target(now) => f[m] = "final"
    <2>1. Marks!Whole(fact, m) => m < Marks!Target(now)
      BY DEF MarksInv, FactsAgree
    <2>2. CASE m < lo \/ m >= hi
      <3>1. f[m] = fact[m]
        BY <1>3, <2>2
      <3> QED BY <1>2, <2>1, <2>2, <3>1 DEF Marks!Whole
    <2>3. CASE ~(m < lo \/ m >= hi) /\ m < Marks!Target(now)
      <3>1. f[m] = "final"
        BY <1>3, <2>3
      <3> QED BY <1>2, <2>3, <3>1 DEF Marks!Whole
    <2>4. CASE ~(m < lo \/ m >= hi) /\ ~(m < Marks!Target(now))
      <3>1. f[m] = "live"
        BY <1>3, <2>4
      <3>2. ~Marks!Whole(f, m) /\ ~Marks!Whole(fact, m)
        BY <2>1, <2>4, <3>1 DEF Marks!Whole
      <3> QED BY <2>4, <3>1, <3>2 DEF Marks!Whole
    <2> QED BY <2>2, <2>3, <2>4
  <1>5. Stays(f)
    BY <1>1, <1>4 DEF Stays
  <1> QED BY <1>4, <1>5 DEF f

\* pruneOlderThan: only what no one asks for is deleted.
LEMMA DropStays ==
  ASSUME MarksConstants, MarksInv, NEW t \in FirstMinute .. now
  PROVE  Stays(Marks!Drop(Marks!Cutoff(t)))
  <1>1. Marks!Cutoff(t) <= Marks!Cutoff(now) /\ Marks!Cutoff(t) \in Nat /\ Marks!Cutoff(now) \in Nat
    <2>1. t \in FirstMinute .. LastMinute /\ now \in FirstMinute .. LastMinute /\ t <= now
      BY DEF MarksConstants, MarksInv, Marks!TypeOK
    <2> QED BY <2>1, Edges
  <1>2. Marks!Minute \subseteq Int
    BY DEF Marks!Minute
  <1> QED
    BY <1>1, <1>2 DEF MarksInv, Marks!TypeOK, FactsAgree, Stays, Marks!Drop, Marks!Whole, Marks!Kinds

\* What the row of some minutes says of some facts.
Holds(r, f) ==
    \A m \in Marks!Minute :
       m >= Marks!Cutoff(now) /\ r.current /\ r.from <= m /\ m < r.next =>
          /\ Marks!Whole(f, m)
          /\ r.frtCurrent /\ r.frtFrom > 0 /\ r.frtFrom <= m /\ m < r.frtThrough => f[m] = "final"

\* What the runs check of the row says that the row holds (metricWindowCoverage).
LEMMA CoverageIsHolding == mark # Marks!NoRow => (Marks!CoverageIsHeld <=> Holds(mark, fact))
  BY DEF Marks!CoverageIsHeld, Holds, Marks!Requests, Marks!Frt

\* A row holds over facts of which none that is final is lost.
LEMMA HoldingStays == ASSUME NEW r, NEW f, Holds(r, fact), Stays(f) PROVE Holds(r, f)
  BY DEF Holds, Stays

-----------------------------------------------------------------------------
(* The row is loaded, renewed and saved.                                    *)

\* loadOrExtendMetricFinalizeState: what must be read anew is covered no more; and when FRT is
\* known up to the cursor, no fact of the older rule lies below it.
LEMMA LoadedHolds ==
  ASSUME MarksConstants, MarksInv, NEW t \in FirstMinute .. now
  PROVE  LET r == Marks!Loaded(t) IN
         /\ r \in Marks!Row /\ r.current /\ r.frtCurrent /\ r.target <= Marks!Target(now)
         /\ Holds(r, fact)
         /\ \A m \in Marks!Minute :
               m >= Marks!Cutoff(now) /\ m < r.frtThrough => fact[m] # "legacy"
  <1> DEFINE r0 == IF mark = Marks!NoRow THEN Marks!NewRow(t) ELSE mark
             r1 == Marks!Reclassified(r0, t)
             r2 == Marks!FrtReset(r1, t)
             r3 == Marks!HoursReset(r2, t)
             r4 == [r3 EXCEPT !.target = Marks!Larger(@, Marks!Target(t))]
  <1>1. /\ t \in FirstMinute .. LastMinute /\ now \in FirstMinute .. LastMinute /\ t <= now
        /\ FirstMinute \in FirstMinute .. LastMinute /\ FirstMinute <= t
        /\ FirstMinute \in Nat /\ LastMinute \in Nat
    BY DEF MarksConstants, MarksInv, Marks!TypeOK
  <1>2. /\ Marks!Target(t) \in Nat /\ Marks!Target(now) \in Nat /\ Marks!Target(t) <= Marks!Target(now)
        /\ Marks!Cutoff(t) \in Nat /\ Marks!Cutoff(now) \in Nat /\ Marks!Cutoff(t) <= Marks!Cutoff(now)
        /\ Marks!Target(FirstMinute) \in Nat /\ Marks!Target(FirstMinute) <= Marks!Target(t)
    BY <1>1, Edges
  <1>3. Marks!StartAt(t) \in Nat
    BY <1>1 DEF Marks!StartAt, Marks!Target, MarksConstants
  <1>4. Marks!HourStart(t) \in Nat
    <2>1. Marks!StartAt(t) + HourLen - 1 \in Nat /\ HourLen \in Nat \ {0}
      BY <1>3 DEF MarksConstants
    <2> QED BY <2>1, Rounded DEF Marks!HourStart, Marks!FloorHour
  <1>5. /\ r0 \in Marks!Row /\ Holds(r0, fact) /\ r0.target <= Marks!Target(now)
    <2>1. CASE mark = Marks!NoRow
      <3>1. /\ Marks!NewRow(t) \in Marks!Row /\ Marks!NewRow(t).from = Marks!NewRow(t).next
            /\ Marks!NewRow(t).target = Marks!Target(t)
        BY <1>2, <1>3, <1>4 DEF Marks!NewRow, Marks!Row
      <3>2. Holds(Marks!NewRow(t), fact)
        BY <3>1 DEF Holds, Marks!Minute, Marks!Row
      <3> QED BY <1>2, <2>1, <3>1, <3>2
    <2>2. CASE mark # Marks!NoRow
      BY <2>2, CoverageIsHolding DEF MarksInv, Marks!TypeOK
    <2> QED BY <2>1, <2>2
  <1> HIDE DEF r0
  <1>6. r1 \in Marks!Row /\ r1.current /\ Holds(r1, fact) /\ r1.target <= Marks!Target(now)
    <2>1. CASE r0.current
      BY <1>5, <2>1 DEF Marks!Reclassified
    <2>2. CASE ~r0.current
      <3>1. r1 = [r0 EXCEPT !.next = Marks!StartAt(t), !.from = Marks!StartAt(t),
                            !.target = Marks!Target(t), !.current = TRUE]
        BY <2>2 DEF Marks!Reclassified
      <3>2. /\ r1 \in Marks!Row /\ r1.current /\ r1.from = r1.next /\ r1.target = Marks!Target(t)
        BY <1>2, <1>3, <1>5, <3>1 DEF Marks!Row
      <3>3. Holds(r1, fact)
        BY <3>2 DEF Holds, Marks!Minute, Marks!Row
      <3> QED BY <1>2, <3>2, <3>3
    <2> QED BY <2>1, <2>2
  <1> HIDE DEF r1
  <1>7. /\ r2 \in Marks!Row /\ r2.current /\ r2.frtCurrent /\ Holds(r2, fact)
        /\ r2.target <= Marks!Target(now)
        /\ \A m \in Marks!Minute :
              m >= Marks!Cutoff(now) /\ m < r2.frtThrough => fact[m] # "legacy"
    <2>1. CASE Marks!Outdated(r1, t)
      <3>1. r2 = [r1 EXCEPT !.frtCurrent = TRUE, !.frtFrom = Marks!Cutoff(t),
               !.frtThrough = Marks!Cutoff(t)]
        BY <2>1 DEF Marks!FrtReset
      <3>2. /\ r2 \in Marks!Row /\ r2.current /\ r2.frtCurrent /\ r2.frtThrough = Marks!Cutoff(t)
            /\ r2.frtFrom = Marks!Cutoff(t) /\ r2.from = r1.from /\ r2.next = r1.next
            /\ r2.target = r1.target
        BY <1>2, <1>6, <3>1 DEF Marks!Row
      <3>3. Holds(r2, fact)
        BY <1>2, <1>6, <3>2 DEF Holds, Marks!Minute, Marks!Row
      <3>4. \A m \in Marks!Minute : ~(m >= Marks!Cutoff(now) /\ m < r2.frtThrough)
        BY <1>2, <3>2 DEF Marks!Minute
      <3> QED BY <1>6, <3>2, <3>3, <3>4
    <2>2. CASE ~Marks!Outdated(r1, t)
      <3>1. r2 = r1 /\ r2.frtCurrent
        BY <2>2 DEF Marks!FrtReset, Marks!Outdated
      <3>2. ASSUME NEW m \in Marks!Minute, m >= Marks!Cutoff(now), m < r2.frtThrough
            PROVE  fact[m] # "legacy"
        <4>1. SUFFICES ASSUME fact[m] = "legacy" PROVE FALSE
          OBVIOUS
        <4>2. m \in Nat /\ r1.frtThrough \in Nat
          BY <1>6 DEF Marks!Minute, Marks!Row
        <4>3. m < Marks!Target(t) /\ m >= Marks!Cutoff(t)
          <5>1. m < Marks!Target(FirstMinute)
            BY <4>1 DEF MarksInv, FactsAgree
          <5> QED BY <1>2, <3>2, <4>2, <5>1
        <4>4. Marks!Legacy(Marks!Cutoff(t), Marks!Target(t))
          BY <1>2, <4>1, <4>2, <4>3 DEF Marks!Legacy
        <4>5. Marks!Legacy(Marks!Cutoff(t), Marks!Smaller(Marks!Target(t), r1.frtThrough))
          <5>1. m < Marks!Smaller(Marks!Target(t), r1.frtThrough)
            BY <3>1, <3>2, <4>3 DEF Marks!Smaller
          <5>2. Marks!Smaller(Marks!Target(t), r1.frtThrough) \in Nat
            BY <1>2, <4>2 DEF Marks!Smaller
          <5> QED BY <1>2, <4>1, <4>2, <4>3, <5>1, <5>2 DEF Marks!Legacy
        <4> QED BY <2>2, <4>4, <4>5 DEF Marks!Outdated
      <3> QED BY <1>6, <3>1, <3>2
    <2> QED BY <2>1, <2>2
  <1> HIDE DEF r2
  <1>8. /\ r3 \in Marks!Row /\ r3.current /\ r3.frtCurrent /\ r3.target <= Marks!Target(now)
        /\ r3.from = r2.from /\ r3.next = r2.next
        /\ r3.frtFrom = r2.frtFrom /\ r3.frtThrough = r2.frtThrough
    BY <1>4, <1>7 DEF Marks!HoursReset, Marks!Row
  <1> HIDE DEF r3
  <1>9. /\ r4 \in Marks!Row /\ r4.current /\ r4.frtCurrent /\ r4.target <= Marks!Target(now)
        /\ r4.from = r2.from /\ r4.next = r2.next
        /\ r4.frtFrom = r2.frtFrom /\ r4.frtThrough = r2.frtThrough
    <2>1. Marks!Larger(r3.target, Marks!Target(t)) \in Nat
          /\ Marks!Larger(r3.target, Marks!Target(t)) <= Marks!Target(now)
      BY <1>2, <1>8 DEF Marks!Larger, Marks!Row
    <2> QED BY <1>8, <2>1 DEF Marks!Row
  <1>10. r4 = Marks!Loaded(t)
    BY Zenon DEF Marks!Loaded, r0, r1, r2, r3
  <1> HIDE DEF r4
  <1>11. Holds(r4, fact)
    BY <1>7, <1>9 DEF Holds
  <1> QED BY <1>7, <1>9, <1>10, <1>11

-----------------------------------------------------------------------------
(* The parts of the invariant, and what becomes of each when the rest moves. *)

HoursFit == \A h \in Followed : hours[h] \subseteq Marks!MinutesOf(h)
RowFits ==
    /\ mark \in Marks!Row \cup {Marks!NoRow}
    /\ mark # Marks!NoRow => mark.target <= Marks!Target(now) /\ Holds(mark, fact)
LoopFits ==
    /\ loop.pc \in {"rest", "sampled", "advance", "replay", "replayed", "maintain"}
    /\ loop.pc # "rest" => loop.time \in FirstMinute .. now
    /\ loop.pc \in {"advance", "replayed"} => loop.from \in Marks!Minute /\ loop.to \in Marks!Minute
    /\ LoopAgrees
FillFits ==
    /\ fill.pc \in {"none", "read", "roll", "tail", "load", "publish"}
    /\ fill.pc # "none" =>
         /\ fill.at \in Marks!Hour /\ fill.from <= fill.at /\ fill.at <= fill.until
         /\ fill.failed \in BOOLEAN
    /\ FillAgrees

\* The invariant is its parts.
LEMMA Parts ==
  MarksInv <=> /\ now \in FirstMinute .. LastMinute
               /\ fact \in [Marks!Minute -> Marks!Kinds]
               /\ HoursFit /\ RowFits /\ LoopFits /\ FillFits /\ FactsAgree
  BY CoverageIsHolding
  DEF MarksInv, Marks!TypeOK, HoursFit, RowFits, LoopFits, FillFits, Marks!CoverageIsHeld

\* So it is after a step that keeps the clock and loses no fact, when each part fits then.
LEMMA Together ==
  ASSUME MarksConstants, MarksInv, now' = now, Stays(fact'), HoursFit', RowFits', LoopFits', FillFits'
  PROVE  MarksInv'
  <1>1. now' \in FirstMinute .. LastMinute /\ fact' \in [Marks!Minute -> Marks!Kinds]
    BY DEF MarksInv, Marks!TypeOK, Stays
  <1>2. FactsAgree'
    BY DEF MarksInv, FactsAgree, Stays, Marks!Target, Marks!Whole, Marks!Minute
  <1>3. mark' # Marks!NoRow => mark'.target <= Marks!Target(now)' /\ Marks!CoverageIsHeld'
    BY DEF RowFits, Holds, Marks!CoverageIsHeld, Marks!Requests, Marks!Frt
  <1>4. mark' = Marks!NoRow => Marks!CoverageIsHeld'
    BY DEF Marks!CoverageIsHeld
  <1> QED
    BY <1>1, <1>2, <1>3, <1>4 DEF MarksInv, Marks!TypeOK, HoursFit, RowFits, LoopFits, FillFits

\* What was read stays read.
LEMMA ReadingStays ==
  ASSUME MarksInv, now' = now, Stays(fact'), NEW a, NEW b, ReadWhole(a, b)
  PROVE  ReadWhole(a, b)'
  BY DEF ReadWhole, Stays, Marks!Minute, Marks!Cutoff, Marks!Target

\* The row stays as it is, and holds of the new facts.
LEMMA SameRow ==
  ASSUME MarksConstants, MarksInv, now' = now, Stays(fact'), mark' = mark
  PROVE  RowFits'
  <1>1. RowFits
    BY Parts
  <1>2. ASSUME mark # Marks!NoRow PROVE mark'.target <= Marks!Target(now') /\ Holds(mark, fact')
    BY <1>1, <1>2, HoldingStays DEF RowFits
  <1> QED BY <1>1, <1>2 DEF RowFits, Holds, Marks!Minute, Marks!Whole, Marks!Cutoff, Marks!Target

\* A row that took the place of the old one.
LEMMA NewRowFits ==
  ASSUME now' = now, mark' \in Marks!Row, mark'.target <= Marks!Target(now), Holds(mark', fact')
  PROVE  RowFits'
  BY DEF RowFits, Holds, Marks!Minute, Marks!Whole, Marks!Cutoff, Marks!Target

\* A row does not go, and what it holds of the present rules remains so.
Keeps == mark # Marks!NoRow =>
            /\ mark' # Marks!NoRow
            /\ mark.current => mark'.current
            /\ mark.frtCurrent => mark'.frtCurrent

\* The turn waits while others work.
LEMMA SameLoop ==
  ASSUME MarksConstants, MarksInv, now' = now, Stays(fact'), loop' = loop, Keeps
  PROVE  LoopFits'
  <1>1. LoopFits
    BY Parts
  <1>2. loop.pc \in {"advance", "replayed"} => ReadWhole(loop.from, loop.to)'
    <2>1. ASSUME loop.pc \in {"advance", "replayed"} PROVE ReadWhole(loop.from, loop.to)'
      <3>1. ReadWhole(loop.from, loop.to)
        BY <1>1, <2>1 DEF LoopFits, LoopAgrees
      <3> QED BY <3>1 DEF ReadWhole, Stays, Marks!Minute, Marks!Cutoff, Marks!Target
    <2> QED BY <2>1
  <1>3. LoopAgrees'
    BY <1>1, <1>2 DEF LoopFits, LoopAgrees, Keeps, Stays, Continues, Marks!Cutoff, Marks!Target
  <1> QED BY <1>1, <1>3 DEF LoopFits, Marks!Minute

\* The backfill waits while others work.
LEMMA SameFill ==
  ASSUME MarksConstants, MarksInv, now' = now, Stays(fact'), fill' = fill, Keeps
  PROVE  FillFits'
  <1>1. FillFits
    BY Parts
  <1>2. \A a, b : ReadWhole(a, b) => ReadWhole(a, b)'
    BY DEF ReadWhole, Stays, Marks!Minute, Marks!Cutoff, Marks!Target
  <1>3. FillAgrees'
    BY <1>1, <1>2 DEF FillFits, FillAgrees, Keeps, Marks!Target, ReadWhole
  <1> QED BY <1>1, <1>3 DEF FillFits, Marks!Hour

\* A turn that waits for nothing that was read.
LEMMA QuietLoop ==
  ASSUME MarksConstants, MarksInv, now' = now,
         loop'.pc \in {"rest", "sampled", "replay", "maintain"},
         loop'.pc # "rest" => loop'.time \in FirstMinute .. now,
         loop'.pc = "replay" => mark' # Marks!NoRow
  PROVE  LoopFits'
  BY DEF LoopFits, LoopAgrees

\* No backfill.
LEMMA QuietFill == ASSUME fill' = Marks!NoFill PROVE FillFits'
  BY DEF FillFits, FillAgrees, Marks!NoFill

-----------------------------------------------------------------------------
(* The loop.                                                                *)

\* The clock, and what is final or kept at an earlier time.
LEMMA Earlier ==
  ASSUME MarksConstants, MarksInv, NEW t \in FirstMinute .. now
  PROVE  /\ now \in FirstMinute .. LastMinute /\ t \in FirstMinute .. LastMinute /\ t <= now
         /\ now \in Nat /\ t \in Nat /\ LastMinute \in Nat
         /\ Marks!Target(t) \in Nat /\ Marks!Target(now) \in Nat
         /\ Marks!Target(t) <= Marks!Target(now)
         /\ Marks!Cutoff(t) \in Nat /\ Marks!Cutoff(now) \in Nat
         /\ Marks!Cutoff(t) <= Marks!Cutoff(now) /\ Marks!Cutoff(t) <= Marks!Target(t)
         /\ Marks!Target(t) <= LastMinute /\ Marks!Target(now) <= LastMinute
  <1>1. /\ now \in FirstMinute .. LastMinute /\ t \in FirstMinute .. LastMinute /\ t <= now
        /\ FirstMinute \in Nat /\ LastMinute \in Nat
    BY DEF MarksConstants, MarksInv, Marks!TypeOK
  <1>2. /\ Marks!Target(t) \in Nat /\ Marks!Target(t) <= Marks!Target(now)
        /\ Marks!Cutoff(t) \in Nat /\ Marks!Cutoff(t) <= Marks!Cutoff(now)
        /\ Marks!Cutoff(t) <= Marks!Target(t) /\ Marks!Target(t) <= t
    BY <1>1, Edges
  <1>3. Marks!Target(now) \in Nat /\ Marks!Cutoff(now) \in Nat /\ Marks!Target(now) <= now
    BY <1>1, Edges
  <1> QED BY <1>1, <1>2, <1>3

\* A row is not the lack of one.
LEMMA RowIsThere == ASSUME NEW r \in Marks!Row PROVE r # Marks!NoRow
  BY DEF Marks!Row, Marks!NoRow

\* rollupHours and its pruning keep an hour's row to the hour's minutes.
LEMMA SummedFits ==
  ASSUME HoursFit, NEW f, NEW since
  PROVE  \A h \in Followed : Marks!RollSince(f, since)[h] \subseteq Marks!MinutesOf(h)
  BY DEF HoursFit, Marks!RollSince

\* sampleRange of the last minutes.
LEMMA SampleStep == ASSUME MarksConstants, MarksInv, Marks!Sample PROVE MarksInv'
  <1>1. now' = now /\ fact' = Marks!Read(now - Lookback, now) /\ mark' = mark /\ hours' = hours
        /\ fill' = fill /\ loop' = [pc |-> "sampled", time |-> now]
    BY DEF Marks!Sample
  <1>2. now \in FirstMinute .. now /\ now - Lookback \in Int /\ now \in Int
    BY DEF MarksConstants, MarksInv, Marks!TypeOK
  <1>3. Stays(fact')
    BY <1>1, <1>2, ReadStays
  <1>4. HoursFit'
    BY <1>1, Parts DEF HoursFit, Marks!MinutesOf
  <1>5. Keeps
    BY <1>1 DEF Keeps
  <1> QED BY <1>1, <1>2, <1>3, <1>4, <1>5, SameRow, QuietLoop, SameFill, Together

\* runMetricFinalizeTurnWith up to its cursor: a slice below the target is read when it is final.
LEMMA FinalizeStep == ASSUME MarksConstants, MarksInv, Marks!Finalize PROVE MarksInv'
  <1> DEFINE r == Marks!Loaded(loop.time)
             from == r.next
             to == Marks!Smaller(from + Slice, r.target)
  <1>1. now' = now /\ fill' = fill /\ mark' = r /\ loop.pc = "sampled"
    BY DEF Marks!Finalize, Marks!At
  <1>2. loop.time \in FirstMinute .. now
    BY <1>1, Parts DEF LoopFits
  <1>3. /\ r \in Marks!Row /\ r.current /\ r.frtCurrent /\ r.target <= Marks!Target(now)
        /\ Holds(r, fact)
        /\ \A m \in Marks!Minute :
              m >= Marks!Cutoff(now) /\ m < r.frtThrough => fact[m] # "legacy"
    BY <1>2, LoadedHolds
  <1>4. \/ r.next >= r.target /\ loop' = [pc |-> "replay", time |-> loop.time]
           /\ fact' = fact /\ hours' = hours
        \/ /\ ~(r.next >= r.target)
           /\ fact' = Marks!Read(from, to)
           /\ hours' = Marks!RollSince(fact', Marks!FloorHour(from))
           /\ loop' = [pc |-> "advance", time |-> loop.time, from |-> from, to |-> to, row |-> r]
    BY <1>1 DEF Marks!Finalize, Marks!GoTo
  <1> HIDE DEF r
  <1>5. from \in Nat /\ to \in Nat /\ to <= r.target /\ r.target \in Nat /\ to \in Int /\ from \in Int
    BY <1>3 DEF Marks!Row, Marks!Smaller, MarksConstants
  <1>6. /\ Stays(fact')
        /\ loop'.pc = "advance" => \A m \in Marks!Minute : from <= m /\ m < to => fact'[m] = "final"
    <2>1. CASE r.next >= r.target
      BY <1>4, <2>1, SameFacts
    <2>2. CASE ~(r.next >= r.target)
      <3>1. fact' = Marks!Read(from, to)
        BY <1>4, <2>2
      <3>2. \A m \in Marks!Minute : m < to => m < Marks!Target(now)
        BY <1>2, <1>3, <1>5, Earlier DEF Marks!Minute
      <3> QED BY <1>5, <3>1, <3>2, ReadStays
    <2> QED BY <2>1, <2>2
  <1>7. HoursFit'
    <2>1. HoursFit
      BY Parts
    <2>2. \/ hours' = hours
          \/ hours' = Marks!RollSince(fact', Marks!FloorHour(from))
      BY <1>4
    <2>3. \A h \in Followed : hours'[h] \subseteq Marks!MinutesOf(h)
      BY <2>1, <2>2, SummedFits DEF HoursFit
    <2> QED BY <2>3 DEF HoursFit, Marks!MinutesOf
  <1>8. RowFits'
    BY <1>1, <1>3, <1>6, HoldingStays, NewRowFits
  <1>9. Keeps
    BY <1>1, <1>3, RowIsThere DEF Keeps
  <1>10. LoopFits'
    <2>1. CASE r.next >= r.target
      <3>1. loop' = [pc |-> "replay", time |-> loop.time]
        BY <1>4, <2>1
      <3> QED BY <1>1, <1>2, <1>3, <3>1, QuietLoop, RowIsThere
    <2>2. CASE ~(r.next >= r.target)
      <3>1. loop' = [pc |-> "advance", time |-> loop.time, from |-> from, to |-> to, row |-> r]
        BY <1>4, <2>2
      <3>2. from \in Marks!Minute /\ to \in Marks!Minute
        <4>1. r.target <= LastMinute /\ LastMinute \in Nat
          BY <1>2, <1>3, <1>5, Earlier
        <4> QED BY <1>5, <2>2, <4>1 DEF Marks!Minute
      <3>3. ReadWhole(loop.from, loop.to)'
        BY <1>1, <1>6, <3>1 DEF ReadWhole, Marks!Minute
      <3>4. ASSUME Continues'
            PROVE  \A m \in Marks!Minute : m >= Marks!Cutoff(now) /\ m < from => fact'[m] # "legacy"
        <4>1. r.frtThrough = from
          BY <3>1, <3>4 DEF Continues
        <4> QED BY <1>3, <1>6, <4>1 DEF Stays
      <3>5. mark' # Marks!NoRow
        BY <1>1, <1>3, RowIsThere
      <3>6. LoopAgrees'
        BY <1>1, <1>3, <3>1, <3>3, <3>4, <3>5
        DEF LoopAgrees, Marks!Minute, Marks!Cutoff, Marks!Target, Marks!NoRow, Marks!Row
      <3> QED BY <1>1, <1>2, <3>1, <3>2, <3>6 DEF LoopFits, Marks!Minute
    <2> QED BY <2>1, <2>2
  <1> QED BY <1>1, <1>6, <1>7, <1>8, <1>9, <1>10, SameFill, Together

\* A query fails: what was read stays, and the row has been renewed.
LEMMA FinalizeFailsStep == ASSUME MarksConstants, MarksInv, Marks!FinalizeFails PROVE MarksInv'
  <1> DEFINE r == Marks!Loaded(loop.time)
             to == Marks!Smaller(r.next + Slice, r.target)
  <1>1. /\ UNCHANGED <<now, fill, hours>> /\ mark' = r /\ loop.pc = "sampled"
        /\ loop' = [pc |-> "maintain", time |-> loop.time]
        /\ fact' \in {fact, Marks!Read(r.next, to)}
    BY DEF Marks!FinalizeFails, Marks!At, Marks!GoTo
  <1>2. loop.time \in FirstMinute .. now
    BY <1>1, Parts DEF LoopFits
  <1>3. /\ r \in Marks!Row /\ r.current /\ r.frtCurrent /\ r.target <= Marks!Target(now)
        /\ Holds(r, fact)
    BY <1>2, LoadedHolds
  <1> HIDE DEF r
  <1>4. r.next \in Int /\ to \in Int
    BY <1>3 DEF Marks!Row, Marks!Smaller, MarksConstants
  <1>5. Stays(fact')
    BY <1>1, <1>4, SameFacts, ReadStays
  <1>6. HoursFit'
    BY <1>1, Parts DEF HoursFit, Marks!MinutesOf
  <1>7. RowFits'
    BY <1>1, <1>3, <1>5, HoldingStays, NewRowFits
  <1>8. Keeps
    BY <1>1, <1>3, RowIsThere DEF Keeps
  <1>9. LoopFits'
    BY <1>1, <1>2, QuietLoop
  <1> QED BY <1>1, <1>5, <1>6, <1>7, <1>8, <1>9, SameFill, Together

\* The cursor moves over its slice, and FRT with it only where nothing of the older rule is left.
LEMMA AdvanceStep == ASSUME MarksConstants, MarksInv, Marks!Advance PROVE MarksInv'
  <1>1. /\ UNCHANGED <<now, fill, hours, fact>> /\ loop.pc = "advance"
        /\ loop'.pc \in {"maintain", "replay"} /\ loop'.time = loop.time
    BY DEF Marks!Advance, Marks!At, Marks!GoTo
  <1>2. /\ loop.time \in FirstMinute .. now /\ loop.from \in Nat /\ loop.to \in Nat
        /\ ReadWhole(loop.from, loop.to) /\ mark # Marks!NoRow
        /\ mark.current /\ mark.frtCurrent
        /\ loop.row \in Marks!Row /\ loop.row.target <= Marks!Target(now)
        /\ Continues => \A m \in Marks!Minute :
                           m >= Marks!Cutoff(now) /\ m < loop.from => fact[m] # "legacy"
    BY <1>1, Parts DEF LoopFits, LoopAgrees, Marks!Minute
  <1>3. mark \in Marks!Row /\ Holds(mark, fact)
    BY <1>2, Parts DEF RowFits
  <1>4. Stays(fact')
    BY <1>1, SameFacts
  <1>5. HoursFit'
    BY <1>1, Parts DEF HoursFit, Marks!MinutesOf
  <1>6. RowFits' /\ Keeps /\ mark' # Marks!NoRow
    <2>1. CASE mark.next # loop.from
      <3>1. mark' = mark
        BY <2>1 DEF Marks!Advance
      <3> QED BY <1>1, <1>2, <1>4, <3>1, SameRow DEF Keeps
    <2>2. CASE mark.next = loop.from
      <3>1. mark' = [Marks!FrtAfter(loop.row, loop.from, loop.to) EXCEPT
                       !.next = loop.to, !.target = loop.row.target, !.frtCurrent = TRUE,
                       !.hourTo = IF Marks!FloorHour(loop.to) > loop.row.hourTo
                                  THEN Marks!FloorHour(loop.to) ELSE @]
        BY <2>2 DEF Marks!Advance
      <3>2. Marks!FloorHour(loop.to) \in Nat
        BY <1>2, Rounded DEF Marks!FloorHour, MarksConstants
      <3>3. Marks!FrtAfter(loop.row, loop.from, loop.to)
              = IF Continues THEN [mark EXCEPT !.frtThrough = loop.to] ELSE mark
        BY DEF Marks!FrtAfter, Continues
      <3>4. /\ mark' \in Marks!Row /\ mark'.current /\ mark'.frtCurrent
            /\ mark'.next = loop.to /\ mark'.from = mark.from /\ mark'.target = loop.row.target
            /\ mark'.frtFrom = mark.frtFrom
            /\ mark'.frtThrough = IF Continues THEN loop.to ELSE mark.frtThrough
        <4>1. CASE Continues
          BY <1>2, <1>3, <3>1, <3>2, <3>3, <4>1 DEF Marks!Row
        <4>2. CASE ~Continues
          BY <1>2, <1>3, <3>1, <3>2, <3>3, <4>2 DEF Marks!Row
        <4> QED BY <4>1, <4>2
      <3>5. ASSUME NEW m \in Marks!Minute, m >= Marks!Cutoff(now), mark'.from <= m, m < mark'.next
            PROVE  /\ Marks!Whole(fact, m)
                   /\ mark'.frtFrom > 0 /\ mark'.frtFrom <= m /\ m < mark'.frtThrough =>
                         fact[m] = "final"
        <4>1. CASE loop.from <= m
          <5>1. fact[m] = "final"
            BY <1>2, <3>4, <3>5, <4>1 DEF ReadWhole
          <5> QED BY <5>1 DEF Marks!Whole
        <4>2. CASE ~(loop.from <= m)
          <5>1. mark.from <= m /\ m < mark.next /\ m < loop.from
            BY <1>2, <2>2, <3>4, <3>5, <4>2 DEF Marks!Minute
          <5>2. Marks!Whole(fact, m)
            BY <1>2, <1>3, <3>5, <5>1 DEF Holds
          <5>3. Continues => fact[m] = "final"
            BY <1>2, <3>5, <5>1, <5>2 DEF Marks!Whole
          <5>4. ~Continues /\ mark'.frtFrom > 0 /\ mark'.frtFrom <= m /\ m < mark'.frtThrough =>
                   fact[m] = "final"
            BY <1>2, <1>3, <3>4, <3>5, <5>1 DEF Holds
          <5> QED BY <5>2, <5>3, <5>4
        <4> QED BY <4>1, <4>2
      <3>6. Holds(mark', fact')
        BY <1>1, <3>5 DEF Holds
      <3>7. mark' # Marks!NoRow
        BY <3>4, RowIsThere
      <3> QED BY <1>1, <1>2, <3>4, <3>6, <3>7, NewRowFits DEF Keeps
    <2> QED BY <2>1, <2>2
  <1>7. LoopFits'
    BY <1>1, <1>2, <1>6, QuietLoop
  <1> QED BY <1>1, <1>4, <1>5, <1>6, <1>7, SameFill, Together

\* runMetricFRTReplayTurnWith reads a slice of what is final already.
LEMMA ReplayStep == ASSUME MarksConstants, MarksInv, Marks!Replay PROVE MarksInv'
  <1> DEFINE from == mark.frtThrough
             to == Marks!Smaller(from + Slice, Marks!ReplayEnd(mark))
             ends == ~mark.frtCurrent \/ mark.frtFrom <= 0 \/ from < mark.frtFrom
                        \/ from >= Marks!ReplayEnd(mark)
  <1>1. now' = now /\ fill' = fill /\ loop.pc = "replay" /\ mark' = mark
    BY DEF Marks!Replay, Marks!At
  <1>2. \/ ends /\ loop' = [pc |-> "maintain", time |-> loop.time] /\ fact' = fact /\ hours' = hours
        \/ /\ ~ends
           /\ fact' = Marks!Read(from, to)
           /\ hours' = Marks!RollSince(fact', Marks!FloorHour(from))
           /\ loop' = [pc |-> "replayed", time |-> loop.time, from |-> from, to |-> to]
    BY DEF Marks!Replay, Marks!GoTo
  <1>3. loop.time \in FirstMinute .. now /\ mark # Marks!NoRow
    BY <1>1, Parts DEF LoopFits, LoopAgrees
  <1>4. mark \in Marks!Row /\ mark.target <= Marks!Target(now)
    BY <1>3, Parts DEF RowFits
  <1>5. /\ from \in Nat /\ to \in Nat /\ from \in Int /\ to \in Int
        /\ Marks!ReplayEnd(mark) \in Nat
        /\ to <= Marks!ReplayEnd(mark) /\ Marks!ReplayEnd(mark) <= mark.target /\ mark.target \in Nat
    BY <1>4 DEF Marks!Row, Marks!ReplayEnd, Marks!Smaller, MarksConstants
  <1>6. /\ Marks!Target(now) \in Nat /\ Marks!Target(now) <= LastMinute /\ LastMinute \in Nat
    BY <1>3, Earlier
  <1>7. /\ Stays(fact')
        /\ ~ends => \A m \in Marks!Minute : from <= m /\ m < to => fact'[m] = "final"
    <2>1. CASE ends
      BY <1>2, <2>1, SameFacts
    <2>2. CASE ~ends
      <3>1. \A m \in Marks!Minute : m < to => m < Marks!Target(now)
        BY <1>4, <1>5, <1>6 DEF Marks!Minute
      <3> QED BY <1>2, <1>5, <2>2, <3>1, ReadStays
    <2> QED BY <2>1, <2>2
  <1>8. HoursFit'
    <2>1. HoursFit
      BY Parts
    <2>2. \A h \in Followed : hours'[h] \subseteq Marks!MinutesOf(h)
      BY <1>2, <2>1, SummedFits DEF HoursFit
    <2> QED BY <2>2 DEF HoursFit, Marks!MinutesOf
  <1>9. Keeps
    BY <1>1 DEF Keeps
  <1>10. LoopFits'
    <2>1. CASE ends
      <3>1. loop' = [pc |-> "maintain", time |-> loop.time]
        BY <1>2, <2>1
      <3> QED BY <1>1, <1>3, <3>1, QuietLoop
    <2>2. CASE ~ends
      <3>1. loop' = [pc |-> "replayed", time |-> loop.time, from |-> from, to |-> to]
        BY <1>2, <2>2
      <3>2. from \in Marks!Minute /\ to \in Marks!Minute
        BY <1>4, <1>5, <1>6, <2>2 DEF Marks!Minute
      <3>3. ReadWhole(loop.from, loop.to)'
        BY <1>1, <1>7, <2>2, <3>1 DEF ReadWhole, Marks!Minute
      <3>4. LoopAgrees'
        BY <1>1, <1>3, <3>1, <3>3 DEF LoopAgrees
      <3> QED BY <1>1, <1>3, <3>1, <3>2, <3>4 DEF LoopFits, Marks!Minute
    <2> QED BY <2>1, <2>2
  <1> QED BY <1>1, <1>7, <1>8, <1>9, <1>10, SameRow, SameFill, Together

\* The replay's edge moves over its slice, if nobody has moved it meanwhile.
LEMMA ReplaySavesStep == ASSUME MarksConstants, MarksInv, Marks!ReplaySaves PROVE MarksInv'
  <1>1. /\ UNCHANGED <<now, fill, hours, fact>> /\ loop.pc = "replayed"
        /\ loop' = [pc |-> "maintain", time |-> loop.time]
    BY DEF Marks!ReplaySaves, Marks!At, Marks!GoTo
  <1>2. /\ loop.time \in FirstMinute .. now /\ loop.from \in Nat /\ loop.to \in Nat
        /\ ReadWhole(loop.from, loop.to) /\ mark # Marks!NoRow
    BY <1>1, Parts DEF LoopFits, LoopAgrees, Marks!Minute
  <1>3. mark \in Marks!Row /\ Holds(mark, fact) /\ mark.target <= Marks!Target(now)
    BY <1>2, Parts DEF RowFits
  <1>4. Stays(fact')
    BY <1>1, SameFacts
  <1>5. HoursFit'
    BY <1>1, Parts DEF HoursFit, Marks!MinutesOf
  <1>6. RowFits' /\ Keeps
    <2>1. CASE ~(mark.frtThrough = loop.from /\ mark.frtCurrent)
      <3>1. mark' = mark
        BY <2>1 DEF Marks!ReplaySaves
      <3> QED BY <1>1, <1>4, <3>1, SameRow DEF Keeps
    <2>2. CASE mark.frtThrough = loop.from /\ mark.frtCurrent
      <3>1. mark' = [mark EXCEPT !.frtThrough = loop.to]
        BY <2>2 DEF Marks!ReplaySaves
      <3>2. /\ mark' \in Marks!Row /\ mark'.frtThrough = loop.to
            /\ mark'.current = mark.current /\ mark'.frtCurrent = mark.frtCurrent
            /\ mark'.next = mark.next /\ mark'.from = mark.from /\ mark'.target = mark.target
            /\ mark'.frtFrom = mark.frtFrom
        BY <1>2, <1>3, <3>1 DEF Marks!Row
      <3>3. Holds(mark', fact')
        <4>1. \A m \in Marks!Minute :
                 m >= Marks!Cutoff(now) /\ loop.from <= m /\ m < loop.to => fact[m] = "final"
          BY <1>2 DEF ReadWhole
        <4>2. \A m \in Marks!Minute : m < loop.from \/ loop.from <= m
          BY <1>2 DEF Marks!Minute
        <4> QED BY <1>1, <1>3, <2>2, <3>2, <4>1, <4>2 DEF Holds
      <3>4. mark' # Marks!NoRow
        BY <3>2, RowIsThere
      <3> QED BY <1>1, <1>3, <3>2, <3>3, <3>4, NewRowFits DEF Keeps
    <2> QED BY <2>1, <2>2
  <1>7. LoopFits'
    BY <1>1, <1>2, QuietLoop
  <1> QED BY <1>1, <1>4, <1>5, <1>6, <1>7, SameFill, Together

\* A turn that goes no further.
LEMMA SkipStep == ASSUME MarksConstants, MarksInv, Marks!Skip PROVE MarksInv'
  <1>1. /\ UNCHANGED <<now, fill, mark, hours, fact>>
        /\ loop.pc \in {"sampled", "advance", "replay", "replayed"}
        /\ loop' = [pc |-> "maintain", time |-> loop.time]
    BY DEF Marks!Skip, Marks!GoTo
  <1>2. loop.time \in FirstMinute .. now
    BY <1>1, Parts DEF LoopFits
  <1>3. Stays(fact') /\ Keeps
    BY <1>1, SameFacts DEF Keeps
  <1>4. HoursFit'
    BY <1>1, Parts DEF HoursFit, Marks!MinutesOf
  <1>5. LoopFits'
    BY <1>1, <1>2, QuietLoop
  <1> QED BY <1>1, <1>3, <1>4, <1>5, SameRow, SameFill, Together

\* pruneOlderThan: the row covers no minute that was deleted.
LEMMA MaintainStep == ASSUME MarksConstants, MarksInv, Marks!Maintain PROVE MarksInv'
  <1> DEFINE edge == Marks!Cutoff(loop.time)
  <1>1. now' = now /\ fill' = fill /\ loop.pc = "maintain" /\ loop' = Marks!Resting
    BY DEF Marks!Maintain, Marks!At
  <1>2. loop.time \in FirstMinute .. now
    BY <1>1, Parts DEF LoopFits
  <1>3. \/ fact' = fact /\ mark' = mark
        \/ fact' = Marks!Drop(edge) /\ mark' = Marks!Narrowed(mark, edge)
    BY DEF Marks!Maintain
  <1>4. Stays(fact')
    BY <1>2, <1>3, SameFacts, DropStays
  <1>5. HoursFit'
    <2>1. \/ hours' = hours
          \/ hours' = Marks!PruneHours(Marks!RollSince(fact, edge))
      BY DEF Marks!Maintain
    <2>2. HoursFit
      BY Parts
    <2>3. \A h \in Followed : hours'[h] \subseteq Marks!MinutesOf(h)
      BY <2>1, <2>2, SummedFits DEF HoursFit, Marks!PruneHours
    <2> QED BY <2>3 DEF HoursFit, Marks!MinutesOf
  <1>6. edge \in Nat /\ edge <= Marks!Cutoff(now) /\ Marks!Cutoff(now) \in Nat
    BY <1>2, Earlier
  <1> HIDE DEF edge
  <1>7. RowFits' /\ Keeps
    <2>1. CASE mark' = mark
      BY <1>1, <1>4, <2>1, SameRow DEF Keeps
    <2>2. CASE mark' # mark
      <3>1. mark' = Marks!Narrowed(mark, edge)
        BY <1>3, <2>2
      <3>2. mark # Marks!NoRow
        BY <2>2, <3>1 DEF Marks!Narrowed
      <3>3. mark \in Marks!Row /\ Holds(mark, fact) /\ mark.target <= Marks!Target(now)
        BY <3>2, Parts DEF RowFits
      <3>4. Holds(mark, fact')
        BY <1>4, <3>3, HoldingStays
      <3>5. /\ mark' \in Marks!Row
            /\ mark'.current = mark.current /\ mark'.frtCurrent = mark.frtCurrent
            /\ mark'.target = mark.target
            /\ mark'.from = Marks!Larger(mark.from, edge) /\ mark'.next = Marks!Larger(mark.next, edge)
            /\ mark'.frtFrom = (IF mark.frtFrom > 0 THEN Marks!Larger(mark.frtFrom, edge) ELSE 0)
            /\ mark'.frtThrough = IF mark.frtFrom > 0 THEN Marks!Larger(mark.frtThrough, edge)
                                                      ELSE mark.frtThrough
        BY <1>6, <3>1, <3>2, <3>3 DEF Marks!Narrowed, Marks!Row, Marks!Larger
      <3>6. ASSUME NEW m \in Marks!Minute, m >= Marks!Cutoff(now)
            PROVE  /\ mark'.from <= m /\ m < mark'.next => mark.from <= m /\ m < mark.next
                   /\ mark'.frtFrom > 0 /\ mark'.frtFrom <= m /\ m < mark'.frtThrough =>
                         mark.frtFrom > 0 /\ mark.frtFrom <= m /\ m < mark.frtThrough
        BY <1>6, <3>3, <3>5, <3>6 DEF Marks!Larger, Marks!Row, Marks!Minute
      <3>7. Holds(mark', fact')
        BY <3>4, <3>5, <3>6 DEF Holds
      <3>8. mark' # Marks!NoRow
        BY <3>5, RowIsThere
      <3> QED BY <1>1, <3>3, <3>5, <3>7, <3>8, NewRowFits DEF Keeps
    <2> QED BY <2>1, <2>2
  <1>8. LoopFits'
    BY <1>1, QuietLoop DEF Marks!Resting
  <1> QED BY <1>1, <1>4, <1>5, <1>7, <1>8, SameFill, Together

-----------------------------------------------------------------------------
(* The backfill.                                                            *)

\* What the backfill has so far: its hours end at a full one, and it is read up to where it stands.
LEMMA FillBounds ==
  ASSUME MarksConstants, MarksInv, fill.pc # "none"
  PROVE  /\ fill.time \in FirstMinute .. now /\ fill.from \in Nat /\ fill.until \in Nat
         /\ fill.at \in Nat /\ fill.at % HourLen = 0 /\ fill.until % HourLen = 0
         /\ fill.from <= fill.at /\ fill.at <= fill.until /\ fill.until <= Marks!Target(fill.time)
         /\ fill.failed \in BOOLEAN /\ HourLen \in Nat \ {0}
         /\ Marks!Target(fill.time) \in Nat /\ Marks!Target(now) \in Nat
         /\ Marks!Target(fill.time) <= Marks!Target(now) /\ Marks!Target(now) <= LastMinute
         /\ LastMinute \in Nat
         /\ Marks!Cutoff(fill.time) \in Nat /\ Marks!Cutoff(now) \in Nat
         /\ Marks!Cutoff(fill.time) <= Marks!Cutoff(now)
         /\ Marks!Cutoff(fill.time) <= Marks!Target(fill.time)
  <1>1. FillFits
    BY Parts
  <1>2. fill.time \in FirstMinute .. now
    BY <1>1 DEF FillFits, FillAgrees
  <1> QED BY <1>1, <1>2, Earlier DEF FillFits, FillAgrees, Marks!Hour, Marks!Minute, MarksConstants

\* The next hour lies within the whole ones.
LEMMA NextFits ==
  ASSUME MarksConstants, MarksInv, fill.pc \in {"read", "roll"}
  PROVE  fill.at + HourLen <= fill.until /\ fill.at + HourLen \in Marks!Hour
  <1>1. fill.at < fill.until
    BY Parts DEF FillFits, FillAgrees
  <1>2. fill.pc # "none"
    OBVIOUS
  <1>3. fill.at + HourLen <= fill.until
    BY <1>1, <1>2, FillBounds, Apart
  <1>4. (fill.at + 1 * HourLen) % HourLen = 0
    <2>1. fill.at \in Int /\ HourLen \in Nat \ {0} /\ fill.at % HourLen = 0 /\ 1 \in Int
      BY <1>2, FillBounds
    <2> QED BY <2>1, Sums
  <1>5. 1 * HourLen = HourLen
    BY <1>2, FillBounds
  <1>6. fill.at + HourLen \in 0 .. LastMinute
    BY <1>2, <1>3, FillBounds
  <1> QED BY <1>3, <1>4, <1>5, <1>6 DEF Marks!Hour, Marks!Minute

\* The minutes from one to another are final in some facts.
FinalIn(f, from, to) ==
    \A m \in Marks!Minute : from <= m /\ m < to /\ m >= Marks!Cutoff(now) => f[m] = "final"

\* A turn of the hours: the next is read, or the tail comes.
LEMMA NextHourFits ==
  ASSUME MarksConstants, MarksInv, now' = now, fill.pc \in {"read", "roll"},
         NEW failed \in BOOLEAN, Marks!NextHour(failed),
         ~(fill.failed \/ failed) => FinalIn(fact', fill.from, fill.at + HourLen)
  PROVE  FillFits'
  <1> DEFINE at == fill.at + HourLen
  <1>1. at <= fill.until /\ at \in Marks!Hour
    BY NextFits
  <1>2. fill.pc # "none"
    OBVIOUS
  <1>3. fill' = [fill EXCEPT !.at = at, !.failed = @ \/ failed,
                             !.pc = IF at < fill.until THEN "read" ELSE "tail"]
    BY DEF Marks!NextHour
  <1>4. fill \in FillRow /\ FillAgrees
    BY <1>2, Parts DEF FillFits, FillAgrees
  <1>5. HourLen \in Nat \ {0} /\ at \in Int /\ fill.until \in Int /\ fill.at \in Int
    BY <1>2, FillBounds
  <1>6. /\ fill' \in FillRow /\ fill'.at = at /\ fill'.failed = (fill.failed \/ failed)
        /\ fill'.pc = (IF at < fill.until THEN "read" ELSE "tail")
        /\ fill'.from = fill.from /\ fill'.until = fill.until /\ fill'.time = fill.time
    BY <1>1, <1>3, <1>4 DEF FillRow
  <1> HIDE DEF at
  <1>7. at < fill.until \/ at = fill.until
    BY <1>1, <1>5
  <1>8. ~fill'.failed => FinalIn(fact', fill.from, at)
    BY <1>6 DEF at
  <1>9. ~fill'.failed => ReadWhole(fill.from, fill.at + 0)'
    <2>1. fill'.at + 0 = at
      BY <1>5, <1>6
    <2> QED BY <1>6, <1>8, <2>1 DEF ReadWhole, FinalIn, Marks!Minute, Marks!Cutoff, Marks!Target
  <1>10. fill'.pc \in {"read", "tail"}
    BY <1>6
  <1>11. ReadWhole(fill.from, fill.at + (IF fill.pc = "roll" THEN HourLen ELSE 0))'
           = ReadWhole(fill.from, fill.at + 0)'
    BY <1>10 DEF ReadWhole
  <1>12. FillAgrees'
    BY <1>2, <1>4, <1>6, <1>7, <1>9, <1>10, <1>11 DEF FillAgrees, FillRow, Marks!Target
  <1>13. fill.from <= fill.at /\ fill.from \in Nat
    BY <1>2, FillBounds
  <1>14. fill'.from <= fill'.at /\ fill'.at <= fill'.until /\ fill'.at \in Marks!Hour
    BY <1>1, <1>5, <1>6, <1>13 DEF at
  <1>15. fill'.failed \in BOOLEAN
    BY <1>6 DEF FillRow
  <1> QED BY <1>10, <1>12, <1>14, <1>15 DEF FillFits, Marks!Hour, Marks!Minute

\* A backfill asked for begins with nothing read.
LEMMA StartStep == ASSUME MarksConstants, MarksInv, Marks!Start PROVE MarksInv'
  <1> DEFINE until == Marks!FloorHour(Marks!Target(now))
  <1>1. now' = now /\ fact' = fact /\ hours' = hours /\ mark' = mark /\ loop' = loop
    BY DEF Marks!Start
  <1>2. PICK n \in 1 .. MaxHours :
           /\ until - n * HourLen >= 0
           /\ fill' = [pc |-> "read", from |-> until - n * HourLen, at |-> until - n * HourLen,
                       until |-> until, time |-> now, failed |-> FALSE]
    BY DEF Marks!Start
  <1>3. /\ now \in FirstMinute .. now /\ now \in Nat
        /\ Marks!Target(now) \in Nat /\ Marks!Target(now) <= LastMinute /\ LastMinute \in Nat
        /\ HourLen \in Nat \ {0} /\ n \in Nat \ {0}
    <2>1. now \in FirstMinute .. now
      BY DEF MarksConstants, MarksInv, Marks!TypeOK
    <2> QED BY <2>1, Earlier DEF MarksConstants
  <1>4. until \in 0 .. Marks!Target(now) /\ until % HourLen = 0
    BY <1>3, Rounded DEF Marks!FloorHour
  <1> HIDE DEF until
  <1> DEFINE from == until - n * HourLen
  <1>5. n * HourLen \in Nat \ {0}
    BY <1>3
  <1>6. from \in Nat /\ from < until /\ until \in Nat /\ from <= LastMinute
    BY <1>2, <1>3, <1>4, <1>5
  <1>7. from % HourLen = 0
    <2>1. (until + (-n) * HourLen) % HourLen = 0
      <3>1. until \in Int /\ -n \in Int
        BY <1>3, <1>6
      <3> QED BY <1>3, <1>4, <3>1, Sums
    <2>2. from = until + (-n) * HourLen
      BY <1>3, <1>4
    <2> QED BY <2>1, <2>2
  <1>8. from \in Marks!Hour
    BY <1>3, <1>6, <1>7 DEF Marks!Hour, Marks!Minute
  <1>9. fill' = [pc |-> "read", from |-> from, at |-> from, until |-> until, time |-> now,
                 failed |-> FALSE]
    BY <1>2
  <1> HIDE DEF from
  <1>10. fill' \in FillRow
    BY <1>3, <1>6, <1>8, <1>9 DEF FillRow
  <1>11. ReadWhole(fill.from, fill.at + (IF fill.pc = "roll" THEN HourLen ELSE 0))'
    BY <1>6, <1>9 DEF ReadWhole, Marks!Minute
  <1>12. FillAgrees'
    BY <1>1, <1>3, <1>4, <1>6, <1>9, <1>10, <1>11 DEF FillAgrees, FillRow, Marks!Target
  <1>13. FillFits'
    BY <1>6, <1>8, <1>9, <1>12 DEF FillFits, Marks!Hour, Marks!Minute
  <1>14. Stays(fact') /\ Keeps
    BY <1>1, SameFacts DEF Keeps
  <1>15. HoursFit'
    BY <1>1, Parts DEF HoursFit, Marks!MinutesOf
  <1> QED BY <1>1, <1>13, <1>14, <1>15, SameRow, SameLoop, Together

\* An hour of the backfill is read; it was final when the backfill began.
LEMMA FillReadsStep == ASSUME MarksConstants, MarksInv, Marks!FillReads PROVE MarksInv'
  <1>1. /\ UNCHANGED <<now, hours, mark, loop>> /\ fill.pc = "read"
        /\ fact' = Marks!Read(fill.at, fill.at + HourLen)
        /\ fill' = [fill EXCEPT !.pc = "roll"]
    BY DEF Marks!FillReads, Marks!Fills
  <1>2. fill \in FillRow /\ FillAgrees /\ FillFits /\ fill.pc # "none" /\ fill.pc # "roll"
    BY <1>1, Parts DEF FillFits, FillAgrees
  <1>3. fill.at + HourLen <= fill.until
    BY <1>1, NextFits
  <1>4. /\ fill.at \in Int /\ fill.at + HourLen \in Int
        /\ \A m \in Marks!Minute : m < fill.at + HourLen => m < Marks!Target(now)
    BY <1>2, <1>3, FillBounds DEF Marks!Minute
  <1>5. /\ Stays(fact')
        /\ \A m \in Marks!Minute : fill.at <= m /\ m < fill.at + HourLen => fact'[m] = "final"
    BY <1>1, <1>4, ReadStays
  <1>6. ~fill.failed => FinalIn(fact', fill.from, fill.at + HourLen)
    <2>1. ~fill.failed => ReadWhole(fill.from, fill.at + 0)
      BY <1>2 DEF FillAgrees
    <2>2. fill.at + 0 = fill.at
      BY <1>4
    <2>3. \A m \in Marks!Minute : m < fill.at \/ fill.at <= m
      BY <1>4 DEF Marks!Minute
    <2>4. ASSUME ~fill.failed, NEW m \in Marks!Minute, fill.from <= m, m < fill.at + HourLen,
                 m >= Marks!Cutoff(now)
          PROVE  fact'[m] = "final"
      <3>1. CASE m < fill.at
        <4>1. fact[m] = "final"
          BY <2>1, <2>2, <2>4, <3>1 DEF ReadWhole
        <4> QED BY <1>5, <2>4, <4>1 DEF Stays
      <3>2. CASE fill.at <= m
        BY <1>5, <2>4, <3>2
      <3> QED BY <2>3, <3>1, <3>2
    <2> QED BY <2>4 DEF FinalIn
  <1>7. /\ fill' \in FillRow /\ fill'.pc = "roll" /\ fill'.at = fill.at
        /\ fill'.failed = fill.failed
        /\ fill'.from = fill.from /\ fill'.until = fill.until /\ fill'.time = fill.time
    BY <1>1, <1>2 DEF FillRow
  <1>8. ~fill'.failed => ReadWhole(fill.from, fill.at + HourLen)'
    BY <1>1, <1>6, <1>7 DEF ReadWhole, FinalIn, Marks!Minute, Marks!Cutoff, Marks!Target
  <1>9. ReadWhole(fill.from, fill.at + (IF fill.pc = "roll" THEN HourLen ELSE 0))'
          = ReadWhole(fill.from, fill.at + HourLen)'
    BY <1>7 DEF ReadWhole
  <1>10. FillAgrees'
    BY <1>1, <1>2, <1>7, <1>8, <1>9 DEF FillAgrees, Marks!Target
  <1>11. FillFits'
    BY <1>2, <1>7, <1>10 DEF FillFits, Marks!Hour, Marks!Minute
  <1>12. Keeps
    BY <1>1 DEF Keeps
  <1>13. HoursFit'
    BY <1>1, Parts DEF HoursFit, Marks!MinutesOf
  <1> QED BY <1>1, <1>5, <1>11, <1>12, <1>13, SameRow, SameLoop, Together

\* The hour is summed; its minutes go only when nobody asks for them any more.
LEMMA FillRollsStep == ASSUME MarksConstants, MarksInv, Marks!FillRolls PROVE MarksInv'
  <1>1. /\ UNCHANGED <<now, mark, loop>> /\ fill.pc = "roll"
        /\ hours' = Marks!RollHour(fact, fill.at)
        /\ fact' = IF fill.at + HourLen > Marks!Cutoff(fill.time) THEN fact
                   ELSE [m \in Marks!Minute |-> IF m \in Marks!MinutesOf(fill.at) THEN "none"
                      ELSE fact[m]]
        /\ Marks!NextHour(FALSE)
    BY DEF Marks!FillRolls, Marks!Fills
  <1>2. FillAgrees /\ fill.pc # "none"
    BY <1>1, Parts DEF FillFits
  <1>3. Stays(fact')
    <2>1. CASE fill.at + HourLen > Marks!Cutoff(fill.time)
      BY <1>1, <2>1, SameFacts
    <2>2. CASE ~(fill.at + HourLen > Marks!Cutoff(fill.time))
      <3>1. fact' = [m \in Marks!Minute |-> IF m \in Marks!MinutesOf(fill.at) THEN "none" ELSE fact[m]]
        BY <1>1, <2>2
      <3>2. ASSUME NEW m \in Marks!MinutesOf(fill.at) PROVE ~(m >= Marks!Cutoff(now))
        BY <1>2, <2>2, FillBounds DEF Marks!MinutesOf
      <3> QED BY <3>1, <3>2, SameFacts DEF Stays, Marks!Whole, Marks!Kinds
    <2> QED BY <2>1, <2>2
  <1>4. HoursFit'
    <2>1. HoursFit
      BY Parts
    <2>2. \A h \in Followed : Marks!RollHour(fact, fill.at)[h] \subseteq Marks!MinutesOf(h)
      BY <2>1 DEF HoursFit, Marks!RollHour
    <2> QED BY <1>1, <2>2 DEF HoursFit, Marks!MinutesOf
  <1>5. ~(fill.failed \/ FALSE) => FinalIn(fact', fill.from, fill.at + HourLen)
    <2>1. ~fill.failed => ReadWhole(fill.from, fill.at + HourLen)
      BY <1>1, <1>2 DEF FillAgrees
    <2> QED BY <1>3, <2>1 DEF ReadWhole, FinalIn, Stays
  <1>6. FillFits'
    BY <1>1, <1>5, NextHourFits
  <1>7. Keeps
    BY <1>1 DEF Keeps
  <1> QED BY <1>1, <1>3, <1>4, <1>6, <1>7, SameRow, SameLoop, Together

\* An hour fails: the backfill will publish nothing.
LEMMA FillFailsStep == ASSUME MarksConstants, MarksInv, Marks!FillFails PROVE MarksInv'
  <1>1. /\ UNCHANGED <<now, fact, hours, mark, loop>>
        /\ fill.pc \in {"read", "roll"} /\ Marks!NextHour(TRUE)
    BY DEF Marks!FillFails, Marks!Fills
  <1>2. Stays(fact') /\ Keeps
    BY <1>1, SameFacts DEF Keeps
  <1>3. HoursFit'
    BY <1>1, Parts DEF HoursFit, Marks!MinutesOf
  <1>4. FillFits'
    BY <1>1, NextHourFits
  <1> QED BY <1>1, <1>2, <1>3, <1>4, SameRow, SameLoop, Together

\* The tail is read up to what was final when the backfill began.
LEMMA FillTailStep == ASSUME MarksConstants, MarksInv, Marks!FillTail PROVE MarksInv'
  <1>1. /\ UNCHANGED <<now, hours, mark, loop>> /\ fill.pc = "tail"
        /\ \/ /\ fact' = Marks!Read(fill.until, Marks!Target(fill.time))
              /\ fill' = IF fill.failed THEN Marks!NoFill ELSE [fill EXCEPT !.pc = "load"]
           \/ fact' = fact /\ fill' = Marks!NoFill
    BY DEF Marks!FillTail, Marks!Fills
  <1>2. fill \in FillRow /\ FillAgrees /\ FillFits /\ fill.pc # "none" /\ fill.pc # "roll"
    BY <1>1, Parts DEF FillFits, FillAgrees
  <1>3. /\ fill.until \in Int /\ Marks!Target(fill.time) \in Int /\ fill.at = fill.until
        /\ \A m \in Marks!Minute : m < Marks!Target(fill.time) => m < Marks!Target(now)
        /\ \A m \in Marks!Minute : m < fill.until \/ fill.until <= m
    BY <1>1, <1>2, FillBounds DEF Marks!Minute, FillAgrees
  <1>4. /\ Stays(fact')
        /\ fill'.pc = "load" =>
              \A m \in Marks!Minute :
                 fill.until <= m /\ m < Marks!Target(fill.time) => fact'[m] = "final"
    <2>1. CASE fact' = Marks!Read(fill.until, Marks!Target(fill.time))
      BY <1>3, <2>1, ReadStays
    <2>2. CASE fact' = fact /\ fill' = Marks!NoFill
      BY <2>2, SameFacts DEF Marks!NoFill
    <2> QED BY <1>1, <2>1, <2>2
  <1>5. FillFits'
    <2>1. CASE fill' = Marks!NoFill
      BY <2>1, QuietFill
    <2>2. CASE fill' # Marks!NoFill
      <3>1. ~fill.failed /\ fill' = [fill EXCEPT !.pc = "load"]
        BY <1>1, <2>2
      <3>2. /\ fill' \in FillRow /\ fill'.pc = "load" /\ fill'.at = fill.at
            /\ fill'.failed = fill.failed
            /\ fill'.from = fill.from /\ fill'.until = fill.until /\ fill'.time = fill.time
        BY <1>2, <3>1 DEF FillRow
      <3>3. ReadWhole(fill.from, fill.at + 0)
        BY <1>2, <3>1 DEF FillAgrees
      <3>4. fill.at + 0 = fill.at
        BY <1>3
      <3>5. FinalIn(fact', fill.from, Marks!Target(fill.time))
        BY <1>3, <1>4, <3>2, <3>3, <3>4 DEF FinalIn, ReadWhole, Stays
      <3>6. FinalIn(fact', fill.from, fill.at)
        BY <1>4, <3>3, <3>4 DEF FinalIn, ReadWhole, Stays
      <3>7. ReadWhole(fill.from, Marks!Target(fill.time))'
        BY <1>1, <3>2, <3>5
        DEF ReadWhole, FinalIn, Marks!Minute, Marks!Cutoff, Marks!Target
      <3>8. ReadWhole(fill.from, fill.at)'
        BY <1>1, <3>2, <3>6
        DEF ReadWhole, FinalIn, Marks!Minute, Marks!Cutoff, Marks!Target
      <3>9. ReadWhole(fill.from, fill.at + (IF fill.pc = "roll" THEN HourLen ELSE 0))'
        <4>1. fill'.at + 0 = fill'.at
          BY <3>2, <3>4
        <4>2. fill'.pc # "roll"
          BY <3>2
        <4> QED BY <3>8, <4>1, <4>2 DEF ReadWhole
      <3>10. FillAgrees'
        BY <1>1, <1>2, <3>1, <3>2, <3>7, <3>9 DEF FillAgrees, Marks!Target
      <3> QED BY <1>2, <3>2, <3>10 DEF FillFits, Marks!Hour, Marks!Minute
    <2> QED BY <2>1, <2>2
  <1>6. Keeps
    BY <1>1 DEF Keeps
  <1>7. HoursFit'
    BY <1>1, Parts DEF HoursFit, Marks!MinutesOf
  <1> QED BY <1>1, <1>4, <1>5, <1>6, <1>7, SameRow, SameLoop, Together

\* The row is renewed for what will be published.
LEMMA FillLoadsStep == ASSUME MarksConstants, MarksInv, Marks!FillLoads PROVE MarksInv'
  <1> DEFINE r == Marks!Loaded(fill.time)
  <1>1. /\ UNCHANGED <<now, hours, fact, loop>> /\ fill.pc = "load"
        /\ mark' = r /\ fill' = [fill EXCEPT !.pc = "publish"]
    BY DEF Marks!FillLoads, Marks!Fills
  <1>2. fill \in FillRow /\ FillAgrees /\ FillFits /\ fill.pc # "none" /\ fill.pc # "roll"
    BY <1>1, Parts DEF FillFits, FillAgrees
  <1>3. fill.time \in FirstMinute .. now
    BY <1>2, FillBounds
  <1>4. /\ r \in Marks!Row /\ r.current /\ r.frtCurrent /\ r.target <= Marks!Target(now)
        /\ Holds(r, fact)
    BY <1>3, LoadedHolds
  <1> HIDE DEF r
  <1>5. Stays(fact')
    BY <1>1, SameFacts
  <1>6. mark' # Marks!NoRow
    BY <1>1, <1>4, RowIsThere
  <1>7. RowFits' /\ Keeps
    BY <1>1, <1>4, <1>6, NewRowFits DEF Keeps
  <1>8. /\ fill' \in FillRow /\ fill'.pc = "publish" /\ fill'.at = fill.at
        /\ fill'.failed = fill.failed
        /\ fill'.from = fill.from /\ fill'.until = fill.until /\ fill'.time = fill.time
    BY <1>1, <1>2 DEF FillRow
  <1>9. FillAgrees'
    <2>1. ReadWhole(fill.from, Marks!Target(fill.time))'
      BY <1>1, <1>2, <1>8 DEF FillAgrees, ReadWhole, Marks!Minute, Marks!Cutoff, Marks!Target
    <2>2. ReadWhole(fill.from, fill.at + (IF fill.pc = "roll" THEN HourLen ELSE 0))'
      <3>1. ~fill.failed
        BY <1>1, <1>2 DEF FillAgrees
      <3>2. ReadWhole(fill.from, fill.at + 0)
        BY <1>2, <3>1 DEF FillAgrees
      <3>3. fill'.pc # "roll"
        BY <1>8
      <3> QED BY <1>1, <1>8, <3>2, <3>3 DEF ReadWhole, Marks!Minute, Marks!Cutoff, Marks!Target
    <2> QED BY <1>1, <1>2, <1>6, <1>8, <2>1, <2>2 DEF FillAgrees, Marks!Target
  <1>10. FillFits'
    BY <1>2, <1>8, <1>9 DEF FillFits, Marks!Hour, Marks!Minute
  <1>11. HoursFit'
    BY <1>1, Parts DEF HoursFit, Marks!MinutesOf
  <1> QED BY <1>1, <1>5, <1>7, <1>10, <1>11, SameLoop, Together

\* publishMetricBackfillCoverage: the joined ranges cover what the row covered and what was read.
LEMMA PublishedHolds ==
  ASSUME NEW r \in Marks!Row, NEW lo \in Nat, NEW hi \in Nat, lo <= hi,
         NEW hourLo, NEW hourHi, Holds(r, fact), ReadWhole(lo, hi), Marks!Cutoff(now) \in Nat
  PROVE  Holds(Marks!Published(r, lo, hi, hourLo, hourHi), fact)
  <1> DEFINE p == Marks!Published(r, lo, hi, hourLo, hourHi)
             span == Marks!Joined(r.current, r.from, r.next, lo, hi)
             frt == Marks!Joined(r.frtCurrent, r.frtFrom, r.frtThrough, lo, hi)
             empty == ~(r.current /\ r.next > r.from)
  <1>1. /\ p.next = Marks!Larger(r.next, hi)
        /\ p.from = (IF empty /\ r.next > hi THEN r.next ELSE span.from)
        /\ p.frtFrom = frt.from /\ p.frtThrough = frt.to
    BY DEF Marks!Published
  <1>2. /\ r.next \in Nat /\ r.from \in Nat /\ r.frtFrom \in Nat /\ r.frtThrough \in Nat
        /\ r.current \in BOOLEAN /\ r.frtCurrent \in BOOLEAN
    BY DEF Marks!Row
  <1>3. ASSUME NEW known \in BOOLEAN, NEW a \in Nat, NEW b \in Nat
        PROVE  \/ /\ known /\ a > 0 /\ b > a /\ b >= lo /\ hi >= a
                 /\ Marks!Joined(known, a, b, lo, hi)
                       = [from |-> Marks!Smaller(a, lo), to |-> Marks!Larger(b, hi)]
              \/ /\ known /\ a > 0 /\ b > a /\ lo > b
                 /\ Marks!Joined(known, a, b, lo, hi) = [from |-> lo, to |-> hi]
              \/ /\ known /\ a > 0 /\ b > a /\ hi < a
                 /\ Marks!Joined(known, a, b, lo, hi) = [from |-> a, to |-> b]
              \/ /\ ~(known /\ a > 0 /\ b > a)
                 /\ Marks!Joined(known, a, b, lo, hi) = [from |-> lo, to |-> hi]
    <2>1. CASE known /\ a > 0 /\ b > a /\ b >= lo /\ hi >= a
      BY <2>1 DEF Marks!Joined
    <2>2. CASE known /\ a > 0 /\ b > a /\ lo > b
      <3>1. ~(b >= lo)
        BY <1>3, <2>2
      <3>2. ~(hi < a)
        BY <1>3, <2>2
      <3> QED BY <2>2, <3>1, <3>2 DEF Marks!Joined
    <2>3. CASE known /\ a > 0 /\ b > a /\ hi < a
      <3>1. ~(hi >= a) /\ ~(lo > b)
        BY <1>3, <2>3
      <3> QED BY <2>3, <3>1 DEF Marks!Joined
    <2>4. CASE ~(known /\ a > 0 /\ b > a)
      BY <2>4 DEF Marks!Joined
    <2> QED BY <1>3, <2>1, <2>2, <2>3, <2>4
  <1> HIDE DEF p
  <1>4. ASSUME NEW m \in Marks!Minute, m >= Marks!Cutoff(now), p.from <= m, m < p.next
        PROVE  (r.current /\ r.from <= m /\ m < r.next) \/ (lo <= m /\ m < hi)
    <2>1. m \in Nat
      BY DEF Marks!Minute
    <2>2. ~(empty /\ r.next > hi) /\ p.from = span.from
      <3>1. CASE empty /\ r.next > hi
        <4>1. p.from = r.next /\ p.next = r.next
          BY <1>1, <1>2, <3>1 DEF Marks!Larger
        <4> QED BY <1>2, <1>4, <2>1, <4>1
      <3> QED BY <1>1, <3>1
    <2> DEFINE a == r.from
               b == r.next
               known == r.current
    <2>3. \/ /\ known /\ b > a /\ b >= lo /\ hi >= a /\ span.from = Marks!Smaller(a, lo)
          \/ known /\ b > a /\ lo > b /\ span.from = lo
          \/ known /\ b > a /\ hi < a /\ span.from = a
          \/ ~(known /\ a > 0 /\ b > a) /\ span.from = lo
      BY <1>2, <1>3
    <2> HIDE DEF span
    <2>4. CASE known /\ b > a /\ b >= lo /\ hi >= a /\ span.from = Marks!Smaller(a, lo)
      BY <1>1, <1>2, <1>4, <2>1, <2>2, <2>4 DEF Marks!Smaller, Marks!Larger
    <2>5. CASE known /\ b > a /\ lo > b /\ span.from = lo
      BY <1>1, <1>2, <1>4, <2>1, <2>2, <2>5 DEF Marks!Larger
    <2>6. CASE known /\ b > a /\ hi < a /\ span.from = a
      BY <1>1, <1>2, <1>4, <2>1, <2>2, <2>6 DEF Marks!Larger
    <2>7. CASE ~(known /\ a > 0 /\ b > a) /\ span.from = lo
      <3>1. lo <= m
        BY <1>4, <2>2, <2>7
      <3>2. CASE m < hi
        BY <3>1, <3>2
      <3>3. CASE ~(m < hi)
        <4>1. m < r.next /\ r.next > hi
          BY <1>1, <1>2, <1>4, <2>1, <3>3 DEF Marks!Larger
        <4>2. r.current /\ r.next > r.from
          BY <2>2, <4>1
        <4>3. r.from = 0
          BY <1>2, <2>7, <4>2
        <4> QED BY <2>1, <4>1, <4>2, <4>3
      <3> QED BY <3>2, <3>3
    <2> QED BY <2>3, <2>4, <2>5, <2>6, <2>7
  <1>5. ASSUME NEW m \in Marks!Minute, p.frtFrom > 0, p.frtFrom <= m, m < p.frtThrough
        PROVE  (r.frtCurrent /\ r.frtFrom > 0 /\ r.frtFrom <= m /\ m < r.frtThrough)
                  \/ (lo <= m /\ m < hi)
    <2>1. m \in Nat
      BY DEF Marks!Minute
    <2> DEFINE a == r.frtFrom
               b == r.frtThrough
               known == r.frtCurrent
    <2>2. \/ /\ known /\ a > 0 /\ b > a /\ b >= lo /\ hi >= a
             /\ frt.from = Marks!Smaller(a, lo) /\ frt.to = Marks!Larger(b, hi)
          \/ frt.from = lo /\ frt.to = hi
          \/ known /\ a > 0 /\ frt.from = a /\ frt.to = b
      BY <1>2, <1>3
    <2> HIDE DEF frt
    <2>3. CASE /\ known /\ a > 0 /\ b > a /\ b >= lo /\ hi >= a
               /\ frt.from = Marks!Smaller(a, lo) /\ frt.to = Marks!Larger(b, hi)
      BY <1>1, <1>2, <1>5, <2>1, <2>3 DEF Marks!Smaller, Marks!Larger
    <2>4. CASE frt.from = lo /\ frt.to = hi
      BY <1>1, <1>5, <2>4
    <2>5. CASE known /\ a > 0 /\ frt.from = a /\ frt.to = b
      BY <1>1, <1>5, <2>5
    <2> QED BY <2>2, <2>3, <2>4, <2>5
  <1>6. \A m \in Marks!Minute : m >= Marks!Cutoff(now) /\ lo <= m /\ m < hi =>
           fact[m] = "final" /\ Marks!Whole(fact, m)
    BY DEF ReadWhole, Marks!Whole
  <1>7. ASSUME NEW m \in Marks!Minute, m >= Marks!Cutoff(now), p.from <= m, m < p.next
        PROVE  /\ Marks!Whole(fact, m)
               /\ p.frtFrom > 0 /\ p.frtFrom <= m /\ m < p.frtThrough => fact[m] = "final"
    <2>1. CASE lo <= m /\ m < hi
      BY <1>6, <1>7, <2>1
    <2>2. CASE ~(lo <= m /\ m < hi)
      <3>1. r.current /\ r.from <= m /\ m < r.next
        BY <1>4, <1>7, <2>2
      <3>2. p.frtFrom > 0 /\ p.frtFrom <= m /\ m < p.frtThrough =>
               r.frtCurrent /\ r.frtFrom > 0 /\ r.frtFrom <= m /\ m < r.frtThrough
        BY <1>5, <2>2
      <3> QED BY <1>7, <3>1, <3>2 DEF Holds
    <2> QED BY <2>1, <2>2
  <1>8. Holds(p, fact)
    BY <1>7 DEF Holds
  <1> QED BY <1>8 DEF p

\* What was filled is published.
LEMMA FillPublishesStep == ASSUME MarksConstants, MarksInv, Marks!FillPublishes PROVE MarksInv'
  <1> DEFINE lo == Marks!Larger(fill.from, Marks!Cutoff(fill.time))
             hi == Marks!Target(fill.time)
             p == Marks!Published(mark, lo, hi, fill.from, fill.until)
  <1>1. /\ UNCHANGED <<now, hours, fact, loop>> /\ fill.pc = "publish" /\ mark' = p
        /\ fill' = Marks!NoFill
    BY DEF Marks!FillPublishes, Marks!Fills
  <1>2. /\ fill.pc # "none" /\ ReadWhole(fill.from, hi) /\ mark # Marks!NoRow
    BY <1>1, Parts DEF FillFits, FillAgrees
  <1>3. mark \in Marks!Row /\ Holds(mark, fact) /\ mark.target <= Marks!Target(now)
    BY <1>2, Parts DEF RowFits
  <1>4. /\ fill.from \in Nat /\ fill.until \in Nat /\ lo \in Nat /\ hi \in Nat /\ lo <= hi
        /\ fill.from <= lo /\ Marks!Cutoff(now) \in Nat
        /\ hi <= Marks!Target(now) /\ Marks!Target(now) \in Nat
    BY <1>2, FillBounds DEF Marks!Larger
  <1> HIDE DEF lo, hi
  <1>5. ReadWhole(lo, hi)
    BY <1>2, <1>4 DEF ReadWhole, Marks!Minute
  <1>6. Holds(p, fact)
    BY <1>3, <1>4, <1>5, PublishedHolds
  <1>7. ASSUME NEW known, NEW a \in Nat, NEW b \in Nat, NEW c \in Nat, NEW d \in Nat
        PROVE  /\ Marks!Joined(known, a, b, c, d).from \in Nat
               /\ Marks!Joined(known, a, b, c, d).to \in Nat
    BY <1>7 DEF Marks!Joined, Marks!Smaller, Marks!Larger
  <1>8. p \in Marks!Row /\ p.target <= Marks!Target(now) /\ p.current /\ p.frtCurrent
    <2> DEFINE span == Marks!Joined(mark.current, mark.from, mark.next, lo, hi)
               frt == Marks!Joined(mark.frtCurrent, mark.frtFrom, mark.frtThrough, lo, hi)
               full == Marks!Joined(mark.hourCurrent, mark.hourFrom, mark.hourTo, fill.from,
                  fill.until)
               empty == ~(mark.current /\ mark.next > mark.from)
    <2>1. /\ mark.next \in Nat /\ mark.from \in Nat /\ mark.frtFrom \in Nat
          /\ mark.frtThrough \in Nat /\ mark.hourFrom \in Nat /\ mark.hourTo \in Nat
          /\ mark.target \in Nat
      BY <1>3 DEF Marks!Row
    <2>2. /\ span.from \in Nat /\ span.to \in Nat /\ frt.from \in Nat /\ frt.to \in Nat
          /\ full.from \in Nat /\ full.to \in Nat
      BY <1>4, <1>7, <2>1
    <2>3. p = [next |-> Marks!Larger(mark.next, hi), target |-> Marks!Larger(mark.target, hi),
               current |-> TRUE,
               from |-> IF empty /\ mark.next > hi THEN mark.next ELSE span.from,
               frtFrom |-> frt.from, frtThrough |-> frt.to, frtCurrent |-> TRUE,
               hourFrom |-> full.from, hourTo |-> full.to, hourCurrent |-> TRUE]
      BY DEF Marks!Published
    <2> HIDE DEF p, span, frt, full
    <2>4. Marks!Larger(mark.next, hi) \in Nat /\ Marks!Larger(mark.target, hi) \in Nat
          /\ Marks!Larger(mark.target, hi) <= Marks!Target(now)
      BY <1>3, <1>4, <2>1 DEF Marks!Larger
    <2> QED BY <2>1, <2>2, <2>3, <2>4 DEF Marks!Row
  <1> HIDE DEF p
  <1>9. mark' # Marks!NoRow
    BY <1>1, <1>8, RowIsThere
  <1>10. RowFits' /\ Keeps
    BY <1>1, <1>6, <1>8, <1>9, NewRowFits DEF Keeps
  <1>11. Stays(fact')
    BY <1>1, SameFacts
  <1>12. HoursFit'
    BY <1>1, Parts DEF HoursFit, Marks!MinutesOf
  <1>13. FillFits'
    BY <1>1, QuietFill
  <1> QED BY <1>1, <1>10, <1>11, <1>12, <1>13, SameLoop, Together

-----------------------------------------------------------------------------
\* A restart forgets the turn and the backfill; the row and the facts are there.
LEMMA RestartStep == ASSUME MarksConstants, MarksInv, Marks!Restart PROVE MarksInv'
  <1>1. /\ now' = now /\ mark' = mark /\ loop' = Marks!Resting /\ fill' = Marks!NoFill
        /\ \/ fact' = fact /\ hours' = hours
           \/ /\ fact' \in {fact, Marks!Read(now - Lookback, now)}
              /\ hours' = Marks!RollSince(fact', Marks!Cutoff(now))
    BY DEF Marks!Restart
  <1>2. now - Lookback \in Int /\ now \in Int
    BY DEF MarksConstants, MarksInv, Marks!TypeOK
  <1>3. Stays(fact')
    BY <1>1, <1>2, SameFacts, ReadStays
  <1>4. HoursFit'
    <2>1. HoursFit
      BY Parts
    <2>2. \A h \in Followed : hours'[h] \subseteq Marks!MinutesOf(h)
      BY <1>1, <2>1, SummedFits DEF HoursFit
    <2> QED BY <2>2 DEF HoursFit, Marks!MinutesOf
  <1>5. LoopFits'
    BY <1>1, QuietLoop DEF Marks!Resting
  <1> QED BY <1>1, <1>3, <1>4, <1>5, SameRow, QuietFill, Together

\* A minute passes: more may be final and less is asked for.
LEMMA TickStep == ASSUME MarksConstants, MarksInv, Marks!Tick PROVE MarksInv'
  <1>1. /\ now < LastMinute /\ now' = now + 1 /\ UNCHANGED <<fact, hours, mark, loop, fill>>
    BY DEF Marks!Tick
  <1>2. /\ now \in FirstMinute .. LastMinute /\ now + 1 \in FirstMinute .. LastMinute
        /\ now \in Nat /\ now <= now + 1
    BY <1>1 DEF MarksConstants, MarksInv, Marks!TypeOK
  <1>3. /\ Marks!Target(now) \in Nat /\ Marks!Target(now) <= Marks!Target(now + 1)
        /\ Marks!Cutoff(now) \in Nat /\ Marks!Cutoff(now) <= Marks!Cutoff(now + 1)
    BY <1>2, Edges
  <1>4. Marks!Target(now + 1) \in Nat /\ Marks!Cutoff(now + 1) \in Nat
    BY <1>2, Edges
  <1>5. /\ Marks!Target(now)' = Marks!Target(now + 1) /\ Marks!Cutoff(now)' = Marks!Cutoff(now + 1)
    BY <1>1 DEF Marks!Target, Marks!Cutoff
  <1>6. /\ now \in FirstMinute .. LastMinute /\ fact \in [Marks!Minute -> Marks!Kinds]
        /\ HoursFit /\ RowFits /\ LoopFits /\ FillFits /\ FactsAgree
    BY Parts
  <1>7. \A m \in Marks!Minute : m \in Nat /\ (m >= Marks!Cutoff(now + 1) => m >= Marks!Cutoff(now))
    BY <1>3, <1>4 DEF Marks!Minute
  <1>8. ASSUME NEW x \in Nat, x <= Marks!Target(now) PROVE x <= Marks!Target(now + 1)
    BY <1>3, <1>4, <1>8
  <1>9. FactsAgree'
    <2>1. \A m \in Marks!Minute : m < Marks!Target(now) => m < Marks!Target(now + 1)
      BY <1>3, <1>4, <1>7
    <2> QED
      BY <1>1, <1>5, <1>6, <2>1
      DEF FactsAgree, Marks!Minute, Marks!Whole, Marks!Target
  <1>10. RowFits'
    <2>1. CASE mark = Marks!NoRow
      BY <1>1, <1>6, <2>1 DEF RowFits
    <2>2. CASE mark # Marks!NoRow
      <3>1. mark \in Marks!Row /\ mark.target <= Marks!Target(now) /\ Holds(mark, fact)
        BY <1>6, <2>2 DEF RowFits
      <3>2. mark.target \in Nat
        BY <3>1 DEF Marks!Row
      <3>3. mark'.target <= Marks!Target(now)'
        BY <1>1, <1>5, <1>8, <3>1, <3>2
      <3>4. Holds(mark, fact)'
        BY <1>1, <1>5, <1>7, <3>1 DEF Holds, Marks!Minute, Marks!Whole
      <3> QED BY <1>1, <3>1, <3>3, <3>4 DEF RowFits
    <2> QED BY <2>1, <2>2
  <1>11. \A a, b : ReadWhole(a, b) =>
            \A m \in Marks!Minute : a <= m /\ m < b /\ m >= Marks!Cutoff(now + 1) => fact[m] = "final"
    BY <1>7 DEF ReadWhole
  <1>12. LoopFits'
    <2>1. loop.pc \in {"advance", "replayed"} => ReadWhole(loop.from, loop.to)'
      BY <1>1, <1>5, <1>6, <1>11 DEF LoopFits, LoopAgrees, ReadWhole, Marks!Minute
    <2>2. loop.pc # "rest" => loop.time \in FirstMinute .. now'
      BY <1>1, <1>2, <1>6 DEF LoopFits, MarksConstants
    <2>3. loop.pc = "advance" => loop.row.target <= Marks!Target(now + 1)
      <3>1. ASSUME loop.pc = "advance"
            PROVE  loop.row.target \in Nat /\ loop.row.target <= Marks!Target(now)
        BY <1>6, <3>1 DEF LoopFits, LoopAgrees, Marks!Row
      <3> QED BY <1>8, <3>1
    <2>4. LoopAgrees'
      BY <1>1, <1>5, <1>6, <1>7, <2>1, <2>3
      DEF LoopFits, LoopAgrees, Continues, Marks!Minute
    <2> QED BY <1>1, <1>6, <2>2, <2>4 DEF LoopFits, Marks!Minute
  <1>13. FillFits'
    <2>1. fill.pc # "none" => fill.time \in FirstMinute .. now'
      BY <1>1, <1>2, <1>6 DEF FillFits, FillAgrees, MarksConstants
    <2>2. FillAgrees'
      <3>1. ASSUME NEW a, NEW b, ReadWhole(a, b)
            PROVE  \A m \in Marks!Minute :
                      a <= m /\ m < b /\ m >= Marks!Cutoff(now)' => fact'[m] = "final"
        BY <1>1, <1>5, <1>11, <3>1
      <3>2. fill.pc \in {"load", "publish"} => ReadWhole(fill.from, Marks!Target(fill.time))'
        BY <1>1, <1>6, <3>1 DEF FillFits, FillAgrees, ReadWhole, Marks!Minute, Marks!Target
      <3>3. fill.pc # "none" /\ ~fill.failed =>
               ReadWhole(fill.from, fill.at + (IF fill.pc = "roll" THEN HourLen ELSE 0))'
        BY <1>1, <1>6, <3>1 DEF FillFits, FillAgrees, ReadWhole, Marks!Minute
      <3> QED BY <1>1, <1>6, <2>1, <3>2, <3>3 DEF FillFits, FillAgrees, Marks!Target
    <2> QED BY <1>1, <1>6, <2>2 DEF FillFits
  <1>14. HoursFit'
    BY <1>1, <1>6 DEF HoursFit, Marks!MinutesOf
  <1>15. Marks!CoverageIsHeld'
    BY <1>10 DEF RowFits, Holds, Marks!CoverageIsHeld, Marks!Requests, Marks!Frt
  <1>16. now' \in FirstMinute .. LastMinute /\ fact' \in [Marks!Minute -> Marks!Kinds]
    BY <1>1, <1>2, <1>6
  <1> QED
    BY <1>9, <1>10, <1>12, <1>13, <1>14, <1>15, <1>16
    DEF MarksInv, Marks!TypeOK, HoursFit, RowFits, LoopFits, FillFits, Marks!Minute, Marks!Hour,
        Marks!MinutesOf

\* A store with facts of one kind and the row that knows of them.
LEMMA StoreFits ==
  ASSUME MarksConstants, now = FirstMinute, loop = Marks!Resting, fill = Marks!NoFill,
         NEW kind \in {"none", "legacy", "old"}, NEW row, Marks!Store(kind, row),
         \/ row = Marks!NoRow
         \/ kind = "legacy" /\ row = Marks!Upgraded(TRUE, FALSE)
         \/ row = Marks!Upgraded(FALSE, TRUE)
  PROVE  MarksInv
  <1>1. now = FirstMinute /\ loop = Marks!Resting /\ fill = Marks!NoFill
    OBVIOUS
  <1>2. /\ FirstMinute \in FirstMinute .. LastMinute /\ FirstMinute <= FirstMinute
        /\ HourLen \in Nat \ {0}
    BY DEF MarksConstants
  <1>3. /\ Marks!Target(FirstMinute) \in Nat /\ Marks!Cutoff(FirstMinute) \in Nat
        /\ Marks!Cutoff(FirstMinute) <= Marks!Target(FirstMinute)
    BY <1>2, Edges
  <1>4. /\ Marks!FloorHour(Marks!Target(FirstMinute)) \in Nat
        /\ Marks!FloorHour(Marks!Cutoff(FirstMinute) + HourLen - 1) \in Nat
    <2>1. Marks!Cutoff(FirstMinute) + HourLen - 1 \in Nat
      BY <1>2, <1>3
    <2> QED BY <1>2, <1>3, <2>1, Rounded DEF Marks!FloorHour
  <1>5. \A c, f \in BOOLEAN :
           /\ Marks!Upgraded(c, f) \in Marks!Row
           /\ Marks!Upgraded(c, f).target = Marks!Target(FirstMinute)
           /\ Marks!Upgraded(c, f).current = c /\ Marks!Upgraded(c, f).frtCurrent = f
           /\ Marks!Upgraded(c, f).next = Marks!Target(FirstMinute)
           /\ Marks!Upgraded(c, f).from = Marks!Cutoff(FirstMinute)
    BY <1>3, <1>4 DEF Marks!Upgraded, Marks!Row
  <1>6. /\ fact = [m \in Marks!Minute |-> IF m \in Marks!Held THEN kind ELSE "none"]
        /\ hours = [h \in Followed |-> IF kind = "legacy" THEN Marks!MinutesOf(h) \cap Marks!Held
              ELSE {}]
        /\ mark = row
    BY DEF Marks!Store
  <1>7. \A m \in Marks!Minute :
           /\ m \in Marks!Held <=> Marks!Cutoff(FirstMinute) <= m /\ m < Marks!Target(FirstMinute)
    BY <1>3 DEF Marks!Held, Marks!Minute
  <1>8. fact \in [Marks!Minute -> Marks!Kinds] /\ FactsAgree
    BY <1>1, <1>6, <1>7 DEF FactsAgree, Marks!Kinds, Marks!Whole
  <1>9. HoursFit
    BY <1>6 DEF HoursFit
  <1>10. RowFits
    <2>1. CASE row = Marks!NoRow
      BY <1>6, <2>1 DEF RowFits
    <2>2. CASE kind = "legacy" /\ row = Marks!Upgraded(TRUE, FALSE)
      <3>1. ASSUME NEW m \in Marks!Minute, m >= Marks!Cutoff(now), mark.from <= m, m < mark.next
            PROVE  Marks!Whole(fact, m)
        <4>1. m \in Marks!Held
          BY <1>5, <1>6, <1>7, <2>2, <3>1
        <4> QED BY <1>6, <2>2, <4>1 DEF Marks!Whole
      <3>2. ~mark.frtCurrent
        BY <1>5, <1>6, <2>2
      <3>3. Holds(mark, fact)
        BY <3>1, <3>2 DEF Holds
      <3>4. mark \in Marks!Row /\ mark.target = Marks!Target(now)
        BY <1>1, <1>5, <1>6, <2>2
      <3> QED BY <1>1, <1>3, <3>3, <3>4 DEF RowFits
    <2>3. CASE row = Marks!Upgraded(FALSE, TRUE)
      <3>1. mark \in Marks!Row /\ mark.target = Marks!Target(now) /\ ~mark.current
        BY <1>1, <1>5, <1>6, <2>3
      <3>2. Holds(mark, fact)
        BY <3>1 DEF Holds
      <3> QED BY <1>1, <1>3, <3>1, <3>2 DEF RowFits
    <2> QED BY <2>1, <2>2, <2>3
  <1>11. LoopFits /\ FillFits
    BY <1>1 DEF LoopFits, LoopAgrees, FillFits, FillAgrees, Marks!Resting, Marks!NoFill
  <1> QED BY <1>1, <1>2, <1>8, <1>9, <1>10, <1>11, Parts

\* A new store, and the upgraded ones.
LEMMA MarksFirst == ASSUME MarksConstants, Marks!Init PROVE MarksInv
  <1>1. now = FirstMinute /\ loop = Marks!Resting /\ fill = Marks!NoFill
    BY DEF Marks!Init
  <1>2. \/ Marks!Store("none", Marks!NoRow)
        \/ Marks!Store("legacy", Marks!Upgraded(TRUE, FALSE))
        \/ Marks!Store("old", Marks!Upgraded(FALSE, TRUE))
    BY DEF Marks!Init
  <1> QED BY <1>1, <1>2, StoreFits

\* Every step keeps the invariant.
LEMMA MarksStep == ASSUME MarksConstants, MarksInv, [Marks!Next]_Marks!vars PROVE MarksInv'
  <1>1. CASE UNCHANGED Marks!vars
    <2>1. /\ UNCHANGED <<now, fact, hours, mark, loop, fill>>
      BY <1>1 DEF Marks!vars
    <2>2. Stays(fact') /\ Keeps
      BY <2>1, SameFacts DEF Keeps
    <2>3. HoursFit'
      BY <2>1, Parts DEF HoursFit, Marks!MinutesOf
    <2> QED BY <2>1, <2>2, <2>3, SameRow, SameLoop, SameFill, Together
  <1> QED
    BY <1>1, SampleStep, FinalizeStep, FinalizeFailsStep, AdvanceStep, ReplayStep, ReplaySavesStep,
       SkipStep, MaintainStep, StartStep, FillReadsStep, FillRollsStep, FillFailsStep, FillTailStep,
       FillLoadsStep, FillPublishesStep, RestartStep, TickStep DEF Marks!Next

\* metricWindowCoverage: what the row covers was read when it was final, whatever the loop, the
\* backfill, the pruning and a restart do.
THEOREM CoverageAlwaysHeld ==
  MarksConstants => (Marks!Spec => [](Marks!TypeOK /\ Marks!CoverageIsHeld))
  <1> SUFFICES ASSUME MarksConstants PROVE Marks!Spec => [](Marks!TypeOK /\ Marks!CoverageIsHeld)
    OBVIOUS
  <1>1. Marks!Init => MarksInv
    BY MarksFirst
  <1>2. MarksInv /\ [Marks!Next]_Marks!vars => MarksInv'
    BY MarksStep
  <1>3. MarksInv => Marks!TypeOK /\ Marks!CoverageIsHeld
    BY DEF MarksInv
  <1> QED BY <1>1, <1>2, <1>3, PTL DEF Marks!Spec

-----------------------------------------------------------------------------
(* The usage facts of a rolling window: a cursor stands for imported hours, and*)
(* a member becomes readable as a whole.                                    *)

CONSTANTS Members, FirstMembers, HoursPerDay, WindowDays, RetainedDays, TailHours, FirstEnd, LastEnd,
          MaxLate, MaxChanges, MaxCrashes, MaxFailures, MaxRepairs

VARIABLES control, source, upto, copied, proof, running, leased, daily, mirror, sync, turn, spent

Usage == INSTANCE UsageFacts WITH end <- upto, fact <- copied, loop <- turn

\* No operator asks for a repair, and crashes do not meet failing queries.
Unrepaired == MaxRepairs = 0 /\ (MaxCrashes = 0 \/ MaxFailures = 0)

UsageConstants ==
    /\ {HoursPerDay, WindowDays, RetainedDays, TailHours, FirstEnd, LastEnd} \subseteq Nat \ {0}
    /\ {MaxLate, MaxChanges, MaxCrashes, MaxFailures, MaxRepairs} \subseteq Nat
    /\ RetainedDays <= WindowDays /\ LastEnd % HoursPerDay = 0
    /\ WindowDays * HoursPerDay <= FirstEnd /\ FirstEnd <= LastEnd
    /\ FirstMembers \subseteq Members /\ IsFiniteSet(Members)

Revs == 0 .. MaxChanges + 1
RepairRows == [active : BOOLEAN, from : Nat, through : Nat, fp : SUBSET Members,
            resume : [Members -> 0 .. LastEnd]]
Syncs == [fp : SUBSET Members, served : [Members -> Revs], from : 0 .. LastEnd,
          through : 0 .. LastEnd, repair : RepairRows, pruned : Int, reconcile : 0 .. LastEnd]
Turns == [at : Usage!Places, job : Usage!Jobs, end : 0 .. LastEnd, ids : SUBSET Members,
          hour : 0 .. LastEnd, rows : [Members -> Usage!Versions],
             before : [Members -> Usage!Versions],
          seen : SUBSET Syncs]

WorldFits ==
    /\ control \in [Members -> [active : BOOLEAN, left : 0 .. LastEnd, rev : Revs]]
    /\ spent \in [late : 0 .. MaxLate, changes : 0 .. MaxChanges, crashes : 0 .. MaxCrashes,
                  failures : 0 .. MaxFailures, repairs : 0 .. MaxRepairs]
    /\ \A m \in Members : control[m].rev <= spent.changes + 1
    /\ source \in [Members -> [Usage!Hours -> Usage!Versions]]
    /\ \A m \in Members, h \in Usage!Hours : source[m][h] \in 1 .. spent.late + 1
    /\ upto \in FirstEnd .. LastEnd

StoresFit ==
    /\ copied \in [Members -> [Usage!Hours -> Usage!Versions]]
    /\ proof \in [Members -> [Usage!Hours -> Usage!Versions]]
    /\ daily \in [Members -> [Usage!Hours -> Usage!Versions]]
    /\ running \subseteq Members \X Usage!Hours /\ leased \in BOOLEAN

MirrorFits ==
    /\ mirror \in [Members -> [active : BOOLEAN, rev : Revs, cursor : 0 .. LastEnd]]
    /\ sync \in Syncs
    /\ \A m \in Members : sync.served[m] <= control[m].rev

TurnFits ==
    /\ turn \in Turns
    /\ turn.at \notin {"top", "start"} => turn.end \in FirstEnd .. upto
    /\ turn.at \in {"hour", "claimed"} =>
          turn.job \in {"tail", "backfill", "reconcile"} /\ turn.hour < turn.end
    /\ turn.at = "pruning" => turn.seen = {sync}

\* The hour the turn reckons from.
Base == IF turn.at \in {"top", "start"} THEN upto ELSE turn.end

\* The hours of the window below a cursor have been imported.
Prefix(m, from, to) ==
    \A h \in Usage!Hours : Base - Usage!Window <= h /\ from <= h /\ h < to => proof[m][h] > 0

CursorsAgree ==
    /\ \A m \in Members : Prefix(m, 0, mirror[m].cursor)
    /\ sync.repair.active =>
          \A m \in Members : Prefix(m, sync.repair.through, sync.repair.resume[m])
    /\ turn.at = "cursor" \/ (turn.at \in {"hour", "claimed"} /\ turn.job = "backfill") =>
          \A m \in turn.ids : Prefix(m, 0, turn.hour)

ClaimAgrees ==
    /\ turn.at = "claimed" =>
          \A m \in turn.ids : turn.rows[m] \in Usage!Versions \ {0}
             /\ turn.before[m] \in Usage!Versions
    /\ MaxCrashes = 0 =>
          /\ turn.at # "claimed" => running = {}
          /\ turn.at = "claimed" =>
                /\ running = Usage!Held
                /\ \A m \in turn.ids : turn.before[m] = proof[m][turn.hour]

UsageInv == WorldFits /\ StoresFit /\ MirrorFits /\ TurnFits /\ CursorsAgree /\ ClaimAgrees

-----------------------------------------------------------------------------
\* The counts, and the hour that is reckoned from.
LEMMA Counts ==
  ASSUME UsageConstants, UsageInv
  PROVE  /\ {HoursPerDay, WindowDays, RetainedDays, TailHours, FirstEnd, LastEnd} \subseteq Nat \ {0}
         /\ {MaxLate, MaxChanges, MaxCrashes, MaxFailures, MaxRepairs} \subseteq Nat
         /\ Usage!Window \in Nat /\ Usage!Window <= FirstEnd /\ FirstEnd <= LastEnd
         /\ upto \in FirstEnd .. LastEnd /\ upto \in Nat
         /\ Base \in FirstEnd .. upto /\ Base \in Nat /\ Base - Usage!Window \in Nat
         /\ Usage!Hours = 0 .. LastEnd - 1
  <1>1. Usage!Window \in Nat /\ Usage!Window <= FirstEnd
    BY DEF UsageConstants, Usage!Window
  <1>2. upto \in FirstEnd .. LastEnd
    BY DEF UsageInv, WorldFits
  <1>3. Base \in FirstEnd .. upto
    BY <1>2 DEF UsageConstants, UsageInv, TurnFits, Base
  <1> QED BY <1>1, <1>2, <1>3 DEF UsageConstants, Usage!Hours

\* The same of the clock and of the window's ends, one by one.
LEMMA Ends ==
  ASSUME UsageConstants, UsageInv
  PROVE  /\ LastEnd \in Nat /\ FirstEnd \in Nat /\ FirstEnd > 0 /\ TailHours \in Nat /\ TailHours > 0
         /\ upto \in Nat /\ FirstEnd <= upto /\ upto <= LastEnd
         /\ Base \in Nat /\ Base <= upto
         /\ Usage!Window \in Nat /\ Usage!Window <= Base
         /\ Base - Usage!Window \in Nat /\ Base >= FirstEnd /\ Usage!Hours = 0 .. LastEnd - 1
  <1>1. LastEnd \in Nat /\ FirstEnd \in Nat \ {0} /\ TailHours \in Nat \ {0}
    BY DEF UsageConstants
  <1>2. upto \in FirstEnd .. LastEnd /\ Base \in FirstEnd .. upto
    BY Counts
  <1>3. Usage!Window \in Nat /\ Usage!Window <= FirstEnd /\ Usage!Hours = 0 .. LastEnd - 1
    BY Counts
  <1> QED BY <1>1, <1>2, <1>3

\* Nothing of the world changes.
LEMMA SameWorld ==
  ASSUME UsageInv, control' = control, source' = source, upto' = upto, spent' = spent
  PROVE  WorldFits'
  BY DEF UsageInv, WorldFits, Revs, Usage!Hours, Usage!Versions

\* Nothing of the stores changes.
LEMMA SameStores ==
  ASSUME UsageInv, copied' = copied, proof' = proof, running' = running, leased' = leased,
         daily' = daily
  PROVE  StoresFit'
  BY DEF UsageInv, StoresFit, Usage!Hours, Usage!Versions

\* Nothing of the mirror changes.
LEMMA SameMirror ==
  ASSUME UsageInv, control' = control, mirror' = mirror, sync' = sync
  PROVE  MirrorFits'
  BY DEF UsageInv, MirrorFits, Revs, Syncs, RepairRows

\* Later, with every proof kept, what was imported is so still.
LEMMA Carries ==
  ASSUME UsageInv, Base \in Int, Base' \in Int, Usage!Window \in Int, Base <= Base',
         \A m \in Members, h \in Usage!Hours : proof[m][h] > 0 => proof'[m][h] > 0
  PROVE  \A a, b : \A m \in Members : Prefix(m, a, b) =>
            \A h \in Usage!Hours :
               Base' - Usage!Window <= h /\ a <= h /\ h < b => proof'[m][h] > 0
  <1>1. \A x, y, w, h \in Int : x <= y /\ y - w <= h => x - w <= h
    OBVIOUS
  <1>2. \A h \in Usage!Hours : h \in Int
    BY DEF Usage!Hours
  <1>3. \A h \in Usage!Hours : Base' - Usage!Window <= h => Base - Usage!Window <= h
    BY <1>1, <1>2
  <1> QED BY <1>3 DEF Prefix

\* So are the runs below the cursors, and above a repair.
CursorsHold ==
    /\ \A m \in Members : Prefix(m, 0, mirror[m].cursor)
    /\ sync.repair.active =>
          \A m \in Members : Prefix(m, sync.repair.through, sync.repair.resume[m])

\* The cursors stand for complete hours while no proof is lost and no cursor moves.
LEMMA SameCursors ==
  ASSUME UsageConstants, UsageInv, Base' \in Int, Base <= Base',
         \A m \in Members, h \in Usage!Hours : proof[m][h] > 0 => proof'[m][h] > 0,
         \A m \in Members : mirror'[m].cursor = mirror[m].cursor, sync'.repair = sync.repair
  PROVE  CursorsHold'
  <1>1. \A a, b : \A m \in Members : Prefix(m, a, b) =>
            \A h \in Usage!Hours :
               Base' - Usage!Window <= h /\ a <= h /\ h < b => proof'[m][h] > 0
    <2>1. Base \in Int /\ Usage!Window \in Int
      BY Ends
    <2> QED BY <2>1, Carries, SMTT(20)
  <1>2. \A m \in Members : Prefix(m, 0, mirror[m].cursor)
    BY DEF UsageInv, CursorsAgree
  <1>3. sync.repair.active =>
          \A m \in Members : Prefix(m, sync.repair.through, sync.repair.resume[m])
    BY DEF UsageInv, CursorsAgree
  <1>4. \A m \in Members : \A h \in Usage!Hours :
           Base' - Usage!Window <= h /\ 0 <= h /\ h < mirror'[m].cursor => proof'[m][h] > 0
    BY <1>1, <1>2
  <1>5. sync'.repair.active => \A m \in Members : \A h \in Usage!Hours :
           Base' - Usage!Window <= h /\ sync'.repair.through <= h /\ h < sync'.repair.resume[m]
              => proof'[m][h] > 0
    BY <1>1, <1>3
  <1> QED BY <1>4, <1>5 DEF CursorsHold, Prefix, Usage!Hours, Usage!Window

\* The top of the loop.
LEMMA TopFits == ASSUME UsageConstants PROVE Usage!Top \in Turns
  <1>1. 0 \in 0 .. LastEnd /\ 0 \in Usage!Versions
    BY DEF UsageConstants, Usage!Versions
  <1>2. Usage!NoHour \in [Members -> Usage!Versions]
    BY <1>1 DEF Usage!NoHour
  <1>3. "top" \in Usage!Places /\ "none" \in Usage!Jobs
    BY DEF Usage!Places, Usage!Jobs
  <1> QED BY <1>1, <1>2, <1>3 DEF Usage!Top, Turns

\* No hour is owned before and after.
LEMMA Unclaimed ==
  ASSUME UsageInv, turn.at # "claimed", turn'.at # "claimed", running' = running
  PROVE  ClaimAgrees'
  BY DEF UsageInv, ClaimAgrees

\* The loop goes on without an hour, and leaves proofs and cursors alone.
LEMMA MoveOn ==
  ASSUME UsageConstants, UsageInv, control' = control, source' = source, upto' = upto,
         spent' = spent, mirror' = mirror, proof' = proof, running' = running, StoresFit',
         turn.at # "claimed", turn' \in Turns,
         turn'.at \notin {"hour", "claimed", "cursor"},
         turn'.at \notin {"top", "start"} => turn'.end = Base,
         turn'.at = "pruning" => turn'.seen = {sync'},
         sync' \in Syncs, sync'.repair = sync.repair,
         \A m \in Members : sync'.served[m] <= control[m].rev
  PROVE  UsageInv'
  <1>1. WorldFits'
    BY SameWorld
  <1>2. MirrorFits'
    BY DEF UsageInv, MirrorFits, Revs, Syncs, RepairRows
  <1>3. TurnFits'
    BY Counts DEF TurnFits, Turns, Usage!Places, Usage!Jobs, Usage!Versions, Syncs, RepairRows, Revs
  <1>4. Base' \in Int /\ Base <= Base'
    BY Ends DEF Base
  <1>5. CursorsHold'
    BY <1>4, SameCursors
  <1>6. CursorsAgree'
    BY <1>5 DEF CursorsAgree, CursorsHold
  <1>7. ClaimAgrees'
    BY Unclaimed
  <1> QED BY <1>1, <1>2, <1>3, <1>6, <1>7 DEF UsageInv

-----------------------------------------------------------------------------
(* The world around the loop.                                               *)

\* The loop stays where it is.
LEMMA SameTurn ==
  ASSUME UsageConstants, UsageInv, turn' = turn, mirror' = mirror, sync' = sync, proof' = proof,
         running' = running, upto' \in FirstEnd .. LastEnd, upto <= upto'
  PROVE  TurnFits' /\ CursorsAgree' /\ ClaimAgrees'
  <1>0. turn.at \notin {"top", "start"} => turn.end \in FirstEnd .. upto'
    <2>1. turn.at \notin {"top", "start"} => turn.end \in FirstEnd .. upto
      BY DEF UsageInv, TurnFits
    <2>2. upto \in Int /\ upto' \in Int /\ FirstEnd \in Int
      BY Ends
    <2> QED BY <2>1, <2>2
  <1>1. TurnFits'
    BY <1>0 DEF UsageInv, TurnFits, Turns, Usage!Places, Usage!Jobs, Usage!Versions, Syncs,
       RepairRows, Revs
  <1>2. Base' \in Int /\ Base <= Base'
    BY Ends DEF UsageInv, TurnFits, Turns, Base
  <1>3. CursorsHold'
    BY <1>2, SameCursors
  <1>4. turn.at = "cursor" \/ (turn.at \in {"hour", "claimed"} /\ turn.job = "backfill") =>
          \A m \in turn.ids : Prefix(m, 0, turn.hour)'
    <2>1. Base' = Base \/ turn.at \in {"top", "start"}
      BY DEF Base
    <2> QED BY <2>1 DEF UsageInv, CursorsAgree, Prefix, Usage!Hours, Usage!Window
  <1>5. CursorsAgree'
    BY <1>3, <1>4 DEF UsageInv, CursorsAgree, CursorsHold
  <1>6. ClaimAgrees'
    BY DEF UsageInv, ClaimAgrees, Usage!Held, Usage!Versions
  <1> QED BY <1>1, <1>5, <1>6

\* An hour closes: the window moves on.
LEMMA CloseHourStep == ASSUME UsageConstants, UsageInv, Usage!CloseHour PROVE UsageInv'
  <1>1. /\ upto < LastEnd /\ upto' = upto + 1
        /\ UNCHANGED <<control, source, copied, proof, running, leased, daily, mirror, sync, turn,
                       spent>>
    BY DEF Usage!CloseHour, Usage!stores
  <1>2. upto' \in FirstEnd .. LastEnd /\ upto <= upto'
    BY <1>1, Ends
  <1>3. WorldFits'
    BY <1>1, <1>2 DEF UsageInv, WorldFits, Revs, Usage!Hours, Usage!Versions
  <1> QED BY <1>1, <1>2, <1>3, SameStores, SameMirror, SameTurn DEF UsageInv

\* Logs arrive late: the source's hour has another version.
LEMMA LateLogStep ==
  ASSUME UsageConstants, UsageInv, NEW m \in Members, NEW h \in Usage!Hours, Usage!LateLog(m, h)
  PROVE  UsageInv'
  <1>1. /\ UNCHANGED <<upto, control, copied, proof, running, leased, daily, mirror, sync, turn>>
        /\ spent.late < MaxLate
        /\ source' = [source EXCEPT ![m][h] = @ + 1]
        /\ spent' = [spent EXCEPT !["late"] = @ + 1]
    BY DEF Usage!LateLog, Usage!stores, Usage!Spend
  <1>2. upto' \in FirstEnd .. LastEnd /\ upto <= upto'
    BY <1>1, Ends
  <1>3. /\ spent \in [late : 0 .. MaxLate, changes : 0 .. MaxChanges, crashes : 0 .. MaxCrashes,
                      failures : 0 .. MaxFailures, repairs : 0 .. MaxRepairs]
        /\ source \in [Members -> [Usage!Hours -> Usage!Versions]]
        /\ \A n \in Members, i \in Usage!Hours : source[n][i] \in 1 .. spent.late + 1
        /\ MaxLate \in Nat
    BY Counts DEF UsageInv, WorldFits
  <1>4. /\ spent' \in [late : 0 .. MaxLate, changes : 0 .. MaxChanges, crashes : 0 .. MaxCrashes,
                       failures : 0 .. MaxFailures, repairs : 0 .. MaxRepairs]
        /\ spent'.late = spent.late + 1 /\ spent'.changes = spent.changes
    BY <1>1, <1>3
  <1>5. \A n \in Members, i \in Usage!Hours :
           source'[n][i] = IF n = m /\ i = h THEN source[n][i] + 1 ELSE source[n][i]
    BY <1>1, <1>3
  <1>6. \A n \in Members, i \in Usage!Hours : source'[n][i] \in 1 .. spent'.late + 1
    BY <1>3, <1>4, <1>5
  <1>7. source' \in [Members -> [Usage!Hours -> Usage!Versions]]
    <2>1. source[m][h] + 1 \in Usage!Versions
      BY <1>1, <1>3 DEF Usage!Versions
    <2> QED BY <1>1, <1>3, <2>1
  <1>8. WorldFits'
    BY <1>1, <1>2, <1>4, <1>6, <1>7 DEF UsageInv, WorldFits, Revs, Usage!Hours, Usage!Versions
  <1> QED BY <1>1, <1>2, <1>8, SameStores, SameMirror, SameTurn DEF UsageInv

\* addUsageMember: the member has a revision that nobody has published.
LEMMA AddMemberStep ==
  ASSUME UsageConstants, UsageInv, NEW m \in Members, Usage!AddMember(m)
  PROVE  UsageInv' /\ ~Usage!Readable(m)'
  <1>1. /\ upto' = upto /\ source' = source /\ spent.changes < MaxChanges /\ ~control[m].active
        /\ UNCHANGED <<copied, proof, running, leased, daily, mirror, sync, turn>>
        /\ control' = [control EXCEPT ![m].active = TRUE, ![m].rev = @ + 1]
        /\ spent' = [spent EXCEPT !["changes"] = @ + 1]
    BY DEF Usage!AddMember, Usage!stores, Usage!Spend
  <1>2. upto' \in FirstEnd .. LastEnd /\ upto <= upto'
    BY <1>1, Ends
  <1>3. /\ spent \in [late : 0 .. MaxLate, changes : 0 .. MaxChanges, crashes : 0 .. MaxCrashes,
                      failures : 0 .. MaxFailures, repairs : 0 .. MaxRepairs]
        /\ control \in [Members -> [active : BOOLEAN, left : 0 .. LastEnd, rev : Revs]]
        /\ \A n \in Members : control[n].rev <= spent.changes + 1
        /\ MaxChanges \in Nat
    BY Counts DEF UsageInv, WorldFits
  <1>4. /\ spent' \in [late : 0 .. MaxLate, changes : 0 .. MaxChanges, crashes : 0 .. MaxCrashes,
                       failures : 0 .. MaxFailures, repairs : 0 .. MaxRepairs]
        /\ spent'.changes = spent.changes + 1 /\ spent'.late = spent.late
    BY <1>1, <1>3
  <1>5. control[m].rev + 1 \in Revs
    BY <1>1, <1>3 DEF Revs
  <1>6. /\ control' \in [Members -> [active : BOOLEAN, left : 0 .. LastEnd, rev : Revs]]
        /\ \A n \in Members : control'[n].rev = IF n = m THEN control[n].rev + 1 ELSE control[n].rev
    BY <1>1, <1>3, <1>5
  <1>7. \A n \in Members : control'[n].rev <= spent'.changes + 1 /\ control[n].rev <= control'[n].rev
    BY <1>3, <1>4, <1>6 DEF Revs
  <1>8. WorldFits'
    BY <1>1, <1>2, <1>4, <1>6, <1>7 DEF UsageInv, WorldFits, Revs, Usage!Hours, Usage!Versions
  <1>9. /\ mirror \in [Members -> [active : BOOLEAN, rev : Revs, cursor : 0 .. LastEnd]]
        /\ sync \in Syncs /\ \A n \in Members : sync.served[n] <= control[n].rev
        /\ \A n \in Members : sync.served[n] \in Nat /\ control[n].rev \in Nat
              /\ control'[n].rev \in Nat
    BY <1>3, <1>6 DEF UsageInv, MirrorFits, Syncs, Revs
  <1>a. \A n \in Members : sync'.served[n] <= control'[n].rev
    <2>1. sync' = sync
      BY <1>1
    <2> QED BY <1>7, <1>9, <2>1
  <1>10. MirrorFits'
    BY <1>1, <1>9, <1>a DEF MirrorFits, Revs, Syncs, RepairRows
  <1>11. sync.served[m] # control'[m].rev
    BY <1>6, <1>9
  <1>12. ~Usage!Readable(m)'
    BY <1>1, <1>11 DEF Usage!Readable, Usage!Compatible
  <1> QED BY <1>1, <1>2, <1>8, <1>10, <1>12, SameStores, SameTurn DEF UsageInv

\* A member is removed.
LEMMA RemoveMemberStep ==
  ASSUME UsageConstants, UsageInv, NEW m \in Members, Usage!RemoveMember(m)
  PROVE  UsageInv' /\ ~Usage!Readable(m)'
  <1>1. /\ UNCHANGED <<upto, source, copied, proof, running, leased, daily, mirror, sync, turn>>
        /\ spent.changes < MaxChanges
        /\ control' = [control EXCEPT ![m] = [active |-> FALSE, rev |-> @.rev + 1, left |-> upto]]
        /\ spent' = [spent EXCEPT !["changes"] = @ + 1]
    BY DEF Usage!RemoveMember, Usage!stores, Usage!Spend
  <1>2. upto' \in FirstEnd .. LastEnd /\ upto <= upto' /\ upto \in 0 .. LastEnd
    BY <1>1, Ends
  <1>3. /\ spent \in [late : 0 .. MaxLate, changes : 0 .. MaxChanges, crashes : 0 .. MaxCrashes,
                      failures : 0 .. MaxFailures, repairs : 0 .. MaxRepairs]
        /\ control \in [Members -> [active : BOOLEAN, left : 0 .. LastEnd, rev : Revs]]
        /\ \A n \in Members : control[n].rev <= spent.changes + 1
        /\ MaxChanges \in Nat
    BY Counts DEF UsageInv, WorldFits
  <1>4. /\ spent' \in [late : 0 .. MaxLate, changes : 0 .. MaxChanges, crashes : 0 .. MaxCrashes,
                       failures : 0 .. MaxFailures, repairs : 0 .. MaxRepairs]
        /\ spent'.changes = spent.changes + 1 /\ spent'.late = spent.late
    BY <1>1, <1>3
  <1>5. control[m].rev + 1 \in Revs
    BY <1>1, <1>3 DEF Revs
  <1>6. /\ control' \in [Members -> [active : BOOLEAN, left : 0 .. LastEnd, rev : Revs]]
        /\ \A n \in Members : control'[n].rev = IF n = m THEN control[n].rev + 1 ELSE control[n].rev
        /\ ~control'[m].active
    BY <1>1, <1>2, <1>3, <1>5
  <1>7. \A n \in Members : control'[n].rev <= spent'.changes + 1 /\ control[n].rev <= control'[n].rev
    BY <1>3, <1>4, <1>6 DEF Revs
  <1>8. WorldFits'
    BY <1>1, <1>2, <1>4, <1>6, <1>7 DEF UsageInv, WorldFits, Revs, Usage!Hours, Usage!Versions
  <1>9. /\ mirror \in [Members -> [active : BOOLEAN, rev : Revs, cursor : 0 .. LastEnd]]
        /\ sync \in Syncs /\ \A n \in Members : sync.served[n] <= control[n].rev
        /\ \A n \in Members : sync.served[n] \in Nat /\ control[n].rev \in Nat
              /\ control'[n].rev \in Nat
    BY <1>3, <1>6 DEF UsageInv, MirrorFits, Syncs, Revs
  <1>a. \A n \in Members : sync'.served[n] <= control'[n].rev
    <2>1. sync' = sync
      BY <1>1
    <2> QED BY <1>7, <1>9, <2>1
  <1>10. MirrorFits'
    BY <1>1, <1>9, <1>a DEF MirrorFits, Revs, Syncs, RepairRows
  <1>11. ~Usage!Readable(m)'
    BY <1>6 DEF Usage!Readable, Usage!Compatible
  <1> QED BY <1>1, <1>2, <1>8, <1>10, <1>11, SameStores, SameTurn DEF UsageInv

\* A start of the process forgets the loop's hour; its row stays as it is.
LEMMA CrashStep == ASSUME UsageConstants, UsageInv, Usage!Crash PROVE UsageInv'
  <1>1. /\ UNCHANGED <<upto, control, source, copied, proof, running, daily, mirror, sync>>
        /\ spent.crashes < MaxCrashes
        /\ leased' = (leased \/ running # {})
        /\ turn' = [Usage!Top EXCEPT !.at = "start"]
        /\ spent' = [spent EXCEPT !["crashes"] = @ + 1]
    BY DEF Usage!Crash, Usage!Spend
  <1>2. /\ spent \in [late : 0 .. MaxLate, changes : 0 .. MaxChanges, crashes : 0 .. MaxCrashes,
                      failures : 0 .. MaxFailures, repairs : 0 .. MaxRepairs]
        /\ MaxCrashes \in Nat
    BY Counts DEF UsageInv, WorldFits
  <1>3. /\ spent' \in [late : 0 .. MaxLate, changes : 0 .. MaxChanges, crashes : 0 .. MaxCrashes,
                       failures : 0 .. MaxFailures, repairs : 0 .. MaxRepairs]
        /\ spent'.changes = spent.changes /\ spent'.late = spent.late /\ MaxCrashes # 0
    BY <1>1, <1>2
  <1>4. WorldFits'
    BY <1>1, <1>3 DEF UsageInv, WorldFits, Revs, Usage!Hours, Usage!Versions
  <1>5. StoresFit'
    BY <1>1 DEF UsageInv, StoresFit, Usage!Hours, Usage!Versions
  <1>6. turn' \in Turns /\ turn'.at = "start"
    BY <1>1, TopFits DEF Turns, Usage!Places
  <1>7. TurnFits'
    BY <1>6 DEF TurnFits, Turns, Usage!Places, Usage!Jobs, Usage!Versions, Syncs, RepairRows, Revs
  <1>8. Base' \in Int /\ Base <= Base'
    BY <1>1, <1>6, Ends DEF Base
  <1>9. CursorsHold'
    BY <1>1, <1>8, SameCursors
  <1>10. CursorsAgree'
    BY <1>6, <1>9 DEF CursorsAgree, CursorsHold
  <1>11. ClaimAgrees'
    BY <1>3, <1>6 DEF ClaimAgrees
  <1> QED BY <1>1, <1>4, <1>5, <1>7, <1>10, <1>11, SameMirror DEF UsageInv

\* A lease runs out.
LEMMA LeaseExpiresStep == ASSUME UsageConstants, UsageInv, Usage!LeaseExpires PROVE UsageInv'
  <1>1. /\ UNCHANGED <<upto, control, source, spent, copied, proof, running, daily, mirror, sync,
                       turn>>
        /\ leased' = FALSE
    BY DEF Usage!LeaseExpires
  <1>2. StoresFit'
    BY <1>1 DEF UsageInv, StoresFit, Usage!Hours, Usage!Versions
  <1>3. upto' \in FirstEnd .. LastEnd /\ upto <= upto'
    BY <1>1, Ends
  <1> QED BY <1>1, <1>2, <1>3, SameWorld, SameMirror, SameTurn DEF UsageInv

-----------------------------------------------------------------------------
(* The loop, between its hours.                                             *)

\* The least of a nonempty set of naturals is one of it.
LEMMA MinIsIn ==
  ASSUME NEW S \in SUBSET Nat, S # {}
  PROVE  Usage!Min(S) \in S /\ \A y \in S : Usage!Min(S) <= y
  BY Least DEF Usage!Min

\* The greatest of a nonempty bounded one is too.
LEMMA ThroughIsIn ==
  ASSUME NEW n \in Nat, NEW S \in SUBSET (0 .. n), S # {}
  PROVE  Usage!Max(S) \in S /\ \A y \in S : Usage!Max(S) >= y
  BY Greatest DEF Usage!Max

\* Days are fewer than their hours.
LEMMA Days ==
  ASSUME NEW x \in Nat, NEW H \in Nat \ {0}
  PROVE  x \div H \in Nat /\ x \div H <= x
  OBVIOUS

\* A place of the loop without an hour.
LEMMA PlaceFits ==
  ASSUME UsageConstants, NEW at \in Usage!Places, NEW e \in 0 .. LastEnd
  PROVE  /\ [Usage!Top EXCEPT !.at = at, !.end = e] \in Turns
         /\ [Usage!Top EXCEPT !.at = at, !.end = e].at = at
         /\ [Usage!Top EXCEPT !.at = at, !.end = e].end = e
  BY TopFits DEF Turns

\* What the loop goes on with after the publication.
LEMMA OnwardFits ==
  ASSUME UsageConstants, UsageInv, turn.at \notin {"top", "start"}
  PROVE  /\ Usage!Onward \in Turns /\ Usage!Onward.at \in {"top", "reconcile"}
         /\ Usage!Onward.at = "reconcile" => Usage!Onward.end = Base
  <1>1. turn.end \in 0 .. LastEnd /\ Base = turn.end
    BY DEF UsageInv, TurnFits, Turns, Base
  <1>2. "reconcile" \in Usage!Places
    BY DEF Usage!Places
  <1>3. Usage!Top.at = "top" /\ Usage!Top \in Turns
    BY TopFits DEF Usage!Top
  <1>4. CASE turn.job = "boot"
    <2>1. Usage!Onward = Usage!Top
      BY <1>4 DEF Usage!Onward
    <2> QED BY <1>3, <2>1
  <1>5. CASE turn.job # "boot"
    <2>1. Usage!Onward = [Usage!Top EXCEPT !.at = "reconcile", !.end = turn.end]
      BY <1>5 DEF Usage!Onward
    <2> QED BY <1>1, <1>2, <2>1, PlaceFits
  <1> QED BY <1>4, <1>5

\* The loop goes on and nothing else changes.
LEMMA IdleStep ==
  ASSUME UsageConstants, UsageInv, control' = control, source' = source, upto' = upto,
         copied' = copied, leased' = leased, daily' = daily, sync' = sync,
         spent' = spent, mirror' = mirror, proof' = proof, running' = running,
         turn.at # "claimed", turn' \in Turns,
         turn'.at \notin {"hour", "claimed", "cursor"},
         turn'.at \notin {"top", "start"} => turn'.end = Base,
         turn'.at = "pruning" => turn'.seen = {sync}
  PROVE  UsageInv'
  <1>1. sync \in Syncs /\ \A m \in Members : sync.served[m] <= control[m].rev
    BY DEF UsageInv, MirrorFits
  <1> QED BY <1>1, SameStores, MoveOn

\* The process starts, or the loop turns without its tail, without members, or without its audit.
LEMMA EasySteps ==
  ASSUME UsageConstants, UsageInv,
         Usage!Boot \/ Usage!SkipTail \/ Usage!NoMembers \/ Usage!AuditNotDue \/ Usage!SkipReconcile
  PROVE  UsageInv'
  <1>1. /\ UNCHANGED <<upto, control, source, spent, copied, proof, running, leased, daily, mirror,
                       sync>>
    BY DEF Usage!Boot, Usage!SkipTail, Usage!NoMembers, Usage!AuditNotDue, Usage!SkipReconcile,
           Usage!stores
  <1>2. /\ upto \in 0 .. LastEnd
        /\ "boot" \in Usage!Places /\ "backfill" \in Usage!Places /\ "boot" \in Usage!Jobs
    BY Ends DEF Usage!Places, Usage!Jobs
  <1>3. CASE Usage!Boot
    <2>1. turn.at = "start" /\ turn' = [Usage!Top EXCEPT !.at = "boot", !.job = "boot", !.end = upto]
      BY <1>3 DEF Usage!Boot, Usage!At
    <2>2. turn' \in Turns /\ turn'.at = "boot" /\ turn'.end = upto
      BY <1>2, <2>1, TopFits DEF Turns
    <2>3. turn.at # "claimed" /\ turn'.end = Base
      BY <2>1, <2>2 DEF Base
    <2> QED BY <1>1, <2>2, <2>3, IdleStep
  <1>4. CASE Usage!SkipTail
    <2>1. turn.at = "top" /\ turn' = [Usage!Top EXCEPT !.at = "backfill", !.end = upto]
      BY <1>4 DEF Usage!SkipTail, Usage!At
    <2>2. turn' \in Turns /\ turn'.at = "backfill" /\ turn'.end = upto
      BY <1>2, <2>1, PlaceFits
    <2>3. turn.at # "claimed" /\ turn'.end = Base
      BY <2>1, <2>2 DEF Base
    <2> QED BY <1>1, <2>2, <2>3, IdleStep
  <1>5. CASE Usage!NoMembers
    <2>1. turn.at = "backfill" /\ turn' = Usage!Top /\ turn'.at = "top"
      BY <1>5 DEF Usage!NoMembers, Usage!At, Usage!Top
    <2> QED BY <1>1, <2>1, TopFits, IdleStep
  <1>6. CASE Usage!AuditNotDue
    <2>1. turn.at = "pick" /\ turn' = Usage!Onward
      BY <1>6 DEF Usage!AuditNotDue, Usage!At
    <2> QED BY <1>1, <2>1, OnwardFits, IdleStep
  <1>7. CASE Usage!SkipReconcile
    <2>1. turn.at = "reconcile" /\ turn' = Usage!Top /\ turn'.at = "top"
      BY <1>7 DEF Usage!SkipReconcile, Usage!At, Usage!Top
    <2> QED BY <1>1, <2>1, TopFits, IdleStep
  <1> QED BY <1>3, <1>4, <1>5, <1>6, <1>7

\* advanceUsageFactsPublishedTail.
LEMMA AdvanceTailStep ==
  ASSUME UsageConstants, UsageInv, Usage!Advance
  PROVE  UsageInv' /\ sync'.served = sync.served
  <1>1. /\ UNCHANGED <<upto, control, source, spent, copied, proof, running, leased, daily, mirror>>
        /\ turn.at = "advance" /\ turn' = [turn EXCEPT !.at = "prune"]
        /\ sync' = IF Usage!Advances
                   THEN [sync EXCEPT !.through = turn.end, !.from = turn.end - Usage!Window] ELSE sync
    BY DEF Usage!Advance, Usage!stores, Usage!At
  <1>2. sync \in Syncs /\ \A m \in Members : sync.served[m] <= control[m].rev
    BY DEF UsageInv, MirrorFits
  <1>3. turn \in Turns /\ turn.end = Base
    BY <1>1 DEF UsageInv, TurnFits, Base
  <1>4. turn.end \in 0 .. LastEnd /\ turn.end - Usage!Window \in 0 .. LastEnd
    BY <1>3, Ends
  <1>5. sync' \in Syncs /\ sync'.repair = sync.repair /\ sync'.served = sync.served
    BY <1>1, <1>2, <1>4 DEF Syncs
  <1>6. turn' \in Turns /\ turn'.at = "prune" /\ turn'.end = Base
    BY <1>1, <1>3 DEF Turns, Usage!Places
  <1>7. StoresFit'
    BY <1>1, SameStores
  <1> QED BY <1>1, <1>2, <1>5, <1>6, <1>7, MoveOn

\* pruneUsageFacts: what it saves is what it read.
LEMMA PruneReadsStep == ASSUME UsageConstants, UsageInv, Usage!PruneReads PROVE UsageInv'
  <1>1. /\ UNCHANGED <<upto, control, source, spent, copied, proof, running, leased, daily, mirror,
                       sync>>
        /\ turn.at = "prune"
        /\ \/ turn' = [Usage!Top EXCEPT !.at = "backfill", !.end = turn.end]
           \/ turn' = [turn EXCEPT !.at = "pruning", !.seen = {sync}]
    BY DEF Usage!PruneReads, Usage!stores, Usage!At
  <1>2. turn \in Turns /\ turn.end = Base /\ turn.end \in 0 .. LastEnd /\ sync \in Syncs
    BY <1>1 DEF UsageInv, TurnFits, Base, Turns, MirrorFits
  <1>3. /\ turn' \in Turns /\ turn'.at \in {"backfill", "pruning"} /\ turn'.end = Base
        /\ turn'.at = "pruning" => turn'.seen = {sync}
    <2>1. "backfill" \in Usage!Places /\ "pruning" \in Usage!Places
      BY DEF Usage!Places
    <2>2. CASE turn' = [Usage!Top EXCEPT !.at = "backfill", !.end = turn.end]
      BY <1>2, <2>1, <2>2, PlaceFits
    <2>3. CASE turn' = [turn EXCEPT !.at = "pruning", !.seen = {sync}]
      BY <1>2, <2>1, <2>3 DEF Turns
    <2> QED BY <1>1, <2>2, <2>3
  <1> QED BY <1>1, <1>3, IdleStep

\* pruneUsageFacts deletes old hour rows; the proofs stay.
LEMMA PruneWritesStep ==
  ASSUME UsageConstants, UsageInv, Usage!PruneWrites PROVE UsageInv' /\ sync'.served = sync.served
  <1>1. /\ UNCHANGED <<upto, control, source, spent, proof, running, leased, daily, mirror>>
        /\ turn.at = "pruning"
        /\ turn' = [Usage!Top EXCEPT !.at = "backfill", !.end = turn.end]
        /\ sync' \in {[s EXCEPT !.pruned = turn.end] : s \in turn.seen}
        /\ \E cutoff : copied' = [m \in Members |->
                                  [h \in Usage!Hours |-> IF h < cutoff THEN 0 ELSE copied[m][h]]]
    BY DEF Usage!PruneWrites, Usage!At
  <1>2. /\ turn \in Turns /\ turn.end = Base /\ turn.end \in 0 .. LastEnd /\ sync \in Syncs
        /\ turn.seen = {sync} /\ \A m \in Members : sync.served[m] <= control[m].rev
    BY <1>1 DEF UsageInv, TurnFits, Base, Turns, MirrorFits
  <1>3. sync' = [sync EXCEPT !.pruned = turn.end]
    BY <1>1, <1>2
  <1>4. turn.end \in Int
    BY <1>2, Ends
  <1>5. sync' \in Syncs /\ sync'.repair = sync.repair /\ sync'.served = sync.served
    BY <1>2, <1>3, <1>4 DEF Syncs
  <1>6. "backfill" \in Usage!Places
    BY DEF Usage!Places
  <1>7. turn' \in Turns /\ turn'.at = "backfill" /\ turn'.end = Base
    BY <1>1, <1>2, <1>6, PlaceFits
  <1>8. StoresFit'
    <2>1. copied \in [Members -> [Usage!Hours -> Usage!Versions]]
      BY DEF UsageInv, StoresFit
    <2>3. 0 \in Usage!Versions
      BY DEF UsageConstants, Usage!Versions
    <2>2. copied' \in [Members -> [Usage!Hours -> Usage!Versions]]
      BY <1>1, <2>1, <2>3
    <2> QED BY <1>1, <2>2 DEF UsageInv, StoresFit, Usage!Hours, Usage!Versions
  <1> QED BY <1>1, <1>2, <1>5, <1>7, <1>8, MoveOn

-----------------------------------------------------------------------------
(* The mirror of the member list.                                           *)

\* A cursor that moves back, or to the left edge of the window, needs no more hours.
LEMMA LowerCursors ==
  ASSUME UsageConstants, UsageInv, Base' \in Int, Base <= Base',
         \A m \in Members, h \in Usage!Hours : proof[m][h] > 0 => proof'[m][h] > 0,
         \A m \in Members : /\ mirror'[m].cursor \in Int
                            /\ \/ mirror'[m].cursor <= mirror[m].cursor
                               \/ mirror'[m].cursor <= Base' - Usage!Window,
         sync'.repair = sync.repair
  PROVE  CursorsHold'
  <1>1. \A a, b : \A m \in Members : Prefix(m, a, b) =>
            \A h \in Usage!Hours :
               Base' - Usage!Window <= h /\ a <= h /\ h < b => proof'[m][h] > 0
    <2>1. Base \in Int /\ Usage!Window \in Int
      BY Ends
    <2> QED
      BY ONLY <2>1, Carries, UsageInv, Base' \in Int, Base <= Base',
              \A m \in Members, h \in Usage!Hours : proof[m][h] > 0 => proof'[m][h] > 0
  <1>2. \A m \in Members : Prefix(m, 0, mirror[m].cursor)
    BY DEF UsageInv, CursorsAgree
  <1>3. sync.repair.active =>
          \A m \in Members : Prefix(m, sync.repair.through, sync.repair.resume[m])
    BY DEF UsageInv, CursorsAgree
  <1>4. ASSUME NEW m \in Members, NEW h \in Usage!Hours, Base' - Usage!Window <= h, 0 <= h,
               h < mirror'[m].cursor
        PROVE  proof'[m][h] > 0
    <2>a. Usage!Window \in Int /\ h \in Int
      BY Ends
    <2>b. mirror \in [Members -> [active : BOOLEAN, rev : Revs, cursor : 0 .. LastEnd]]
      BY DEF UsageInv, MirrorFits
    <2>1. Usage!Window \in Int /\ h \in Int /\ mirror[m].cursor \in Int
      BY <2>a, <2>b
    <2>2. \A b, w, k, c, d \in Int : b - w <= k /\ k < c => ~ (c <= b - w) /\ (c <= d => k < d)
      OBVIOUS
    <2>3. mirror'[m].cursor <= mirror[m].cursor
      BY <1>4, <2>1, <2>2
    <2>4. h < mirror[m].cursor
      BY <1>4, <2>1, <2>2, <2>3
    <2> QED BY <1>1, <1>2, <1>4, <2>4
  <1>5. sync'.repair.active => \A m \in Members : \A h \in Usage!Hours :
           Base' - Usage!Window <= h /\ sync'.repair.through <= h /\ h < sync'.repair.resume[m]
              => proof'[m][h] > 0
    BY <1>1, <1>3
  <1> QED BY <1>4, <1>5 DEF CursorsHold, Prefix, Usage!Hours, Usage!Window

\* ensureUsageFactMembershipAt: no cursor moves on beyond the left edge.
LEMMA EnsureFits ==
  ASSUME UsageConstants, UsageInv, Usage!Ensure(Base), control' = control
  PROVE  /\ MirrorFits' /\ sync'.repair = sync.repair /\ sync'.served = sync.served
         /\ \A m \in Members : /\ mirror'[m].cursor \in Int
                               /\ \/ mirror'[m].cursor <= mirror[m].cursor
                                  \/ mirror'[m].cursor <= Base - Usage!Window
  <1> DEFINE s == Base - Usage!Window
  <1>1. s \in 0 .. LastEnd
    BY Ends
  <1>2. /\ control \in [Members -> [active : BOOLEAN, left : 0 .. LastEnd, rev : Revs]]
        /\ mirror \in [Members -> [active : BOOLEAN, rev : Revs, cursor : 0 .. LastEnd]]
        /\ sync \in Syncs /\ \A m \in Members : sync.served[m] <= control[m].rev
    BY DEF UsageInv, WorldFits, MirrorFits
  <1> HIDE DEF s
  <1>3. ASSUME NEW m \in Members
        PROVE  /\ Usage!Cursor(m, s) \in 0 .. LastEnd
               /\ Usage!Cursor(m, s) <= mirror[m].cursor \/ Usage!Cursor(m, s) <= s
    BY <1>1, <1>2 DEF Usage!Cursor, Usage!Larger
  <1>4. mirror' = [m \in Members |->
            IF control[m].active
              THEN [active |-> TRUE, rev |-> control[m].rev, cursor |-> Usage!Cursor(m, s)]
            ELSE IF mirror[m].active
              THEN [mirror[m] EXCEPT !.active = FALSE, !.rev = control[m].rev]
            ELSE mirror[m]]
    BY DEF Usage!Ensure, Usage!EnsuredMirror, s
  <1>5. ASSUME NEW m \in Members
        PROVE  /\ mirror'[m] \in [active : BOOLEAN, rev : Revs, cursor : 0 .. LastEnd]
               /\ mirror'[m].cursor <= mirror[m].cursor \/ mirror'[m].cursor <= s
    <2>1. CASE control[m].active
      <3>1. mirror'[m] = [active |-> TRUE, rev |-> control[m].rev, cursor |-> Usage!Cursor(m, s)]
        BY <1>4, <2>1
      <3> QED BY <1>2, <1>3, <3>1
    <2>2. CASE ~control[m].active /\ mirror[m].active
      <3>1. mirror'[m] = [mirror[m] EXCEPT !.active = FALSE, !.rev = control[m].rev]
        BY <1>4, <2>2
      <3>2. /\ mirror[m] \in [active : BOOLEAN, rev : Revs, cursor : 0 .. LastEnd]
            /\ control[m].rev \in Revs
        BY <1>2
      <3>3. \A x \in 0 .. LastEnd : x <= x
        BY Ends
      <3>4. /\ mirror'[m] \in [active : BOOLEAN, rev : Revs, cursor : 0 .. LastEnd]
            /\ mirror'[m].cursor = mirror[m].cursor
        BY <3>1, <3>2
      <3> QED BY <3>2, <3>3, <3>4
    <2>3. CASE ~control[m].active /\ ~mirror[m].active
      <3>1. mirror'[m] = mirror[m]
        BY <1>4, <2>3
      <3> QED BY <1>2, <3>1
    <2> QED BY <2>1, <2>2, <2>3
  <1>6. mirror' \in [Members -> [active : BOOLEAN, rev : Revs, cursor : 0 .. LastEnd]]
    <2>1. mirror' = [m \in Members |-> mirror'[m]]
      BY <1>4
    <2> QED BY <1>5, <2>1
  <1>7. sync' = sync \/ sync' = [sync EXCEPT !.fp = Usage!Tracked, !.reconcile = s]
    BY DEF Usage!Ensure, Usage!EnsuredSync, s
  <1>8. sync' \in Syncs /\ sync'.repair = sync.repair /\ sync'.served = sync.served
    BY <1>1, <1>2, <1>7 DEF Syncs, Usage!Tracked
  <1>9. MirrorFits'
    BY <1>2, <1>6, <1>8 DEF MirrorFits, Revs, Syncs, RepairRows
  <1> QED BY <1>5, <1>8, <1>9 DEF s

\* The loop goes on with the member list it has just read.
LEMMA ReadList ==
  ASSUME UsageConstants, UsageInv, Usage!Ensure(Base), control' = control, source' = source,
         upto' = upto, spent' = spent, copied' = copied, proof' = proof, running' = running,
         leased' = leased, daily' = daily, turn.at # "claimed", turn' \in Turns,
         turn'.at \notin {"claimed", "cursor", "pruning", "start"},
         turn'.at # "top" => turn'.end = Base,
         turn'.at = "hour" => turn'.job \in {"tail", "reconcile"} /\ turn'.hour < turn'.end
  PROVE  UsageInv'
  <1>1. Base' \in Int /\ Base <= Base' /\ Usage!Window \in Int
    BY Ends DEF Base
  <1>2. \A b, c, w, k \in Int : b <= c /\ k <= b - w => k <= c - w
    OBVIOUS
  <1>3. \A m \in Members : /\ mirror'[m].cursor \in Int
                            /\ \/ mirror'[m].cursor <= mirror[m].cursor
                               \/ mirror'[m].cursor <= Base' - Usage!Window
    <2>1. ASSUME NEW m \in Members
          PROVE  /\ mirror'[m].cursor \in Int
                 /\ \/ mirror'[m].cursor <= mirror[m].cursor
                    \/ mirror'[m].cursor <= Base - Usage!Window
      BY EnsureFits
    <2>2. Base \in Int
      BY Ends
    <2> QED BY <1>1, <1>2, <2>1, <2>2
  <1>4. MirrorFits' /\ sync'.repair = sync.repair
    BY EnsureFits
  <1>5. CursorsHold'
    BY <1>1, <1>3, <1>4, LowerCursors
  <1>6. TurnFits'
    BY Ends DEF TurnFits, Turns, Usage!Places, Usage!Jobs, Usage!Versions, Syncs, RepairRows, Revs
  <1>7. CursorsAgree'
    BY <1>5 DEF CursorsAgree, CursorsHold
  <1> QED BY <1>4, <1>6, <1>7, SameWorld, SameStores, Unclaimed DEF UsageInv

\* syncUsageFactsTail takes the last closed hours of the tracked members.
LEMMA StartTailStep == ASSUME UsageConstants, UsageInv, Usage!StartTail PROVE UsageInv'
  <1>1. /\ UNCHANGED <<upto, control, source, spent, copied, proof, running, leased>>
        /\ daily' = daily /\ turn.at = "top" /\ Base = upto /\ Usage!Ensure(Base)
    BY DEF Usage!StartTail, Usage!stores, Usage!At, Base
  <1>2. turn' = [Usage!Top EXCEPT !.at = "hour", !.job = "tail", !.end = upto,
                                  !.ids = Usage!Tracked, !.hour = Usage!Larger(upto - TailHours, 0)]
    BY DEF Usage!StartTail
  <1>3. /\ upto \in 0 .. LastEnd
        /\ Usage!Larger(upto - TailHours, 0) \in 0 .. LastEnd
        /\ Usage!Larger(upto - TailHours, 0) < upto
    BY Ends DEF Usage!Larger
  <1>4. "hour" \in Usage!Places /\ "tail" \in Usage!Jobs /\ Usage!Tracked \in SUBSET Members
    BY DEF Usage!Places, Usage!Jobs, Usage!Tracked
  <1>5. turn' \in Turns /\ turn'.at = "hour" /\ turn'.job = "tail" /\ turn'.end = Base
           /\ turn'.hour < turn'.end
    <2> DEFINE h == Usage!Larger(upto - TailHours, 0)
               T == Usage!Tracked
    <2>1. h \in 0 .. LastEnd /\ h < upto /\ T \in SUBSET Members
      BY <1>3, <1>4
    <2>2. turn' = [Usage!Top EXCEPT !.at = "hour", !.job = "tail", !.end = upto, !.ids = T, !.hour = h]
      BY <1>2
    <2> HIDE DEF h, T
    <2> QED BY <1>1, <1>3, <1>4, <2>1, <2>2, TopFits DEF Turns
  <1> QED BY <1>1, <1>5, ReadList

\* syncNextUsageFactHour reads the list.
LEMMA StartBackfillStep == ASSUME UsageConstants, UsageInv, Usage!StartBackfill PROVE UsageInv'
  <1>1. /\ UNCHANGED <<upto, control, source, spent, copied, proof, running, leased>>
        /\ daily' = daily /\ turn.at = "backfill" /\ Base = turn.end /\ Usage!Ensure(Base)
        /\ turn' = [Usage!Top EXCEPT !.at = "pick", !.end = turn.end]
    BY DEF Usage!StartBackfill, Usage!stores, Usage!At, Base
  <1>2. "pick" \in Usage!Places /\ turn.end \in 0 .. LastEnd
    BY DEF Usage!Places, UsageInv, TurnFits, Turns
  <1>3. turn' \in Turns /\ turn'.at = "pick" /\ turn'.end = Base
    BY <1>1, <1>2, PlaceFits
  <1> QED BY <1>1, <1>3, ReadList

\* The first retained hour is an hour.
LEMMA RetainedFits ==
  ASSUME UsageConstants, sync \in Syncs, NEW e \in 0 .. LastEnd
  PROVE  Usage!RetainedFrom(e) \in 0 .. LastEnd
  <1> DEFINE r == RetainedDays * HoursPerDay
  <1>1. r \in Nat
    BY DEF UsageConstants
  <1>2. sync.from \in 0 .. LastEnd /\ LastEnd \in Nat
    BY DEF UsageConstants, Syncs
  <1> HIDE DEF r
  <1>3. Usage!Larger(e - r, sync.from) \in 0 .. LastEnd
    BY <1>1, <1>2 DEF Usage!Larger
  <1> QED BY <1>3 DEF r, Usage!RetainedFrom

\* reconcileNextUsageFactHour takes one retained hour before the tail.
LEMMA StartReconcileStep == ASSUME UsageConstants, UsageInv, Usage!StartReconcile PROVE UsageInv'
  <1>1. /\ UNCHANGED <<upto, control, source, spent, copied, proof, running, leased>>
        /\ daily' = daily /\ turn.at = "reconcile" /\ Base = turn.end /\ Usage!Ensure(Base)
    BY DEF Usage!StartReconcile, Usage!stores, Usage!At, Base
  <1>2. turn \in Turns /\ turn.end \in 0 .. LastEnd /\ sync \in Syncs
    BY DEF UsageInv, TurnFits, Turns, MirrorFits
  <1>3. "hour" \in Usage!Places /\ "reconcile" \in Usage!Jobs /\ Usage!Tracked \in SUBSET Members
    BY DEF Usage!Places, Usage!Jobs, Usage!Tracked
  <1>4. CASE ~Usage!ReconcileAllowed
    <2>1. turn' = Usage!Top /\ turn'.at = "top"
      BY <1>4 DEF Usage!StartReconcile, Usage!Top
    <2> QED BY <1>1, <2>1, TopFits, ReadList
  <1>5. CASE Usage!ReconcileAllowed
    <2> DEFINE k == Usage!ReconcileHour
               T == Usage!Tracked
    <2>1. turn' = [turn EXCEPT !.at = "hour", !.job = "reconcile", !.ids = T, !.hour = k]
      BY <1>5 DEF Usage!StartReconcile
    <2>2. k \in 0 .. LastEnd /\ k < turn.end
      <3> DEFINE s == Usage!RetainedFrom(turn.end)
                 n == Usage!EnsuredSync(turn.end).reconcile
      <3>1. s \in 0 .. LastEnd /\ s < turn.end - TailHours
        BY <1>2, <1>5, RetainedFits DEF Usage!ReconcileAllowed
      <3>2. n \in 0 .. LastEnd
        <4>1. turn.end - Usage!Window \in 0 .. LastEnd
          BY <1>1, Ends
        <4> QED BY <1>2, <4>1 DEF Usage!EnsuredSync, Syncs
      <3>3. k = IF n < s \/ n >= turn.end - TailHours THEN s ELSE n
        BY DEF Usage!ReconcileHour
      <3>4. TailHours \in Nat /\ LastEnd \in Nat
        BY DEF UsageConstants
      <3> HIDE DEF s, n, k
      <3> QED BY <1>2, <3>1, <3>2, <3>3, <3>4
    <2>3. T \in SUBSET Members
      BY <1>3
    <2> HIDE DEF k, T
    <2>4. turn' \in Turns /\ turn'.at = "hour" /\ turn'.job = "reconcile" /\ turn'.end = turn.end
          /\ turn'.hour = k
      BY <1>2, <1>3, <2>1, <2>2, <2>3 DEF Turns
    <2> QED BY <1>1, <2>2, <2>4, ReadList
  <1> QED BY <1>4, <1>5

-----------------------------------------------------------------------------
(* One hour.                                                                *)

\* What the hour in hand is.
LEMMA InHand ==
  ASSUME UsageConstants, UsageInv, turn.at \in {"hour", "claimed"}
  PROVE  /\ turn \in Turns /\ turn.ids \subseteq Members /\ turn.end = Base
         /\ turn.job \in {"tail", "backfill", "reconcile"}
         /\ turn.end \in 0 .. LastEnd /\ turn.hour < turn.end /\ turn.hour \in 0 .. LastEnd
         /\ turn.hour + 1 \in 0 .. LastEnd /\ turn.hour \in Usage!Hours
  <1>1. turn \in Turns /\ turn.end = Base /\ turn.hour < turn.end
        /\ turn.job \in {"tail", "backfill", "reconcile"}
    BY DEF UsageInv, TurnFits, Base
  <1>2. turn.ids \subseteq Members /\ turn.end \in 0 .. LastEnd /\ turn.hour \in 0 .. LastEnd
    BY <1>1 DEF Turns
  <1>3. LastEnd \in Nat
    BY DEF UsageConstants
  <1> QED BY <1>1, <1>2, <1>3 DEF Usage!Hours

\* What the loop does when it is done with an hour.
LEMMA AfterHourFits ==
  ASSUME UsageConstants, UsageInv, turn.at \in {"hour", "claimed"}, NEW ok \in BOOLEAN
  PROVE  /\ Usage!AfterHour(ok) \in Turns
         /\ Usage!AfterHour(ok).at \in {"hour", "advance", "cursor", "top"}
         /\ Usage!AfterHour(ok).at # "top" => Usage!AfterHour(ok).end = Base
         /\ Usage!AfterHour(ok).at = "hour" =>
               Usage!AfterHour(ok).job = "tail" /\ Usage!AfterHour(ok).hour < Usage!AfterHour(ok).end
         /\ Usage!AfterHour(ok).at = "cursor" =>
               /\ ok /\ turn.job = "backfill" /\ Usage!AfterHour(ok).ids = turn.ids
               /\ Usage!AfterHour(ok).hour = turn.hour + 1
  <1>1. /\ turn.ids \subseteq Members /\ turn.end = Base /\ turn.end \in 0 .. LastEnd
        /\ turn.hour + 1 \in 0 .. LastEnd
    BY InHand
  <1>2. {"hour", "advance", "cursor"} \subseteq Usage!Places /\ "tail" \in Usage!Jobs
    BY DEF Usage!Places, Usage!Jobs
  <1>3. Usage!Top \in Turns /\ Usage!Top.at = "top"
    BY TopFits DEF Usage!Top
  <1>4. CASE turn.job = "tail" /\ turn.hour + 1 < turn.end
    <2>1. Usage!AfterHour(ok) = [Usage!Top EXCEPT !.at = "hour", !.job = "tail", !.end = turn.end,
                                   !.ids = turn.ids, !.hour = turn.hour + 1]
      <3>1. ~ (turn.hour + 1 >= turn.end)
        BY <1>1, <1>4 DEF UsageConstants
      <3> QED BY <1>4, <3>1 DEF Usage!AfterHour
    <2> QED BY <1>1, <1>2, <1>3, <1>4, <2>1 DEF Turns
  <1>5. CASE turn.job = "tail" /\ turn.hour + 1 >= turn.end
    <2>1. ~ (turn.hour + 1 < turn.end)
      BY <1>1, <1>5 DEF UsageConstants
    <2>2. Usage!AfterHour(ok) = [Usage!Top EXCEPT !.at = "advance", !.end = turn.end]
      BY <1>5, <2>1 DEF Usage!AfterHour
    <2>3. Usage!AfterHour(ok) \in Turns /\ Usage!AfterHour(ok).at = "advance"
          /\ Usage!AfterHour(ok).end = turn.end
      <3>1. "advance" \in Usage!Places
        BY <1>2
      <3>2. Usage!Top \in Turns
        BY <1>3
      <3> QED BY <1>1, <2>2, <3>1, <3>2 DEF Turns
    <2> QED BY <1>1, <2>3
  <1>6. CASE turn.job = "backfill" /\ ok
    <2>1. Usage!AfterHour(ok) = [Usage!Top EXCEPT !.at = "cursor", !.end = turn.end,
                                   !.ids = turn.ids, !.hour = turn.hour + 1]
      BY <1>6 DEF Usage!AfterHour
    <2> QED BY <1>1, <1>2, <1>3, <1>6, <2>1 DEF Turns
  <1>7. CASE turn.job # "tail" /\ ~ (turn.job = "backfill" /\ ok)
    <2>1. Usage!AfterHour(ok) = Usage!Top
      BY <1>7 DEF Usage!AfterHour
    <2> QED BY <1>3, <2>1
  <1>8. turn.hour + 1 < turn.end \/ turn.hour + 1 >= turn.end
    BY <1>1 DEF UsageConstants
  <1> QED BY <1>4, <1>5, <1>6, <1>7, <1>8

\* The reconciler moves on.
LEMMA ReconciledFits ==
  ASSUME UsageConstants, UsageInv, turn.at \in {"hour", "claimed"},
         Usage!Reconciled \/ sync' = sync
  PROVE  sync' \in Syncs /\ sync'.repair = sync.repair /\ sync'.served = sync.served
  <1> DEFINE s == Usage!RetainedFrom(turn.end)
             k == IF turn.hour + 1 >= turn.end - TailHours THEN s ELSE turn.hour + 1
  <1>1. sync \in Syncs
    BY DEF UsageInv, MirrorFits
  <1>2. s \in 0 .. LastEnd
    BY <1>1, InHand, RetainedFits
  <1>3. turn.hour + 1 \in 0 .. LastEnd
    BY InHand
  <1>4. k \in 0 .. LastEnd
    BY <1>2, <1>3
  <1>5. sync' = sync \/ sync' = [sync EXCEPT !.reconcile = k]
    BY DEF Usage!Reconciled
  <1> HIDE DEF k
  <1> QED BY <1>1, <1>4, <1>5 DEF Syncs

\* The loop is done with an hour, of which it keeps every proof.
LEMMA HourEnds ==
  ASSUME UsageConstants, UsageInv, turn.at \in {"hour", "claimed"}, NEW ok \in BOOLEAN,
         control' = control, upto' = upto, mirror' = mirror, WorldFits', StoresFit',
         Usage!Reconciled \/ sync' = sync, turn' = Usage!AfterHour(ok),
         \A m \in Members, h \in Usage!Hours : proof[m][h] > 0 => proof'[m][h] > 0,
         ok => \A m \in turn.ids : proof'[m][turn.hour] > 0,
         MaxCrashes = 0 => running' = {}
  PROVE  UsageInv'
  <1>1. sync' \in Syncs /\ sync'.repair = sync.repair /\ sync'.served = sync.served
    BY ReconciledFits
  <1>2. MirrorFits'
    BY <1>1 DEF UsageInv, MirrorFits, Revs, Syncs, RepairRows
  <1>3. /\ turn' \in Turns /\ turn'.at \in {"hour", "advance", "cursor", "top"}
        /\ turn'.at # "top" => turn'.end = Base
        /\ turn'.at = "hour" => turn'.job = "tail" /\ turn'.hour < turn'.end
        /\ turn'.at = "cursor" => /\ ok /\ turn.job = "backfill" /\ turn'.ids = turn.ids
                                  /\ turn'.hour = turn.hour + 1
    BY AfterHourFits
  <1>4. TurnFits'
    <2>1. turn'.at # "top" => turn'.end \in FirstEnd .. upto
      BY <1>3, Ends
    <2> QED BY <1>3, <2>1 DEF TurnFits
  <1>5. Base' \in Int /\ Base <= Base' /\ Base \in Int /\ Usage!Window \in Int
    <2>1. Base \in FirstEnd .. upto /\ Base \in Int /\ upto \in Int /\ Usage!Window \in Int
          /\ Base <= upto /\ Base <= Base
      BY Ends
    <2>2. Base' = upto \/ Base' = Base
      BY <1>3 DEF Base
    <2> QED BY <2>1, <2>2
  <1>6. CursorsHold'
    BY <1>1, <1>5, SameCursors
  <1>7. ASSUME turn'.at = "cursor", NEW m \in turn.ids PROVE Prefix(m, 0, turn.hour)'
    <2>1. m \in Members /\ turn.hour \in Int /\ Base' = Base
      <3>1. Base = turn.end /\ turn.ids \subseteq Members /\ turn.hour \in 0 .. LastEnd
        BY InHand
      <3>2. Base' = turn'.end /\ turn'.end = Base
        BY <1>3, <1>7 DEF Base
      <3> QED BY <3>1, <3>2
    <2>3. Prefix(m, 0, turn.hour)
      BY <1>3, <1>7 DEF UsageInv, CursorsAgree
    <2>4. ASSUME NEW h \in Usage!Hours, Base' - Usage!Window <= h, h < turn.hour + 1
          PROVE  proof'[m][h] > 0
      <3>1. h \in Int /\ 0 <= h
        BY Ends
      <3>2. \A x, y \in Int : x < y + 1 => x < y \/ x = y
        OBVIOUS
      <3>3. h < turn.hour \/ h = turn.hour
        BY <2>1, <2>4, <3>1, <3>2
      <3>4. CASE h < turn.hour
        BY <2>1, <2>3, <2>4, <3>1, <3>4 DEF Prefix
      <3>5. CASE h = turn.hour
        BY <1>3, <1>7, <3>5
      <3> QED BY <3>3, <3>4, <3>5
    <2>5. turn'.hour = turn.hour + 1
      BY <1>3, <1>7
    <2> QED BY <2>4, <2>5 DEF Prefix, Usage!Hours, Usage!Window
  <1>8. CursorsAgree'
    BY <1>3, <1>6, <1>7 DEF CursorsAgree, CursorsHold
  <1>9. ClaimAgrees'
    BY <1>3 DEF ClaimAgrees
  <1> QED BY <1>2, <1>4, <1>8, <1>9 DEF UsageInv

\* claimUsageFactHour: the rows are those of the source, the proof before is kept.
LEMMA ClaimStep == ASSUME UsageConstants, UsageInv, Usage!Claim PROVE UsageInv'
  <1> DEFINE rows == [m \in Members |-> IF m \in turn.ids THEN source[m][turn.hour] ELSE 0]
             old == [m \in Members |->
                       IF m \notin turn.ids
                          \/ (<<m, turn.hour>> \in running /\ copied[m][turn.hour] # proof[m][turn.hour])
                       THEN 0 ELSE proof[m][turn.hour]]
  <1>1. /\ UNCHANGED <<upto, control, source, spent, copied, proof, leased, daily, mirror, sync>>
        /\ turn.at = "hour" /\ running' = running \cup Usage!Held
    BY DEF Usage!Claim, Usage!At
  <1>2. turn' = [turn EXCEPT !.at = "claimed", !.rows = rows, !.before = old]
    BY DEF Usage!Claim
  <1>3. /\ turn \in Turns /\ turn.ids \subseteq Members /\ turn.end = Base /\ turn.hour < turn.end
        /\ turn.hour \in Usage!Hours /\ turn.job \in {"tail", "backfill", "reconcile"}
    BY <1>1, InHand
  <1>4. /\ source \in [Members -> [Usage!Hours -> Usage!Versions]]
        /\ \A m \in Members, h \in Usage!Hours : source[m][h] \in 1 .. spent.late + 1
        /\ spent.late \in 0 .. MaxLate /\ MaxLate \in Nat
        /\ proof \in [Members -> [Usage!Hours -> Usage!Versions]]
    BY Counts DEF UsageInv, WorldFits, StoresFit
  <1>5. 0 \in Usage!Versions
    BY <1>4 DEF Usage!Versions
  <1>6. /\ rows \in [Members -> Usage!Versions]
        /\ old \in [Members -> Usage!Versions]
    BY <1>3, <1>4, <1>5
  <1>7. \A m \in turn.ids : rows[m] \in Usage!Versions \ {0}
    <2>1. \A m \in turn.ids : rows[m] = source[m][turn.hour]
      BY <1>3
    <2>2. \A m \in turn.ids : source[m][turn.hour] # 0
      BY <1>3, <1>4
    <2> QED BY <1>3, <1>4, <2>1, <2>2
  <1>8. MaxCrashes = 0 => running = {} /\ \A m \in turn.ids : old[m] = proof[m][turn.hour]
    <2>1. MaxCrashes = 0 => running = {}
      BY <1>1 DEF UsageInv, ClaimAgrees
    <2> QED BY <1>3, <2>1
  <1> HIDE DEF rows, old
  <1>9. /\ turn' \in Turns /\ turn'.at = "claimed" /\ turn'.end = turn.end /\ turn'.ids = turn.ids
        /\ turn'.hour = turn.hour /\ turn'.job = turn.job /\ turn'.rows = rows /\ turn'.before = old
    BY <1>2, <1>3, <1>6 DEF Turns, Usage!Places
  <1>10. StoresFit'
    <2>1. running' \subseteq Members \X Usage!Hours
      BY <1>1, <1>3 DEF UsageInv, StoresFit, Usage!Held
    <2> QED BY <1>1, <2>1 DEF UsageInv, StoresFit, Usage!Hours, Usage!Versions
  <1>11. TurnFits'
    <2>1. turn'.end \in FirstEnd .. upto'
      BY <1>1, <1>3, <1>9, Ends
    <2> QED
      BY <1>3, <1>9, <2>1
      DEF TurnFits, Turns, Usage!Places, Usage!Jobs, Usage!Versions, Syncs, RepairRows, Revs
  <1>12. Base' = Base /\ Base \in Int /\ Base <= Base'
    BY <1>3, <1>9, Ends DEF Base
  <1>13. CursorsHold'
    BY <1>1, <1>12, SameCursors
  <1>14. turn.job = "backfill" => \A m \in turn.ids : Prefix(m, 0, turn.hour)'
    <2>1. turn.job = "backfill" => \A m \in turn.ids : Prefix(m, 0, turn.hour)
      BY <1>1 DEF UsageInv, CursorsAgree
    <2> QED BY <1>1, <1>9, <1>12, <2>1 DEF Prefix, Usage!Hours, Usage!Window
  <1>15. CursorsAgree'
    BY <1>1, <1>9, <1>13, <1>14 DEF CursorsAgree, CursorsHold
  <1>16. ClaimAgrees'
    <2>1. \A m \in turn'.ids : turn'.rows[m] \in Usage!Versions \ {0}
             /\ turn'.before[m] \in Usage!Versions
      BY <1>3, <1>6, <1>7, <1>9
    <2>2. MaxCrashes = 0 => running' = turn'.ids \X {turn'.hour}
      BY <1>1, <1>8, <1>9 DEF Usage!Held
    <2>3. MaxCrashes = 0 => \A m \in turn'.ids : turn'.before[m] = proof'[m][turn'.hour]
      BY <1>1, <1>8, <1>9
    <2> QED BY <1>9, <2>1, <2>2, <2>3 DEF ClaimAgrees, Usage!Held, Usage!Versions
  <1> QED BY <1>1, <1>10, <1>11, <1>15, <1>16, SameWorld, SameMirror DEF UsageInv

\* A live lease stands in the way: the hour waits.
LEMMA ClaimBusyStep == ASSUME UsageConstants, UsageInv, Usage!ClaimBusy PROVE UsageInv'
  <1>1. /\ UNCHANGED <<upto, control, source, spent, copied, proof, running, leased, daily, mirror>>
        /\ turn.at = "hour"
        /\ turn' = Usage!AfterHour(FALSE) /\ Usage!Reconciled
    BY DEF Usage!ClaimBusy, Usage!At, Usage!stores
  <1>2. MaxCrashes = 0 => running' = {}
    BY <1>1 DEF UsageInv, ClaimAgrees
  <1>3. WorldFits' /\ StoresFit'
    BY <1>1, SameWorld, SameStores
  <1>4. FALSE \in BOOLEAN /\ (FALSE => \A m \in turn.ids : proof'[m][turn.hour] > 0)
    OBVIOUS
  <1> QED BY <1>1, <1>2, <1>3, <1>4, HourEnds

\* The commit puts the rows and their proof together, and folds the day.
LEMMA CommitStep == ASSUME UsageConstants, UsageInv, Usage!Commit PROVE UsageInv'
  <1> DEFINE put(f) == [m \in Members |->
                          IF m \in turn.ids THEN [f[m] EXCEPT ![turn.hour] = turn.rows[m]]
                                            ELSE f[m]]
             Kept == [Members -> [Usage!Hours -> Usage!Versions]]
  <1>1. /\ UNCHANGED <<upto, control, source, spent, leased, mirror>> /\ turn.at = "claimed"
        /\ running' = running \ Usage!Held
        /\ turn' = Usage!AfterHour(TRUE) /\ Usage!Reconciled
    BY DEF Usage!Commit, Usage!At
  <1>2. copied' = put(copied) /\ proof' = put(proof)
    BY DEF Usage!Commit
  <1>3. daily' = Usage!Rebuilt(copied', proof', running')
    BY DEF Usage!Commit
  <1>4. /\ turn.ids \subseteq Members /\ turn.hour \in Usage!Hours
        /\ \A m \in turn.ids : turn.rows[m] \in Usage!Versions \ {0}
    BY <1>1, InHand DEF UsageInv, ClaimAgrees
  <1>5. copied \in Kept /\ proof \in Kept /\ daily \in Kept
    BY DEF UsageInv, StoresFit
  <1>6. ASSUME NEW f \in Kept
        PROVE  /\ put(f) \in Kept
               /\ \A m \in Members, h \in Usage!Hours :
                    put(f)[m][h] = IF m \in turn.ids /\ h = turn.hour THEN turn.rows[m] ELSE f[m][h]
    <2>1. \A m \in Members : put(f)[m] \in [Usage!Hours -> Usage!Versions]
      BY <1>4, <1>6
    <2> QED BY <1>4, <1>6, <2>1
  <1>7. copied' \in Kept /\ proof' \in Kept
    BY <1>2, <1>5, <1>6
  <1>8. \A m \in Members, h \in Usage!Hours :
           proof'[m][h] = IF m \in turn.ids /\ h = turn.hour THEN turn.rows[m] ELSE proof[m][h]
    BY <1>2, <1>5, <1>6
  <1>9. daily' \in Kept
    <2>1. daily' = daily \/ daily' = [m \in Members |-> [h \in Usage!Hours |->
                   IF m \in turn.ids /\ h \in Usage!HoursOf(Usage!DayOf(turn.hour))
                   THEN copied'[m][h] ELSE daily[m][h]]]
      BY <1>3 DEF Usage!Rebuilt
    <2> DEFINE new == copied'
               D == Usage!HoursOf(Usage!DayOf(turn.hour))
    <2>2. new \in Kept
      BY <1>7
    <2>3. daily' = daily \/ daily' = [m \in Members |-> [h \in Usage!Hours |->
                   IF m \in turn.ids /\ h \in D THEN new[m][h] ELSE daily[m][h]]]
      BY <2>1
    <2> HIDE DEF new, D
    <2> QED BY <1>5, <2>2, <2>3
  <1> HIDE DEF put
  <1>10. StoresFit'
    <2>1. running' \subseteq Members \X Usage!Hours /\ leased' \in BOOLEAN
      BY <1>1 DEF UsageInv, StoresFit
    <2> QED BY <1>7, <1>9, <2>1 DEF StoresFit, Usage!Hours, Usage!Versions
  <1>11. \A m \in Members, h \in Usage!Hours : proof[m][h] > 0 => proof'[m][h] > 0
    BY <1>4, <1>8 DEF Usage!Versions
  <1>12. \A m \in turn.ids : proof'[m][turn.hour] > 0
    BY <1>4, <1>8 DEF Usage!Versions
  <1>13. MaxCrashes = 0 => running' = {}
    BY <1>1 DEF UsageInv, ClaimAgrees
  <1>14. WorldFits'
    BY <1>1, SameWorld
  <1>15. TRUE \in BOOLEAN /\ (TRUE => \A m \in turn.ids : proof'[m][turn.hour] > 0)
    BY <1>12
  <1> QED BY <1>1, <1>10, <1>11, <1>13, <1>14, <1>15, HourEnds

\* A failed hour gets its proof back: what the claim found, as no crash came before.
LEMMA FailStep == ASSUME UsageConstants, Unrepaired, UsageInv, Usage!Fail PROVE UsageInv'
  <1>1. /\ UNCHANGED <<upto, control, source, copied, leased, daily, mirror>> /\ turn.at = "claimed"
        /\ running' = running \ Usage!Held
        /\ spent.failures < MaxFailures /\ spent' = [spent EXCEPT !["failures"] = @ + 1]
        /\ turn' = Usage!AfterHour(FALSE) /\ (Usage!Reconciled \/ sync' = sync)
        /\ proof' = [m \in Members |-> IF m \in turn.ids
                      THEN [proof[m] EXCEPT ![turn.hour] = turn.before[m]] ELSE proof[m]]
    BY DEF Usage!Fail, Usage!At, Usage!Spend
  <1>2. /\ spent \in [late : 0 .. MaxLate, changes : 0 .. MaxChanges, crashes : 0 .. MaxCrashes,
                      failures : 0 .. MaxFailures, repairs : 0 .. MaxRepairs]
        /\ MaxFailures \in Nat
    BY Counts DEF UsageInv, WorldFits
  <1>3. /\ spent' \in [late : 0 .. MaxLate, changes : 0 .. MaxChanges, crashes : 0 .. MaxCrashes,
                       failures : 0 .. MaxFailures, repairs : 0 .. MaxRepairs]
        /\ spent'.changes = spent.changes /\ spent'.late = spent.late /\ MaxFailures # 0
    BY <1>1, <1>2
  <1>4. WorldFits'
    BY <1>1, <1>3 DEF UsageInv, WorldFits, Revs, Usage!Hours, Usage!Versions
  <1>5. MaxCrashes = 0
    BY <1>3 DEF Unrepaired
  <1>6. running = Usage!Held /\ \A m \in turn.ids : turn.before[m] = proof[m][turn.hour]
    BY <1>1, <1>5 DEF UsageInv, ClaimAgrees
  <1>7. proof' = proof
    <2>1. proof \in [Members -> [Usage!Hours -> Usage!Versions]]
      BY DEF UsageInv, StoresFit
    <2>2. \A m \in turn.ids : m \in Members /\ turn.hour \in Usage!Hours
      BY <1>1, InHand
    <2>3. \A m \in turn.ids : [proof[m] EXCEPT ![turn.hour] = turn.before[m]] = proof[m]
      BY <1>6, <2>1, <2>2
    <2> QED BY <1>1, <2>1, <2>3
  <1>8. running' = {}
    BY <1>1, <1>6
  <1>9. StoresFit'
    BY <1>1, <1>7, <1>8 DEF UsageInv, StoresFit, Usage!Hours, Usage!Versions
  <1>10. FALSE \in BOOLEAN /\ (FALSE => \A m \in turn.ids : proof'[m][turn.hour] > 0)
    OBVIOUS
  <1>11. \A m \in Members, h \in Usage!Hours : proof[m][h] > 0 => proof'[m][h] > 0
    BY <1>7
  <1> QED BY <1>1, <1>4, <1>8, <1>9, <1>10, <1>11, HourEnds

\* The commit finds its rows gone, which only a crash brings about.
LEMMA LostStep == ASSUME UsageConstants, UsageInv, Usage!Lost PROVE UsageInv'
  <1>1. /\ UNCHANGED <<upto, control, source, spent, copied, proof, running, daily, mirror>>
        /\ turn.at = "claimed" /\ leased' \in BOOLEAN
        /\ turn' = Usage!AfterHour(FALSE) /\ Usage!Reconciled
    BY DEF Usage!Lost, Usage!At, UsageInv, StoresFit
  <1>2. MaxCrashes = 0 => running' = {}
    BY DEF UsageInv, ClaimAgrees, Usage!Lost, Usage!Owned, Usage!At
  <1>3. WorldFits'
    BY <1>1, SameWorld
  <1>4. StoresFit'
    BY <1>1 DEF UsageInv, StoresFit, Usage!Hours, Usage!Versions
  <1>5. FALSE \in BOOLEAN /\ (FALSE => \A m \in turn.ids : proof'[m][turn.hour] > 0)
    OBVIOUS
  <1> QED BY <1>1, <1>2, <1>3, <1>4, <1>5, HourEnds

-----------------------------------------------------------------------------
(* The backfill.                                                            *)

\* The batch is picked at the lowest cursor, and its sound hours are imported.
LEMMA BatchFits ==
  ASSUME UsageConstants, UsageInv, turn.at = "pick", Usage!Pending # {}
  PROVE  /\ turn \in Turns /\ turn.end = Base /\ Usage!Batch \in SUBSET Members
         /\ Usage!StartHour \in 0 .. LastEnd /\ Usage!StartHour < turn.end
         /\ Usage!Through \in Usage!StartHour .. turn.end
         /\ \A m \in Usage!Batch : Prefix(m, 0, Usage!StartHour) /\ Prefix(m, 0, Usage!Through)
  <1> DEFINE cursors == {mirror[m].cursor : m \in Usage!Pending}
             low == Usage!Lowest
             from == Usage!StartHour
  <1>1. turn \in Turns /\ turn.end = Base /\ turn.end \in 0 .. LastEnd /\ LastEnd \in Nat
    BY Ends DEF UsageInv, TurnFits, Turns, Base
  <1>2. mirror \in [Members -> [active : BOOLEAN, rev : Revs, cursor : 0 .. LastEnd]]
    BY DEF UsageInv, MirrorFits
  <1>3. \A m \in Usage!Pending : m \in Members /\ mirror[m].cursor < turn.end
    BY DEF Usage!Pending, Usage!Mirrored
  <1>4. cursors \in SUBSET Nat /\ cursors # {}
    BY <1>2, <1>3
  <1>5. low \in cursors
    <2> HIDE DEF cursors
    <2>1. Usage!Min(cursors) \in cursors
      BY <1>4, MinIsIn
    <2> QED BY <2>1 DEF Usage!Lowest, cursors
  <1>6. low \in 0 .. LastEnd /\ low < turn.end
    BY <1>1, <1>2, <1>3, <1>5
  <1>7. Usage!Batch \in SUBSET Members /\ \A m \in Usage!Batch : mirror[m].cursor = low
    BY <1>3 DEF Usage!Batch
  <1>a. Usage!Window \in Nat \ {0} /\ Base - Usage!Window \in Nat
    BY Ends DEF UsageConstants, Usage!Window
  <1>b. from \in 0 .. LastEnd /\ from < turn.end /\ (from = low \/ from = Base - Usage!Window)
    BY <1>1, <1>6, <1>a DEF Usage!StartHour, Usage!Larger
  <1> DEFINE reach == {t \in from .. turn.end :
                         \A m \in Usage!Batch, h \in from .. t - 1 : Usage!Sound(m, h)}
  <1> HIDE DEF low, from, cursors
  <1>8. reach \in SUBSET (0 .. turn.end) /\ from \in reach
    BY <1>1, <1>b
  <1>9. Usage!Through \in reach
    <2> HIDE DEF reach
    <2>1. turn.end \in Nat /\ reach # {}
      BY <1>1, <1>8
    <2>2. Usage!Max(reach) \in reach
      BY <1>8, <2>1, ThroughIsIn
    <2> QED BY <2>2 DEF Usage!Through, reach, from
  <1>10. ASSUME NEW m \in Usage!Batch PROVE Prefix(m, 0, from) /\ Prefix(m, 0, Usage!Through)
    <2>0. Prefix(m, 0, low)
      BY <1>7 DEF UsageInv, CursorsAgree
    <2>1. Prefix(m, 0, from)
      BY <1>a, <1>b, <2>0, Ends DEF Prefix
    <2>2. ASSUME NEW h \in Usage!Hours, Base - Usage!Window <= h, h < Usage!Through
          PROVE  proof[m][h] > 0
      <3>1. h \in Int /\ 0 <= h
        BY Ends
      <3>2. Usage!Through \in from .. turn.end
        BY <1>9
      <3>3. h < from \/ h \in from .. Usage!Through - 1
        BY <1>1, <1>b, <2>2, <3>1, <3>2
      <3>4. CASE h < from
        BY <2>1, <2>2, <3>1, <3>4 DEF Prefix
      <3>5. CASE h \in from .. Usage!Through - 1
        <4>1. Usage!Sound(m, h)
          BY <1>9, <3>5
        <4> QED BY <4>1 DEF Usage!Sound, Usage!Verified, Usage!Complete
      <3> QED BY <3>3, <3>4, <3>5
    <2> QED BY <2>1, <2>2 DEF Prefix
  <1> QED BY <1>1, <1>7, <1>9, <1>10, <1>b DEF from

\* The loop goes on with a batch, and nothing else changes.
LEMMA PickFits ==
  ASSUME UsageConstants, UsageInv, control' = control, source' = source, upto' = upto,
         spent' = spent, copied' = copied, proof' = proof, running' = running, leased' = leased,
         daily' = daily, mirror' = mirror, sync' = sync, turn.at = "pick",
         turn' \in Turns, turn'.end = Base, turn'.at \in {"cursor", "hour"},
         \A m \in turn'.ids : Prefix(m, 0, turn'.hour),
         turn'.at = "hour" => turn'.job = "backfill" /\ turn'.hour < turn'.end
  PROVE  UsageInv'
  <1>1. TurnFits'
    BY Ends DEF TurnFits, Turns, Usage!Places, Usage!Jobs, Usage!Versions, Syncs, RepairRows, Revs
  <1>2. Base' = Base
    BY DEF Base
  <1>3. CursorsHold'
    <2>1. Base' \in Int /\ Base <= Base'
      BY <1>2, Ends
    <2> QED BY <2>1, SameCursors
  <1>5. \A m \in turn'.ids : Prefix(m, 0, turn.hour)'
    BY <1>2 DEF Prefix, Usage!Hours, Usage!Window
  <1>6. CursorsAgree'
    BY <1>3, <1>5 DEF CursorsAgree, CursorsHold
  <1> QED BY <1>1, <1>6, SameWorld, SameStores, SameMirror, Unclaimed DEF UsageInv

\* A batch of members at one cursor: its next hour, or the sound hours passed over.
LEMMA PickBatchStep == ASSUME UsageConstants, UsageInv, Usage!PickBatch PROVE UsageInv'
  <1>1. /\ UNCHANGED <<upto, control, source, spent, copied, proof, running, leased, daily, mirror,
                       sync>>
        /\ turn.at = "pick" /\ Usage!Pending # {}
    BY DEF Usage!PickBatch, Usage!At, Usage!stores
  <1>2. /\ turn \in Turns /\ turn.end = Base /\ Usage!Batch \in SUBSET Members
        /\ Usage!StartHour \in 0 .. LastEnd /\ Usage!StartHour < turn.end
        /\ Usage!Through \in Usage!StartHour .. turn.end
        /\ \A m \in Usage!Batch : Prefix(m, 0, Usage!StartHour) /\ Prefix(m, 0, Usage!Through)
    BY <1>1, BatchFits
  <1>3. Usage!Through \in 0 .. LastEnd /\ LastEnd \in Nat
    <2>1. turn.end \in 0 .. LastEnd /\ LastEnd \in Nat
      BY <1>2, Ends DEF Turns
    <2> QED BY <1>2, <2>1
  <1>4. {"cursor", "hour"} \subseteq Usage!Places /\ "backfill" \in Usage!Jobs
    BY DEF Usage!Places, Usage!Jobs
  <1>5. CASE turn' = Usage!Top
    <2>1. turn' \in Turns /\ turn'.at = "top"
      BY <1>5, TopFits DEF Usage!Top
    <2> QED BY <1>1, <2>1, IdleStep
  <1> DEFINE B == Usage!Batch
             low == Usage!StartHour
             t == Usage!Through
  <1>6. \/ turn' = Usage!Top
        \/ turn' = [turn EXCEPT !.at = "cursor", !.ids = B, !.hour = t]
        \/ turn' = [turn EXCEPT !.at = "hour", !.job = "backfill", !.ids = B, !.hour = low]
    BY DEF Usage!PickBatch
  <1>7. B \in SUBSET Members /\ low \in 0 .. LastEnd /\ t \in 0 .. LastEnd /\ low < turn.end
        /\ \A m \in B : Prefix(m, 0, low) /\ Prefix(m, 0, t)
    BY <1>2, <1>3
  <1> HIDE DEF B, low, t
  <1>8. /\ turn' \in Turns /\ turn'.end = Base /\ turn'.at \in {"cursor", "hour"}
        /\ \A m \in turn'.ids : Prefix(m, 0, turn'.hour)
        /\ turn'.at = "hour" => turn'.job = "backfill" /\ turn'.hour < turn'.end
        \/ turn' = Usage!Top
    <2>1. CASE turn' = [turn EXCEPT !.at = "cursor", !.ids = B, !.hour = t]
      <3>1. turn' \in Turns /\ turn'.end = turn.end /\ turn'.at = "cursor"
            /\ turn'.ids = B /\ turn'.hour = t
        BY <1>2, <1>4, <1>7, <2>1 DEF Turns
      <3> QED BY <1>2, <1>7, <3>1
    <2>2. CASE turn' = [turn EXCEPT !.at = "hour", !.job = "backfill", !.ids = B, !.hour = low]
      <3>1. turn' \in Turns /\ turn'.end = turn.end /\ turn'.at = "hour"
            /\ turn'.ids = B /\ turn'.hour = low /\ turn'.job = "backfill"
        BY <1>2, <1>4, <1>7, <2>2 DEF Turns
      <3> QED BY <1>2, <1>7, <3>1
    <2> QED BY <1>6, <2>1, <2>2
  <1> QED BY <1>1, <1>5, <1>8, PickFits

\* The loop is back at its top, and the cursors still stand for imported hours.
LEMMA BackAtTop ==
  ASSUME UsageConstants, UsageInv, control' = control, source' = source, upto' = upto,
         spent' = spent, copied' = copied, proof' = proof, running' = running, leased' = leased,
         daily' = daily, turn.at # "claimed", turn' = Usage!Top, sync' \in Syncs,
         sync'.served = sync.served, CursorsHold',
         mirror' \in [Members -> [active : BOOLEAN, rev : Revs, cursor : 0 .. LastEnd]]
  PROVE  UsageInv'
  <1>1. turn' \in Turns /\ turn'.at = "top"
    BY TopFits DEF Usage!Top
  <1>2. TurnFits'
    BY <1>1 DEF TurnFits, Turns, Usage!Places, Usage!Jobs, Usage!Versions, Syncs, RepairRows, Revs
  <1>3. CursorsAgree'
    BY <1>1 DEF CursorsAgree, CursorsHold
  <1>4. \A m \in Members : sync'.served[m] <= control[m].rev
    BY DEF UsageInv, MirrorFits
  <1>5. MirrorFits'
    BY <1>4 DEF MirrorFits, Revs, Syncs, RepairRows
  <1> QED BY <1>1, <1>2, <1>3, <1>5, SameWorld, SameStores, Unclaimed DEF UsageInv

\* The cursor moves over the hours in hand; at the end of a repair, back to where it was.
LEMMA SetCursorStep == ASSUME UsageConstants, UsageInv, Usage!SetCursor PROVE UsageInv'
  <1>1. /\ UNCHANGED <<upto, control, source, spent, copied, proof, running, leased, daily>>
        /\ turn.at = "cursor" /\ turn' = Usage!Top
    BY DEF Usage!SetCursor, Usage!At, Usage!stores
  <1>2. /\ turn \in Turns /\ turn.hour \in 0 .. LastEnd /\ LastEnd \in Nat
        /\ \A m \in turn.ids : Prefix(m, 0, turn.hour)
    BY <1>1, Ends DEF UsageInv, TurnFits, Turns, CursorsAgree
  <1>3. /\ mirror \in [Members -> [active : BOOLEAN, rev : Revs, cursor : 0 .. LastEnd]]
        /\ sync \in Syncs /\ \A m \in Members : Prefix(m, 0, mirror[m].cursor)
    BY DEF UsageInv, MirrorFits, CursorsAgree
  <1>4. Base' \in Int /\ Base <= Base' /\ Base \in Int /\ Usage!Window \in Int
    <2>1. Base \in FirstEnd .. upto /\ Base \in Int /\ upto \in Int /\ Usage!Window \in Int
      BY Ends
    <2>2. Base' = upto
      BY <1>1 DEF Base, Usage!Top
    <2> QED BY <2>1, <2>2
  <1>5. CASE mirror' = mirror /\ sync' = sync
    <2>1. CursorsHold'
      BY <1>1, <1>4, <1>5, SameCursors
    <2> QED BY <1>1, <1>3, <1>5, <2>1, BackAtTop
  <1> DEFINE to == [m \in Members |-> IF m \in turn.ids THEN Usage!Larger(mirror[m].cursor, turn.hour)
                                      ELSE mirror[m].cursor]
  <1>6. CASE Usage!Progress(to)
    <2> DEFINE old == sync.repair
               done == old.active /\ ~Usage!Canceled /\ Usage!Arrived(to)
    <2>1. to \in [Members -> 0 .. LastEnd]
      BY <1>2, <1>3 DEF Usage!Larger
    <2>2. ASSUME NEW m \in Members PROVE Prefix(m, 0, to[m])
      <3>1. to[m] = mirror[m].cursor \/ (m \in turn.ids /\ to[m] = turn.hour)
        BY DEF Usage!Larger
      <3> HIDE DEF to
      <3> QED BY <1>2, <1>3, <3>1
    <2>3. /\ old \in RepairRows /\ old.through \in Nat /\ old.resume \in [Members -> 0 .. LastEnd]
          /\ old.active => \A m \in Members : Prefix(m, old.through, old.resume[m])
      BY <1>3 DEF UsageInv, CursorsAgree, Syncs, RepairRows
    <2>4. done => \A m \in Members : old.resume[m] > 0 => to[m] >= old.through
      BY DEF Usage!Arrived, Usage!Targets
    <2>5. mirror' = [m \in Members |-> [mirror[m] EXCEPT !.cursor =
                       IF done THEN Usage!Larger(to[m], old.resume[m]) ELSE to[m]]]
      BY <1>6 DEF Usage!Progress
    <2>6. sync' = [sync EXCEPT !.repair = Usage!NoRepair] \/ sync' = sync
      BY <1>6 DEF Usage!Progress
    <2> HIDE DEF to, done
    <2>7. ASSUME NEW m \in Members
          PROVE  /\ mirror'[m] \in [active : BOOLEAN, rev : Revs, cursor : 0 .. LastEnd]
                 /\ Prefix(m, 0, mirror'[m].cursor)
      <3> DEFINE c == IF done THEN Usage!Larger(to[m], old.resume[m]) ELSE to[m]
      <3>1. c = to[m] \/ (done /\ to[m] < old.resume[m] /\ c = old.resume[m])
        BY DEF Usage!Larger
      <3>2. to[m] \in 0 .. LastEnd /\ old.resume[m] \in 0 .. LastEnd
        BY <2>1, <2>3
      <3>3. c \in 0 .. LastEnd
        BY <3>1, <3>2
      <3>4. mirror'[m] = [mirror[m] EXCEPT !.cursor = c]
        BY <2>5
      <3>5. Prefix(m, 0, c)
        <4>1. CASE c = to[m]
          BY <2>2, <4>1
        <4>2. CASE done /\ to[m] < old.resume[m] /\ c = old.resume[m]
          <5>1. to[m] >= old.through
            <6>1. old.resume[m] > 0
              BY <1>2, <3>2, <4>2
            <6> QED BY <2>4, <4>2, <6>1
          <5>2. old.active
            BY <4>2 DEF done
          <5>3. Prefix(m, old.through, c) /\ Prefix(m, 0, to[m])
            BY <2>2, <2>3, <4>2, <5>2
          <5>4. \A h \in Usage!Hours : h \in Int
            BY Ends
          <5>5. \A h, p, q \in Int : p >= q => h < p \/ q <= h
            OBVIOUS
          <5>6. \A h \in Usage!Hours : h < to[m] \/ old.through <= h
            BY <2>3, <3>2, <5>1, <5>4, <5>5
          <5> QED BY <5>3, <5>6 DEF Prefix
        <4> QED BY <3>1, <4>1, <4>2
      <3> HIDE DEF c
      <3>6. mirror[m] \in [active : BOOLEAN, rev : Revs, cursor : 0 .. LastEnd]
        BY <1>3
      <3>7. mirror'[m].cursor = c
        BY <3>4, <3>6
      <3>8. mirror'[m] \in [active : BOOLEAN, rev : Revs, cursor : 0 .. LastEnd]
        BY <3>3, <3>4, <3>6
      <3> QED BY <3>5, <3>7, <3>8
    <2>8. mirror' \in [Members -> [active : BOOLEAN, rev : Revs, cursor : 0 .. LastEnd]]
      <3>1. mirror' = [m \in Members |-> mirror'[m]]
        BY <2>5
      <3> QED BY <2>7, <3>1
    <2>9. Usage!NoRepair \in RepairRows
      BY <1>2 DEF Usage!NoRepair, Usage!NoHour, RepairRows
    <2>10. /\ sync' \in Syncs /\ sync'.served = sync.served
           /\ sync'.repair.active => sync'.repair = old /\ old.active
      <3>1. CASE sync' = sync
        BY <1>3, <3>1
      <3>2. CASE sync' = [sync EXCEPT !.repair = Usage!NoRepair]
        <4>1. sync' \in Syncs /\ sync'.served = sync.served /\ sync'.repair = Usage!NoRepair
          BY <1>3, <2>9, <3>2 DEF Syncs
        <4>2. ~Usage!NoRepair.active
          BY DEF Usage!NoRepair
        <4> QED BY <4>1, <4>2
      <3> QED BY <2>6, <3>1, <3>2
    <2>11. CursorsHold'
      <3>1. \A a, b : \A m \in Members : Prefix(m, a, b) =>
            \A h \in Usage!Hours :
               Base' - Usage!Window <= h /\ a <= h /\ h < b => proof'[m][h] > 0
        <4>1. \A m \in Members, h \in Usage!Hours : proof[m][h] > 0 => proof'[m][h] > 0
          BY <1>1
        <4> QED BY <1>4, <4>1, Carries
      <3>2. \A m \in Members : \A h \in Usage!Hours :
               Base' - Usage!Window <= h /\ 0 <= h /\ h < mirror'[m].cursor => proof'[m][h] > 0
        BY <2>7, <3>1
      <3>3. sync'.repair.active => \A m \in Members : \A h \in Usage!Hours :
               Base' - Usage!Window <= h /\ sync'.repair.through <= h /\ h < sync'.repair.resume[m]
                  => proof'[m][h] > 0
        BY <2>3, <2>10, <3>1
      <3> QED BY <3>2, <3>3 DEF CursorsHold, Prefix, Usage!Hours, Usage!Window
    <2> QED BY <1>1, <2>8, <2>10, <2>11, BackAtTop
  <1>7. Usage!Progress(to) \/ (mirror' = mirror /\ sync' = sync)
    BY DEF Usage!SetCursor
  <1> QED BY <1>5, <1>6, <1>7

\* The audit of the gaps moves a cursor back to the first of them.
LEMMA RewindStep == ASSUME UsageConstants, UsageInv, Usage!Rewind PROVE UsageInv'
  <1>1. /\ UNCHANGED <<upto, control, source, spent, copied, proof, running, leased, daily, sync>>
        /\ turn.at = "pick" /\ turn' = Usage!Top /\ Usage!Pending = {}
    BY DEF Usage!Rewind, Usage!At, Usage!stores
  <1>2. PICK m \in Usage!Mirrored :
           Usage!Gaps(m) # {} /\ mirror' = [mirror EXCEPT ![m].cursor = Usage!Min(Usage!Gaps(m))]
    BY DEF Usage!Rewind
  <1>3. /\ mirror \in [Members -> [active : BOOLEAN, rev : Revs, cursor : 0 .. LastEnd]]
        /\ sync \in Syncs
    BY DEF UsageInv, MirrorFits
  <1>4. turn.end = Base /\ turn.end \in 0 .. LastEnd /\ LastEnd \in Nat
        /\ Base - Usage!Window \in Nat /\ Usage!Window \in Nat
    BY <1>1, Ends DEF UsageInv, TurnFits, Turns, Base
  <1> DEFINE g == Usage!Min(Usage!Gaps(m))
  <1>5. g \in turn.end - Usage!Window .. turn.end - 1
    <2>1. Usage!Gaps(m) \in SUBSET (turn.end - Usage!Window .. turn.end - 1)
      BY DEF Usage!Gaps
    <2>2. Usage!Gaps(m) \in SUBSET Nat
      BY <1>4, <2>1
    <2>3. g \in Usage!Gaps(m)
      BY <1>2, <2>2, MinIsIn
    <2> QED BY <2>1, <2>3
  <1> HIDE DEF g
  <1>6. g \in 0 .. LastEnd /\ g < turn.end
    BY <1>4, <1>5
  <1>7. m \in Members /\ ~ (mirror[m].cursor < turn.end)
    BY <1>1 DEF Usage!Pending, Usage!Mirrored
  <1>8. mirror' = [mirror EXCEPT ![m].cursor = g]
    BY <1>2 DEF g
  <1>9. mirror' \in [Members -> [active : BOOLEAN, rev : Revs, cursor : 0 .. LastEnd]]
    BY <1>3, <1>6, <1>8
  <1>10. ASSUME NEW n \in Members
         PROVE  mirror'[n].cursor \in Int /\ mirror'[n].cursor <= mirror[n].cursor
    <2>1. mirror[n].cursor \in 0 .. LastEnd
      BY <1>3
    <2>2. CASE n = m
      <3>1. mirror'[n].cursor = g
        BY <1>3, <1>8, <2>2
      <3> QED BY <1>4, <1>6, <1>7, <2>1, <2>2, <3>1
    <2>3. CASE n # m
      <3>1. mirror'[n] = mirror[n]
        BY <1>3, <1>8, <2>3
      <3> QED BY <1>4, <2>1, <3>1
    <2> QED BY <2>2, <2>3
  <1>11. Base' \in Int /\ Base <= Base'
    <2>1. Base \in FirstEnd .. upto /\ Base \in Int /\ upto \in Int
      BY Ends
    <2>2. Base' = upto
      BY <1>1 DEF Base, Usage!Top
    <2> QED BY <2>1, <2>2
  <1>12. CursorsHold'
    BY <1>1, <1>10, <1>11, LowerCursors
  <1> QED BY <1>1, <1>3, <1>9, <1>12, BackAtTop

-----------------------------------------------------------------------------
(* The publication.                                                         *)

\* The days of the window are numbers of days.
LEMMA DaysFit ==
  ASSUME UsageConstants, NEW e \in 0 .. LastEnd, e - Usage!Window \in Nat
  PROVE  /\ Usage!FloorDay(e) \in 0 .. LastEnd /\ Usage!CeilDay(e - Usage!Window) \in Nat
         /\ HoursPerDay \in Nat \ {0} /\ LastEnd \in Nat
  <1>1. HoursPerDay \in Nat \ {0} /\ LastEnd \in Nat
    BY DEF UsageConstants
  <1>2. e \in Nat /\ e <= LastEnd
    BY <1>1
  <1>3. e \div HoursPerDay \in Nat /\ e \div HoursPerDay <= e
    BY <1>1, <1>2, Days
  <1> DEFINE x == e - Usage!Window + HoursPerDay - 1
  <1>4. x \in Nat
    BY <1>1
  <1>5. x \div HoursPerDay \in Nat
    <2> HIDE DEF x
    <2> QED BY <1>1, <1>4, Days
  <1> QED BY <1>1, <1>2, <1>3, <1>5 DEF Usage!FloorDay, Usage!CeilDay

\* A candidate that is refused leaves all as it is, or a day to be repaired.
LEMMA PublishFailsStep == ASSUME UsageConstants, UsageInv, Usage!PublishFails PROVE UsageInv'
  <1>1. /\ UNCHANGED <<upto, control, source, spent, copied, proof, running, leased>>
        /\ daily' = daily /\ mirror' = mirror /\ sync' = sync /\ turn.at \in {"boot", "pick"}
    BY DEF Usage!PublishFails, Usage!Here, Usage!stores
  <1>2. turn \in Turns /\ turn.end = Base /\ turn.end \in 0 .. LastEnd
        /\ turn.end - Usage!Window \in Nat
    BY <1>1, Ends DEF UsageInv, TurnFits, Turns, Base
  <1>3. CASE turn' = Usage!Onward
    BY <1>1, <1>3, OnwardFits, IdleStep
  <1>4. CASE /\ Usage!BadDays # {}
             /\ turn' = [turn EXCEPT !.at = "gap", !.hour = Usage!Min(Usage!BadDays)]
    <2> DEFINE d == Usage!Min(Usage!BadDays)
    <2>1. /\ Usage!FloorDay(turn.end) \in 0 .. LastEnd
          /\ Usage!CeilDay(turn.end - Usage!Window) \in Nat /\ LastEnd \in Nat
      BY <1>2, DaysFit
    <2>2. Usage!BadDays \in SUBSET
             (Usage!CeilDay(turn.end - Usage!Window) .. Usage!FloorDay(turn.end) - 1)
      BY DEF Usage!BadDays
    <2>3. Usage!BadDays \in SUBSET (0 .. LastEnd) /\ Usage!BadDays \in SUBSET Nat
      BY <2>1, <2>2
    <2>4. d \in 0 .. LastEnd
      BY <1>4, <2>3, MinIsIn
    <2>5. turn' = [turn EXCEPT !.at = "gap", !.hour = d]
      BY <1>4
    <2> HIDE DEF d
    <2>6. turn' \in Turns /\ turn'.at = "gap" /\ turn'.end = Base
      BY <1>2, <2>4, <2>5 DEF Turns, Usage!Places
    <2> QED BY <1>1, <2>6, IdleStep
  <1>5. turn' = Usage!Onward
        \/ /\ Usage!BadDays # {}
           /\ turn' = [turn EXCEPT !.at = "gap", !.hour = Usage!Min(Usage!BadDays)]
    BY DEF Usage!PublishFails
  <1> QED BY <1>3, <1>4, <1>5

\* publishUsageFactsSnapshot: what becomes readable has been imported as a whole.
LEMMA PublishStep ==
  ASSUME UsageConstants, UsageInv, Usage!Publish PROVE UsageInv' /\ Usage!BecomesReadableWhole
  <1>1. /\ UNCHANGED <<upto, control, source, spent, copied, proof, running, leased>>
        /\ daily' = daily /\ mirror' = mirror /\ turn.at \in {"boot", "pick"}
        /\ turn' = Usage!Onward /\ Usage!Candidate
    BY DEF Usage!Publish, Usage!Here, Usage!stores, Usage!Publishable
  <1>2. turn \in Turns /\ turn.end = Base /\ turn.end \in 0 .. LastEnd
        /\ turn.end - Usage!Window \in 0 .. LastEnd /\ LastEnd \in Nat
    <2>1. turn \in Turns /\ turn.end = Base /\ turn.end \in 0 .. LastEnd
      BY <1>1 DEF UsageInv, TurnFits, Turns, Base
    <2>2. /\ Base \in Nat /\ Usage!Window \in Nat /\ Base - Usage!Window \in Nat
          /\ LastEnd \in Nat
      BY Ends
    <2> QED BY <2>1, <2>2
  <1>3. sync \in Syncs /\ \A m \in Members : sync.served[m] <= control[m].rev
    BY DEF UsageInv, MirrorFits
  <1>4. /\ control \in [Members -> [active : BOOLEAN, left : 0 .. LastEnd, rev : Revs]]
        /\ MaxChanges \in Nat
    BY Counts DEF UsageInv, WorldFits
  <1> DEFINE new == [m \in Members |-> IF m \in Usage!Tracked THEN control[m].rev ELSE 0]
             s == turn.end - Usage!Window
  <1>5. /\ new \in [Members -> Revs] /\ \A m \in Members : new[m] <= control[m].rev
        /\ s \in 0 .. LastEnd
    <2>1. 0 \in Revs /\ \A r \in Revs : 0 <= r /\ r <= r
      BY <1>4 DEF Revs
    <2> QED BY <1>2, <1>4, <2>1
  <1>6. sync' = sync
        \/ sync' = [sync EXCEPT !.served = new, !.from = s, !.through = turn.end]
    BY DEF Usage!Publish
  <1> HIDE DEF new, s
  <1>7. /\ sync' \in Syncs /\ sync'.repair = sync.repair
        /\ \A m \in Members : sync'.served[m] <= control[m].rev
        /\ sync' = sync \/ (sync'.from = s /\ sync'.through = turn.end /\ sync'.served = new)
    <2>1. CASE sync' = sync
      BY <1>3, <2>1
    <2>2. CASE sync' = [sync EXCEPT !.served = new, !.from = s, !.through = turn.end]
      <3>1. /\ sync' \in Syncs /\ sync'.repair = sync.repair
            /\ sync'.from = s /\ sync'.through = turn.end /\ sync'.served = new
        BY <1>2, <1>3, <1>5, <2>2 DEF Syncs
      <3> QED BY <1>5, <3>1
    <2> QED BY <1>6, <2>1, <2>2
  <1>8. /\ turn' \in Turns /\ turn'.at \in {"top", "reconcile"}
        /\ turn'.at = "reconcile" => turn'.end = Base
    BY <1>1, OnwardFits
  <1>9. UsageInv'
    <2>1. StoresFit'
      BY <1>1, SameStores
    <2> QED BY <1>1, <1>7, <1>8, <2>1, MoveOn
  <1>10. ASSUME NEW m \in Members, ~Usage!Readable(m), Usage!Readable(m)',
                NEW h \in Usage!Hours, sync'.from <= h, h < sync'.through
         PROVE  proof'[m][h] > 0
    <2>1. sync' # sync
      BY <1>1, <1>10 DEF Usage!Readable, Usage!Compatible
    <2>2. sync'.from = s /\ sync'.through = turn.end /\ sync'.served = new
      BY <1>7, <2>1
    <2>3. m \in Usage!Tracked
      BY <1>1, <1>10, <2>2 DEF Usage!Readable, Usage!Compatible, Usage!Tracked
    <2>4. m \in Usage!Mirrored /\ m \notin Usage!Pending
      BY <1>1, <2>3 DEF Usage!Candidate
    <2>5. ~ (mirror[m].cursor < turn.end)
      BY <2>4 DEF Usage!Pending
    <2>6. mirror[m].cursor \in 0 .. LastEnd /\ Prefix(m, 0, mirror[m].cursor)
      BY DEF UsageInv, MirrorFits, CursorsAgree
    <2>7. h \in Int /\ 0 <= h
      BY Ends
    <2>8. 0 <= h /\ h < mirror[m].cursor /\ Base - Usage!Window <= h
      <3>1. \A k, e, c \in Int : k < e /\ ~ (c < e) => k < c
        OBVIOUS
      <3>2. turn.end \in Int /\ mirror[m].cursor \in Int
        BY <1>2, <2>6
      <3> QED BY <1>2, <1>10, <2>2, <2>5, <2>7, <3>1, <3>2 DEF s
    <2> QED BY <1>1, <2>6, <2>8 DEF Prefix
  <1>11. Usage!BecomesReadableWhole
    BY <1>10 DEF Usage!BecomesReadableWhole
  <1> QED BY <1>9, <1>11

\* requestUsageFactsCandidateGapRepair: the proofs of a bad day go, and the cursors with them.
LEMMA RepairGapStep == ASSUME UsageConstants, UsageInv, Usage!RepairGap PROVE UsageInv'
  <1>1. /\ UNCHANGED <<upto, control, source, spent, copied, leased, daily>> /\ turn.at = "gap"
        /\ turn' = Usage!Onward
    BY DEF Usage!RepairGap, Usage!At
  <1>2. /\ turn \in Turns /\ turn.end = Base /\ turn.hour \in 0 .. LastEnd /\ LastEnd \in Nat
        /\ HoursPerDay \in Nat \ {0}
    BY <1>1, Counts DEF UsageInv, TurnFits, Turns, Base
  <1>3. /\ turn' \in Turns /\ turn'.at \in {"top", "reconcile"}
        /\ turn'.at = "reconcile" => turn'.end = Base
    BY <1>1, OnwardFits
  <1>4. CASE mirror' = mirror /\ sync' = sync /\ proof' = proof /\ running' = running
    BY <1>1, <1>3, <1>4, IdleStep
  <1> DEFINE ids == Usage!GapMembers
             a == turn.hour * HoursPerDay
             b == (turn.hour + 1) * HoursPerDay
             range == a .. b - 1
             ends == [m \in Members |-> IF m \in ids THEN mirror[m].cursor ELSE 0]
             gap == [active |-> TRUE, from |-> a, through |-> b, fp |-> sync.fp, resume |-> ends]
  <1>5. CASE Usage!BeginRepair(turn.hour, turn.hour + 1, ids)
    <2>1. /\ sync' = [sync EXCEPT !.repair = gap]
          /\ proof' = [m \in Members |-> [h \in Usage!Hours |->
                         IF m \in ids /\ h \in range THEN 0 ELSE proof[m][h]]]
          /\ running' = running \ (ids \X range)
          /\ mirror' = [m \in Members |-> IF m \in ids /\ mirror[m].cursor > a
                                          THEN [mirror[m] EXCEPT !.cursor = a] ELSE mirror[m]]
      BY <1>5 DEF Usage!BeginRepair
    <2>2. a \in Nat /\ b \in Nat
      BY <1>2
    <2>3. /\ mirror \in [Members -> [active : BOOLEAN, rev : Revs, cursor : 0 .. LastEnd]]
          /\ sync \in Syncs /\ \A m \in Members : sync.served[m] <= control[m].rev
          /\ proof \in [Members -> [Usage!Hours -> Usage!Versions]]
          /\ \A m \in Members : Prefix(m, 0, mirror[m].cursor)
      BY DEF UsageInv, MirrorFits, StoresFit, CursorsAgree
    <2>4. ends \in [Members -> 0 .. LastEnd]
      BY <1>2, <2>3
    <2>5. gap \in RepairRows /\ gap.through = b /\ gap.resume = ends
      <3>1. sync.fp \in SUBSET Members
        BY <2>3 DEF Syncs
      <3> HIDE DEF ends, a, b
      <3> QED BY <2>2, <2>4, <3>1 DEF RepairRows
    <2>6. \A m \in Members : ends[m] = mirror[m].cursor \/ ends[m] = 0
      OBVIOUS
    <2> HIDE DEF ids, a, ends, gap
    <2>7. sync' \in Syncs /\ sync'.served = sync.served /\ sync'.repair = gap
      BY <2>1, <2>3, <2>5 DEF Syncs
    <2>8. proof' \in [Members -> [Usage!Hours -> Usage!Versions]]
      <3>1. 0 \in Usage!Versions
        BY DEF UsageConstants, Usage!Versions
      <3> HIDE DEF b, range
      <3> QED BY <2>1, <2>3, <3>1
    <2>9. ASSUME NEW m \in Members, NEW h \in Usage!Hours, h < a \/ b <= h
          PROVE  proof'[m][h] = proof[m][h]
      <3>1. h \in Int
        BY Ends
      <3>2. h \notin range
        <4> HIDE DEF b
        <4> QED BY <2>2, <2>9, <3>1
      <3> QED BY <2>1, <3>2
    <2>10. ASSUME NEW m \in Members, m \notin ids, NEW h \in Usage!Hours
           PROVE  proof'[m][h] = proof[m][h]
      BY <2>1, <2>10
    <2> HIDE DEF b, range
    <2>11. ASSUME NEW m \in Members
           PROVE  /\ mirror'[m] \in [active : BOOLEAN, rev : Revs, cursor : 0 .. LastEnd]
                  /\ mirror'[m].cursor <= mirror[m].cursor
                  /\ m \in ids => mirror'[m].cursor <= a
      <3>1. mirror[m].cursor \in 0 .. LastEnd
            /\ mirror[m] \in [active : BOOLEAN, rev : Revs, cursor : 0 .. LastEnd]
        BY <2>3
      <3>2. CASE m \in ids /\ mirror[m].cursor > a
        <4>1. mirror'[m] = [mirror[m] EXCEPT !.cursor = a]
          BY <2>1, <3>2
        <4>2. a \in 0 .. LastEnd
          BY <1>2, <2>2, <3>1, <3>2
        <4>3. mirror'[m] \in [active : BOOLEAN, rev : Revs, cursor : 0 .. LastEnd]
              /\ mirror'[m].cursor = a
          BY <3>1, <4>1, <4>2
        <4> QED BY <1>2, <2>2, <3>1, <3>2, <4>3
      <3>3. CASE ~ (m \in ids /\ mirror[m].cursor > a)
        <4>1. mirror'[m] = mirror[m]
          BY <2>1, <3>3
        <4> QED BY <1>2, <2>2, <3>1, <3>3, <4>1
      <3> QED BY <3>2, <3>3
    <2>12. mirror' \in [Members -> [active : BOOLEAN, rev : Revs, cursor : 0 .. LastEnd]]
      <3>1. mirror' = [m \in Members |-> mirror'[m]]
        BY <2>1
      <3> QED BY <2>11, <3>1
    <2>13. Base \in Int /\ Base' \in Int /\ Base <= Base' /\ Usage!Window \in Int
      <3>1. Base \in FirstEnd .. upto /\ Base \in Int /\ upto \in Int /\ Usage!Window \in Int
            /\ Base <= upto /\ Base <= Base
        BY Ends
      <3>2. Base' = upto \/ Base' = Base
        BY <1>1, <1>3 DEF Base
      <3> QED BY <3>1, <3>2
    <2>14. \A m \in Members : \A h \in Usage!Hours :
              Base' - Usage!Window <= h => Base - Usage!Window <= h
      <3>1. \A h \in Usage!Hours : h \in Int
        BY Ends
      <3>2. \A x, y, w, h \in Int : x <= y /\ y - w <= h => x - w <= h
        OBVIOUS
      <3> QED BY <2>13, <3>1, <3>2
    <2>15. ASSUME NEW m \in Members, NEW h \in Usage!Hours, Base' - Usage!Window <= h,
                  h < mirror'[m].cursor
           PROVE  proof'[m][h] > 0
      <3>1. h \in Int /\ 0 <= h /\ mirror[m].cursor \in Int /\ mirror'[m].cursor \in Int
        BY Ends, <2>3, <2>12
      <3>2. \A x, y, z \in Int : x < y /\ y <= z => x < z
        OBVIOUS
      <3>3. h < mirror[m].cursor /\ (m \in ids => h < a)
        BY <2>2, <2>11, <2>15, <3>1, <3>2
      <3>4. proof[m][h] > 0
        BY <2>3, <2>14, <2>15, <3>1, <3>3 DEF Prefix
      <3> QED BY <2>9, <2>10, <3>3, <3>4
    <2>16. ASSUME NEW m \in Members, NEW h \in Usage!Hours, Base' - Usage!Window <= h,
                  b <= h, h < ends[m]
           PROVE  proof'[m][h] > 0
      <3>1. h \in Int /\ 0 <= h
        BY Ends
      <3>2. h < mirror[m].cursor
        BY <2>6, <2>16, <3>1
      <3>3. proof[m][h] > 0
        BY <2>3, <2>14, <2>16, <3>1, <3>2 DEF Prefix
      <3> QED BY <2>9, <2>16, <3>3
    <2>17. CursorsHold'
      <3>1. sync'.repair.through = b /\ sync'.repair.resume = ends
        BY <2>5, <2>7
      <3> QED BY <2>15, <2>16, <3>1 DEF CursorsHold, Prefix, Usage!Hours, Usage!Window
    <2>18. CursorsAgree'
      BY <1>3, <2>17 DEF CursorsAgree, CursorsHold
    <2>19. TurnFits'
      BY <1>1, <1>3, Counts
      DEF TurnFits, Turns, Usage!Places, Usage!Jobs, Usage!Versions, Syncs, RepairRows, Revs
    <2>20. StoresFit'
      <3>1. running' \subseteq running
        BY <2>1
      <3> QED BY <1>1, <2>8, <3>1 DEF UsageInv, StoresFit, Usage!Hours, Usage!Versions
    <2>21. MirrorFits'
      <3>1. \A m \in Members : sync'.served[m] <= control'[m].rev
        BY <1>1, <2>3, <2>7
      <3> QED BY <2>7, <2>12, <3>1 DEF MirrorFits, Revs, Syncs, RepairRows
    <2>22. ClaimAgrees'
      <3>1. MaxCrashes = 0 => running' = {}
        BY <1>1, <2>1 DEF UsageInv, ClaimAgrees
      <3> QED BY <1>3, <3>1 DEF ClaimAgrees
    <2> QED BY <1>1, <2>18, <2>19, <2>20, <2>21, <2>22, SameWorld DEF UsageInv
  <1>6. \/ mirror' = mirror /\ sync' = sync /\ proof' = proof /\ running' = running
        \/ Usage!BeginRepair(turn.hour, turn.hour + 1, ids)
    BY DEF Usage!RepairGap
  <1> QED BY <1>4, <1>5, <1>6

-----------------------------------------------------------------------------
(* The whole.                                                               *)

\* At the start nothing has been copied, and no cursor stands anywhere.
LEMMA UsageFirst == ASSUME UsageConstants, Usage!Init PROVE UsageInv
  <1>1. /\ control = [m \in Members |-> [active |-> m \in FirstMembers, left |-> 0,
                                         rev |-> IF m \in FirstMembers THEN 1 ELSE 0]]
        /\ source = [m \in Members |-> [h \in Usage!Hours |-> 1]] /\ upto = FirstEnd
        /\ copied = [m \in Members |-> [h \in Usage!Hours |-> 0]]
        /\ proof = copied /\ daily = copied /\ running = {} /\ leased = FALSE
        /\ mirror = [m \in Members |-> [active |-> FALSE, rev |-> 0, cursor |-> 0]]
        /\ sync = [fp |-> {}, served |-> Usage!NoHour, from |-> 0, through |-> 0,
                   repair |-> Usage!NoRepair, pruned |-> -HoursPerDay, reconcile |-> 0]
        /\ turn = [Usage!Top EXCEPT !.at = "start"]
        /\ spent = [late |-> 0, changes |-> 0, crashes |-> 0, failures |-> 0, repairs |-> 0]
    BY DEF Usage!Init, Usage!Start
  <1>2. /\ {LastEnd, FirstEnd, HoursPerDay} \subseteq Nat \ {0} /\ FirstEnd <= LastEnd
        /\ {MaxLate, MaxChanges, MaxCrashes, MaxFailures, MaxRepairs} \subseteq Nat
        /\ FirstMembers \subseteq Members
    BY DEF UsageConstants
  <1>3. 0 \in Usage!Versions /\ 1 \in Usage!Versions /\ 0 \in Revs /\ 1 \in Revs /\ 0 \in 0 .. LastEnd
    BY <1>2 DEF Usage!Versions, Revs
  <1>4. WorldFits
    <2>1. control \in [Members -> [active : BOOLEAN, left : 0 .. LastEnd, rev : Revs]]
          /\ \A m \in Members : control[m].rev <= 1
      BY <1>1, <1>3
    <2>2. source \in [Members -> [Usage!Hours -> Usage!Versions]]
          /\ \A m \in Members, h \in Usage!Hours : source[m][h] = 1
      BY <1>1, <1>3
    <2>3. /\ spent \in [late : 0 .. MaxLate, changes : 0 .. MaxChanges, crashes : 0 .. MaxCrashes,
                         failures : 0 .. MaxFailures, repairs : 0 .. MaxRepairs]
          /\ spent.changes = 0 /\ spent.late = 0
      BY <1>1, <1>2
    <2> QED BY <1>1, <1>2, <2>1, <2>2, <2>3 DEF WorldFits
  <1>5. StoresFit
    <2>1. copied \in [Members -> [Usage!Hours -> Usage!Versions]]
      BY <1>1, <1>3
    <2> QED BY <1>1, <2>1 DEF StoresFit
  <1>6. mirror \in [Members -> [active : BOOLEAN, rev : Revs, cursor : 0 .. LastEnd]]
        /\ \A m \in Members : mirror[m].cursor = 0
    BY <1>1, <1>3
  <1>7. sync \in Syncs /\ ~sync.repair.active /\ sync.served = Usage!NoHour
    <2>1. Usage!NoRepair \in RepairRows /\ ~Usage!NoRepair.active
      BY <1>3 DEF Usage!NoRepair, Usage!NoHour, RepairRows
    <2>2. Usage!NoHour \in [Members -> Revs]
      BY <1>3 DEF Usage!NoHour
    <2>3. -HoursPerDay \in Int
      BY <1>2
    <2> QED BY <1>1, <1>3, <2>1, <2>2, <2>3 DEF Syncs
  <1>8. MirrorFits
    <2>1. \A m \in Members : sync.served[m] <= control[m].rev
      BY <1>1, <1>7 DEF Usage!NoHour
    <2> QED BY <1>6, <1>7, <2>1 DEF MirrorFits
  <1>9. turn \in Turns /\ turn.at = "start"
    BY <1>1, TopFits DEF Turns, Usage!Places
  <1>10. CursorsAgree
    BY <1>2, <1>6, <1>7, <1>9 DEF CursorsAgree, Prefix, Usage!Hours
  <1>11. ClaimAgrees /\ TurnFits
    BY <1>1, <1>9 DEF ClaimAgrees, TurnFits
  <1> QED BY <1>4, <1>5, <1>8, <1>10, <1>11 DEF UsageInv

\* Every step keeps it, when no operator asks for a repair.
LEMMA UsageStep ==
  ASSUME UsageConstants, Unrepaired, UsageInv, [Usage!Next]_(Usage!vars)
  PROVE  UsageInv'
  <1>1. CASE UNCHANGED Usage!vars
    <2>1. /\ UNCHANGED <<upto, control, source, spent, copied, proof, running, leased, daily,
                         mirror, sync, turn>>
      BY <1>1 DEF Usage!vars, Usage!stores
    <2>2. upto' \in FirstEnd .. LastEnd /\ upto <= upto'
      BY <2>1, Ends
    <2> QED BY <2>1, <2>2, SameWorld, SameStores, SameMirror, SameTurn DEF UsageInv
  <1>2. CASE Usage!World
    <2>1. ~ \E from, through \in 0 .. LastEnd \div HoursPerDay : Usage!RequestRepair(from, through)
      <3>1. spent.repairs \in 0 .. MaxRepairs
        BY DEF UsageInv, WorldFits
      <3>2. ~ (spent.repairs < MaxRepairs)
        BY <3>1 DEF Unrepaired
      <3> QED BY <3>2 DEF Usage!RequestRepair
    <2> QED
      BY <1>2, <2>1, CloseHourStep, LateLogStep, AddMemberStep, RemoveMemberStep, CrashStep
      DEF Usage!World
  <1>3. CASE Usage!Turn
    BY <1>3, EasySteps, StartTailStep, ClaimStep, ClaimBusyStep, CommitStep, FailStep, LostStep,
       AdvanceTailStep, PruneReadsStep, PruneWritesStep, StartBackfillStep, PickBatchStep,
          SetCursorStep,
       RewindStep, PublishStep, PublishFailsStep, RepairGapStep, StartReconcileStep
    DEF Usage!Turn
  <1> QED BY <1>1, <1>2, <1>3, LeaseExpiresStep DEF Usage!Next

\* The invariant says what the property asks for.
LEMMA UsageImplies ==
  ASSUME UsageConstants, UsageInv PROVE Usage!TypeOK /\ Usage!CursorIsCompletePrefix
  <1>1. Usage!TypeOK
    <2>1. /\ sync.fp \subseteq Members /\ sync.served \in [Members -> 0 .. MaxChanges + 1]
          /\ {sync.from, sync.through, sync.reconcile} \subseteq 0 .. LastEnd
          /\ mirror \in [Members -> [active : BOOLEAN, rev : 0 .. MaxChanges + 1, cursor : 0 .. LastEnd]]
      BY DEF UsageInv, MirrorFits, Syncs, Revs
    <2>2. /\ turn.at \in Usage!Places /\ turn.job \in Usage!Jobs /\ turn.end \in 0 .. LastEnd
          /\ turn.ids \subseteq Members /\ turn.hour \in 0 .. LastEnd
      BY DEF UsageInv, TurnFits, Turns
    <2>3. control \in [Members -> [active : BOOLEAN, rev : 0 .. MaxChanges + 1, left : 0 .. LastEnd]]
      <3>1. control \in [Members -> [active : BOOLEAN, left : 0 .. LastEnd, rev : Revs]]
        BY DEF UsageInv, WorldFits
      <3> QED BY <3>1 DEF Revs
    <2>4. source \in [Members -> [Usage!Hours -> Usage!Versions]] /\ upto \in FirstEnd .. LastEnd
      BY DEF UsageInv, WorldFits
    <2> QED BY <2>1, <2>2, <2>3, <2>4 DEF UsageInv, StoresFit, Usage!TypeOK
  <1>2. Usage!CursorIsCompletePrefix
    <2>1. \A m \in Members : Prefix(m, 0, mirror[m].cursor)
      BY DEF UsageInv, CursorsAgree
    <2>2. Base \in FirstEnd .. upto /\ upto \in Int /\ Base \in Int /\ Usage!Window \in Int
          /\ Base <= upto
      BY Ends
    <2>3. \A h \in Usage!Hours : h \in Int /\ 0 <= h
      BY Ends
    <2>4. \A x, y, w, h \in Int : x <= y /\ y - w <= h => x - w <= h
      OBVIOUS
    <2>5. \A h \in Usage!Hours : upto - Usage!Window <= h => Base - Usage!Window <= h
      BY <2>2, <2>3, <2>4
    <2> QED BY <2>1, <2>3, <2>5 DEF Usage!CursorIsCompletePrefix, Prefix, Usage!Mirrored
  <1> QED BY <1>1, <1>2

\* Only the publication makes a member readable: every other step leaves the list
\* and the served revisions, or gives a member a revision that nobody serves.
LEMMA UsageReads ==
  ASSUME UsageConstants, UsageInv, [Usage!Next]_(Usage!vars)
  PROVE  [Usage!BecomesReadableWhole]_(Usage!vars)
  <1>1. sync \in Syncs
    BY DEF UsageInv, MirrorFits
  <1>2. ASSUME control' = control, sync'.served = sync.served PROVE Usage!BecomesReadableWhole
    BY <1>2 DEF Usage!BecomesReadableWhole, Usage!Readable, Usage!Compatible
  <1>3. ASSUME NEW n \in Members, Usage!AddMember(n) \/ Usage!RemoveMember(n)
        PROVE  Usage!BecomesReadableWhole
    <2>1. ~Usage!Readable(n)'
      BY <1>3, AddMemberStep, RemoveMemberStep
    <2>2. sync' = sync /\ \A m \in Members \ {n} : control'[m] = control[m]
      <3>1. control \in [Members -> [active : BOOLEAN, left : 0 .. LastEnd, rev : Revs]]
        BY DEF UsageInv, WorldFits
      <3> QED BY <1>3, <3>1 DEF Usage!AddMember, Usage!RemoveMember
    <2> QED BY <2>1, <2>2 DEF Usage!BecomesReadableWhole, Usage!Readable, Usage!Compatible
  <1>4. CASE Usage!CloseHour \/ Usage!Crash \/ Usage!LeaseExpires
             \/ \E m \in Members, h \in Usage!Hours : Usage!LateLog(m, h)
    BY <1>2, <1>4 DEF Usage!CloseHour, Usage!Crash, Usage!LeaseExpires, Usage!LateLog
  <1>5. ASSUME NEW from, NEW through, NEW ids, Usage!BeginRepair(from, through, ids)
        PROVE  sync'.served = sync.served
    BY <1>1, <1>5 DEF Usage!BeginRepair, Syncs
  <1>6. CASE \E from, through \in 0 .. LastEnd \div HoursPerDay : Usage!RequestRepair(from, through)
    <2>1. PICK from, through \in 0 .. LastEnd \div HoursPerDay : Usage!RequestRepair(from, through)
      BY <1>6
    <2>2. control' = control /\ sync'.served = sync.served
      BY <1>5, <2>1 DEF Usage!RequestRepair
    <2> QED BY <1>2, <2>2
  <1>7. CASE Usage!RepairGap
    <2>1. sync' = sync \/ Usage!BeginRepair(turn.hour, turn.hour + 1, Usage!GapMembers)
      BY <1>7 DEF Usage!RepairGap
    <2>2. control' = control /\ sync'.served = sync.served
      BY <1>5, <1>7, <2>1 DEF Usage!RepairGap
    <2> QED BY <1>2, <2>2
  <1>8. CASE Usage!Boot \/ Usage!SkipTail \/ Usage!Claim \/ Usage!PruneReads \/ Usage!NoMembers
             \/ Usage!PickBatch \/ Usage!Rewind \/ Usage!AuditNotDue \/ Usage!PublishFails
             \/ Usage!SkipReconcile
    <2>1. control' = control /\ sync' = sync
      BY <1>8 DEF Usage!Boot, Usage!SkipTail, Usage!Claim, Usage!PruneReads, Usage!NoMembers,
                  Usage!PickBatch, Usage!Rewind, Usage!AuditNotDue, Usage!PublishFails,
                  Usage!SkipReconcile
    <2> QED BY <1>2, <2>1
  <1>9. CASE Usage!StartTail \/ Usage!StartBackfill \/ Usage!StartReconcile
    <2>1. control' = control /\ \E e : Usage!Ensure(e)
      BY <1>9 DEF Usage!StartTail, Usage!StartBackfill, Usage!StartReconcile
    <2>2. sync'.served = sync.served
      BY <1>1, <2>1 DEF Usage!Ensure, Usage!EnsuredSync, Syncs
    <2> QED BY <1>2, <2>1, <2>2
  <1>10. CASE Usage!ClaimBusy \/ Usage!Commit \/ Usage!Fail \/ Usage!Lost
    <2>1. control' = control /\ (Usage!Reconciled \/ sync' = sync)
      BY <1>10 DEF Usage!ClaimBusy, Usage!Commit, Usage!Fail, Usage!Lost
    <2>2. sync'.served = sync.served
      BY <1>1, <2>1 DEF Usage!Reconciled, Syncs
    <2> QED BY <1>2, <2>1, <2>2
  <1>11. CASE Usage!Advance \/ Usage!PruneWrites
    <2>1. control' = control /\ sync'.served = sync.served
      BY <1>11, AdvanceTailStep, PruneWritesStep DEF Usage!Advance, Usage!PruneWrites
    <2> QED BY <1>2, <2>1
  <1>12. CASE Usage!SetCursor
    <2>1. control' = control /\ (sync' = sync \/ sync' = [sync EXCEPT !.repair = Usage!NoRepair])
      BY <1>12 DEF Usage!SetCursor, Usage!Progress
    <2>2. sync'.served = sync.served
      BY <1>1, <2>1 DEF Syncs
    <2> QED BY <1>2, <2>1, <2>2
  <1>13. CASE Usage!Publish
    BY <1>13, PublishStep
  <1>14. CASE UNCHANGED Usage!vars
    BY <1>14
  <1> QED
    BY <1>3, <1>4, <1>6, <1>7, <1>8, <1>9, <1>10, <1>11, <1>12, <1>13, <1>14
    DEF Usage!Next, Usage!World, Usage!Turn

\* A cursor stands for an unbroken run of imported hours: usageFactsStatus takes the
\* coverage from it alone.  Whatever the lists, the crashes or the failing queries
\* do, as long as no operator asks for a repair.
THEOREM CursorsAlwaysComplete ==
  UsageConstants /\ Unrepaired => (Usage!Spec => [](Usage!TypeOK /\ Usage!CursorIsCompletePrefix))
  <1> SUFFICES ASSUME UsageConstants, Unrepaired
               PROVE  Usage!Spec => [](Usage!TypeOK /\ Usage!CursorIsCompletePrefix)
    OBVIOUS
  <1>1. Usage!Init => UsageInv
    BY UsageFirst
  <1>2. UsageInv /\ [Usage!Next]_(Usage!vars) => UsageInv'
    BY UsageStep
  <1>3. UsageInv => Usage!TypeOK /\ Usage!CursorIsCompletePrefix
    BY UsageImplies
  <1> QED BY <1>1, <1>2, <1>3, PTL DEF Usage!Spec

\* A member becomes visible to the readers only with the whole published window
\* imported under its present membership.
THEOREM MembersBecomeReadableWhole ==
  UsageConstants /\ Unrepaired => (Usage!Spec => [][Usage!BecomesReadableWhole]_(Usage!vars))
  <1> SUFFICES ASSUME UsageConstants, Unrepaired
               PROVE  Usage!Spec => [][Usage!BecomesReadableWhole]_(Usage!vars)
    OBVIOUS
  <1>1. Usage!Init => UsageInv
    BY UsageFirst
  <1>2. UsageInv /\ [Usage!Next]_(Usage!vars) => UsageInv'
    BY UsageStep
  <1>3. UsageInv /\ [Usage!Next]_(Usage!vars) => [Usage!BecomesReadableWhole]_(Usage!vars)
    BY UsageReads
  <1> QED BY <1>1, <1>2, <1>3, PTL DEF Usage!Spec

-----------------------------------------------------------------------------
(* The full history: what is published and what a job goes on from is read.  *)

CONSTANTS Member, Registered, Recent, MaxChunk, MaxTries, Lag, FirstHour, LastHour, MaxRev, MaxEpoch,
          MaxFaults

VARIABLES clock, member, day, row, range, seen, faults

History == INSTANCE FullHistory WITH MaxAttempts <- MaxTries, First <- FirstHour, Last <- LastHour

HistoryConstants ==
    /\ {HoursPerDay, FirstHour, LastHour, MaxRev, MaxEpoch, MaxTries} \subseteq Nat \ {0}
    /\ {MaxChunk, MaxFaults} \subseteq Nat /\ FirstHour <= LastHour
    /\ Registered \in [Member -> 0 .. LastHour]

States == [active : BOOLEAN, rev : 0 .. MaxRev, epoch : 0 .. MaxEpoch, floor : Nat, first : 0 .. LastHour,
           checked : {"never", "fresh", "stale"}, cover : 0 .. LastHour, tail : 0 .. LastHour,
           verified : 0 .. LastHour, ready : BOOLEAN, complete : BOOLEAN, history : {"open", "empty", "hot"}]
Signatures == [rev : 0 .. MaxRev, epoch : 0 .. MaxEpoch, floor : Nat, verified : 0 .. LastHour]
Steps == {"discover", "found", "backfill", "fetching", "checked", "imported", "tail", "reading", "ending",
          "read", "verify"}
Claims == [at : Steps, m : Member, rev : 1 .. MaxRev, epoch : 0 .. MaxEpoch, h : 0 .. LastHour,
           target : 0 .. LastHour, through : 0 .. LastHour + 1]
Reads == {r \in [on : BOOLEAN, rev : -1 .. MaxRev] : r.on => r.rev > 0}

\* The kind of the job at which a step works.
KindOf(at) ==
    CASE at \in {"discover", "found"} -> "discover"
      [] at \in {"backfill", "fetching", "checked", "imported"} -> "backfill"
      [] at \in {"tail", "reading", "ending", "read"} -> "tail"
      [] OTHER -> "verify"

GatewayFits ==
    /\ control \in [Member -> [on : BOOLEAN, rev : 1 .. MaxRev]]
    /\ source \in [Member -> SUBSET History!Hours]
    /\ clock \in [end : FirstHour .. LastHour, epoch : 1 .. MaxEpoch]
    /\ seen \in [{"worker", "loop"} -> [Member -> Reads]]
    /\ faults \in 0 .. MaxFaults

ProofsFit ==
    /\ day \in [Member -> [History!Days -> {"none", "pending", "complete"}]]
    /\ hour \in [Member -> [History!Hours ->
         [status : {"none", "running", "complete"}, epoch : 0 .. MaxEpoch, facts : BOOLEAN]]]

\* A job of whole days goes on at midnight, and one that may be claimed has attempts left.
JobFits(j) ==
    /\ j.kind = "backfill" => j.next % HoursPerDay = 0
    /\ j.status \notin {"paused", "cancelled"} => j.attempts < MaxTries

MembersFit ==
    /\ member \in [Member -> States]
    /\ job \in [Member -> [History!Revisions -> History!Job]]
    /\ \A m \in Member, r \in History!Revisions : JobFits(job[m][r])

\* Every published row was verified up to the day of the right edge.
ServedFits ==
    /\ row \in [Member -> Signatures]
    /\ range \in [from : Nat, through : 0 .. LastHour]
    /\ \A m \in Member : row[m] # History!NoRow =>
         /\ row[m].floor > 0 /\ 0 < range.from /\ range.from < range.through
         /\ range.through <= clock.end
         /\ row[m].verified >= History!Day(range.through)

WorkerFits ==
    /\ worker \in Claims \cup {History!Idle}
    /\ worker # History!Idle =>
         /\ KindOf(worker.at) = "backfill" => worker.h % HoursPerDay = 0 /\ worker.through <= LastHour
                                               /\ worker.through % HoursPerDay = 0
         /\ worker.at = "found" => worker.h % HoursPerDay = 0
         /\ worker.at \in {"reading", "ending", "read"} => worker.h \in History!Hours
         /\ worker.at = "verify" => worker.through <= LastHour
    /\ loop \in [at : {"reading", "ending"}, m : Member, h : History!Hours] \cup {History!Idle}

Trusts(s, e) == s.history = "hot" /\ s.epoch = e

\* Every hour since the first log and before t is read: with its day, or, in an unfinished day, by itself.
ReadUpTo(first, dd, hh, e, t) ==
    \A h \in History!Hours : first <= h /\ h < t =>
        \/ dd[History!Day(h)] = "complete"
        \/ t < History!Day(h) + HoursPerDay /\ hh[h].epoch = e

\* What the mirror s of a member promises of its jobs j, its published row p and its days and hours.
AgreesWith(s, j, e, p, dd, hh) ==
    /\ s.epoch <= e
    /\ s.active => s.rev # 0
    /\ s.history # "open" => s.rev # 0 /\ s.floor > 0 /\ s.checked # "never"
    /\ s.history = "hot" => s.first > 0
    /\ s.rev # 0 /\ ~s.active => History!Terminal(j[s.rev])
    /\ s.rev # 0 /\ s.history = "open" => j[s.rev].kind = "discover" /\ j[s.rev].status # "complete"
    /\ Trusts(s, e) =>
         /\ ReadUpTo(s.first, dd, hh, e, j[s.rev].next)
         /\ j[s.rev].kind = "verify" \/ j[s.rev].status = "complete" => s.tail <= j[s.rev].next
    /\ p # History!NoRow =>
         /\ Trusts(s, e) => ReadUpTo(s.first, dd, hh, e, s.tail)
         /\ s.history = "open" => s.tail = 0

\* A job that runs is one that ran, at the same place.
Runs(j, k) == k.status = "running" => j.status = "running" /\ k.kind = j.kind /\ k.next = j.next

\* What the worker at w knows of its job j, of the mirror s of its member, and of its days and hours.
Knows(w, j, s, e, dd, hh) ==
    /\ j.status = "running" => j.kind = KindOf(w.at) /\ (KindOf(w.at) = "backfill" => j.next = w.h)
    /\ w.at = "found" => s.epoch = e
    /\ w.at = "imported" /\ Trusts(s, e) =>
         \A d \in History!Days : w.h <= d /\ d < w.through => dd[d] = "complete"
    /\ w.at \in {"ending", "read"} => hh[w.h].epoch = e
    /\ w.at = "read" /\ Trusts(s, e) /\ History!EndsDay(w.h) => dd[History!Day(w.h)] = "complete"

MembersAgree ==
    \A m \in Member : AgreesWith(member[m], job[m], clock.epoch, row[m], day[m], hour[m])
WorkerKnows ==
    worker # History!Idle => Knows(worker, job[worker.m][worker.rev], member[worker.m], clock.epoch,
                                   day[worker.m], hour[worker.m])

HistoryInv == GatewayFits /\ ProofsFit /\ MembersFit /\ ServedFits /\ WorkerFits /\ MembersAgree /\ WorkerKnows

-----------------------------------------------------------------------------
(* Hours and days.                                                          *)

\* The day of an hour is the last midnight.
LEMMA DayOf ==
  ASSUME HistoryConstants, NEW h \in Nat
  PROVE  /\ History!Day(h) \in 0 .. h /\ h < History!Day(h) + HoursPerDay
         /\ History!Day(h) % HoursPerDay = 0
  <1>1. HoursPerDay \in Nat \ {0}
    BY DEF HistoryConstants
  <1>2. h % HoursPerDay \in 0 .. HoursPerDay - 1
    BY <1>1
  <1> QED BY <1>1, <1>2, Rounded DEF History!Day

\* An hour lies in the day that begins at most a day before it.
LEMMA InDay ==
  ASSUME HistoryConstants, NEW h \in Nat, NEW a \in Nat, a % HoursPerDay = 0, a <= h, h < a + HoursPerDay
  PROVE  History!Day(h) = a
  <1>1. HoursPerDay \in Nat \ {0}
    BY DEF HistoryConstants
  <1>2. /\ History!Day(h) \in 0 .. h /\ h < History!Day(h) + HoursPerDay
        /\ History!Day(h) % HoursPerDay = 0
    BY DayOf
  <1> DEFINE d == History!Day(h)
  <1>3. a \in Int /\ d \in Int /\ d % HoursPerDay = 0
    BY <1>2
  <1> HIDE DEF d
  <1>4. a < d => a + HoursPerDay <= d
    BY <1>1, <1>3, Apart
  <1>5. d < a => d + HoursPerDay <= a
    BY <1>1, <1>3, Apart
  <1>6. d \in 0 .. h /\ h < d + HoursPerDay
    BY <1>2 DEF d
  <1> QED BY <1>1, <1>3, <1>4, <1>5, <1>6 DEF d

\* Midnights are their own day.
LEMMA Midnight ==
  ASSUME HistoryConstants, NEW h \in Nat
  PROVE  (History!Day(h) = h) <=> (h % HoursPerDay = 0)
  <1>1. HoursPerDay \in Nat \ {0}
    BY DEF HistoryConstants
  <1>2. h % HoursPerDay = 0 => History!Day(h) = h
    BY <1>1, InDay
  <1> QED BY <1>2, DayOf

\* A later hour has no earlier day, and no earlier midnight than one that passed.
LEMMA DaysGrow ==
  ASSUME HistoryConstants, NEW a \in Nat, NEW b \in Nat, a <= b
  PROVE  History!Day(a) <= History!Day(b)
  <1>1. HoursPerDay \in Nat \ {0}
    BY DEF HistoryConstants
  <1>2. /\ History!Day(a) \in 0 .. a /\ History!Day(a) % HoursPerDay = 0
        /\ History!Day(b) \in 0 .. b /\ b < History!Day(b) + HoursPerDay
        /\ History!Day(b) % HoursPerDay = 0
    BY DayOf
  <1>3. History!Day(b) < History!Day(a) => History!Day(b) + HoursPerDay <= History!Day(a)
    BY <1>1, <1>2, Apart
  <1> QED BY <1>1, <1>2, <1>3

\* The hours of the model and their days.
LEMMA HoursAndDays ==
  ASSUME HistoryConstants
  PROVE  /\ \A h \in History!Hours : h \in 0 .. LastHour /\ h < LastHour /\ History!Day(h) \in History!Days
         /\ \A d \in History!Days : d \in History!Hours /\ d \in 0 .. LastHour /\ d % HoursPerDay = 0
                                     /\ History!Day(d) = d
  <1>1. HoursPerDay \in Nat \ {0} /\ LastHour \in Nat
    BY DEF HistoryConstants
  <1>2. \A h \in History!Hours : h \in 0 .. LastHour /\ h < LastHour /\ HoursPerDay <= h
    BY <1>1 DEF History!Hours
  <1>3. ASSUME NEW h \in History!Hours
        PROVE  /\ History!Day(h) \in History!Hours /\ History!Day(h) % HoursPerDay = 0
               /\ History!Day(History!Day(h)) = History!Day(h)
    <2>1. h \in Nat /\ HoursPerDay <= h
      BY <1>2
    <2>2. HoursPerDay % HoursPerDay = 0
      BY <1>1
    <2>3. History!Day(HoursPerDay) = HoursPerDay
      BY <1>1, <2>2, Midnight
    <2>4. HoursPerDay <= History!Day(h)
      BY <1>1, <2>1, <2>3, DaysGrow
    <2>5. History!Day(h) \in 0 .. h /\ History!Day(h) % HoursPerDay = 0
      BY <2>1, DayOf
    <2> QED BY <1>1, <1>2, <2>4, <2>5, Midnight DEF History!Hours
  <1>4. \A h \in History!Hours : History!Day(h) \in History!Days
    BY DEF History!Days
  <1> QED BY <1>2, <1>3, <1>4 DEF History!Days

-----------------------------------------------------------------------------
(* What is read stays read, and one more hour or day of it.                 *)

\* Proofs are added, none is lost.
Added(dd, hh, dd2, hh2, e) ==
    /\ \A d \in History!Days : dd[d] = "complete" => dd2[d] = "complete"
    /\ \A h \in History!Hours : hh[h].epoch = e => hh2[h].epoch = e

LEMMA ReadRemains ==
  ASSUME HistoryConstants, NEW first, NEW e, NEW t, NEW dd, NEW hh, NEW dd2, NEW hh2,
         Added(dd, hh, dd2, hh2, e), ReadUpTo(first, dd, hh, e, t)
  PROVE  ReadUpTo(first, dd2, hh2, e, t)
  BY HoursAndDays DEF Added, ReadUpTo

\* Up to an earlier hour it is read as well.
LEMMA ReadLess ==
  ASSUME HistoryConstants, NEW first, NEW e, NEW dd, NEW hh, NEW t \in Nat, NEW u \in Nat, u <= t,
         ReadUpTo(first, dd, hh, e, t)
  PROVE  ReadUpTo(first, dd, hh, e, u)
  <1>1. SUFFICES ASSUME NEW h \in History!Hours, first <= h, h < u
                 PROVE  \/ dd[History!Day(h)] = "complete"
                        \/ u < History!Day(h) + HoursPerDay /\ hh[h].epoch = e
    BY DEF ReadUpTo
  <1>2. h \in Nat /\ HoursPerDay \in Nat
    BY HoursAndDays DEF HistoryConstants
  <1>3. History!Day(h) \in Nat
    BY <1>2, DayOf
  <1>4. h < t
    BY <1>1, <1>2
  <1>5. \/ dd[History!Day(h)] = "complete"
        \/ t < History!Day(h) + HoursPerDay /\ hh[h].epoch = e
    BY <1>1, <1>4 DEF ReadUpTo
  <1> QED BY <1>2, <1>3, <1>5

\* Nothing lies before the first hour.
LEMMA ReadNothing ==
  ASSUME HistoryConstants, NEW first, NEW e, NEW dd, NEW hh PROVE ReadUpTo(first, dd, hh, e, 0)
  BY HoursAndDays DEF ReadUpTo

\* An hour is read; the last of a day with the day (executeUsageFactHistoryTail).
LEMMA ReadHour ==
  ASSUME HistoryConstants, NEW first, NEW e, NEW dd, NEW hh, NEW t \in History!Hours,
         ReadUpTo(first, dd, hh, e, t), hh[t].epoch = e,
         History!EndsDay(t) => dd[History!Day(t)] = "complete"
  PROVE  ReadUpTo(first, dd, hh, e, t + 1)
  <1>1. t \in Nat /\ HoursPerDay \in Nat \ {0}
    BY HoursAndDays DEF HistoryConstants
  <1>2. SUFFICES ASSUME NEW h \in History!Hours, first <= h, h < t + 1
                 PROVE  \/ dd[History!Day(h)] = "complete"
                        \/ t + 1 < History!Day(h) + HoursPerDay /\ hh[h].epoch = e
    BY DEF ReadUpTo
  <1>3. h \in Nat /\ h <= t
    BY <1>1, <1>2, HoursAndDays
  <1>4. /\ History!Day(h) \in 0 .. h /\ h < History!Day(h) + HoursPerDay
        /\ History!Day(h) % HoursPerDay = 0
    BY <1>3, DayOf
  <1>5. \/ dd[History!Day(h)] = "complete"
        \/ t < History!Day(h) + HoursPerDay /\ hh[h].epoch = e
    <2>1. CASE h = t
      BY <2>1, <1>4
    <2>2. CASE h # t
      <3>1. h < t
        BY <2>2, <1>1, <1>3
      <3> QED BY <3>1, <1>2 DEF ReadUpTo
    <2> QED BY <2>1, <2>2
  <1>6. CASE t + 1 = History!Day(h) + HoursPerDay
    <2>1. History!Day(t) = History!Day(h)
      <3> DEFINE d == History!Day(h)
      <3>1. d \in Nat /\ d % HoursPerDay = 0 /\ d <= t /\ t < d + HoursPerDay
        BY <1>1, <1>3, <1>4, <1>6
      <3> HIDE DEF d
      <3>2. History!Day(t) = d
        BY <1>1, <3>1, InDay
      <3> QED BY <3>2 DEF d
    <2>2. (t + 1) % HoursPerDay = 0
      <3>1. History!Day(h) \in Int /\ 1 \in Int /\ 1 * HoursPerDay = HoursPerDay
        BY <1>1, <1>4
      <3>2. (History!Day(h) + 1 * HoursPerDay) % HoursPerDay = 0
        BY <1>1, <1>4, <3>1, Sums
      <3> QED BY <3>1, <3>2, <1>6
    <2>3. History!Day(t + 1) = t + 1
      <3>1. t + 1 \in Nat
        BY <1>1
      <3> QED BY <2>2, <3>1, Midnight
    <2>4. dd[History!Day(t)] = "complete"
      BY <2>3 DEF History!EndsDay
    <2> QED BY <2>1, <2>4
  <1>7. CASE t + 1 # History!Day(h) + HoursPerDay
    BY <1>1, <1>4, <1>5, <1>7
  <1> QED BY <1>6, <1>7

\* Whole days are read, from a midnight on (executeUsageFactHistoryBackfill).
LEMMA ReadDays ==
  ASSUME HistoryConstants, NEW first, NEW e, NEW dd, NEW hh, NEW t \in Nat, NEW u \in Nat,
         t % HoursPerDay = 0, ReadUpTo(first, dd, hh, e, t),
         \A d \in History!Days : t <= d /\ d < u => dd[d] = "complete"
  PROVE  ReadUpTo(first, dd, hh, e, u)
  <1>1. HoursPerDay \in Nat \ {0}
    BY DEF HistoryConstants
  <1>2. SUFFICES ASSUME NEW h \in History!Hours, first <= h, h < u
                 PROVE  dd[History!Day(h)] = "complete"
    BY DEF ReadUpTo
  <1> DEFINE d == History!Day(h)
  <1>3. h \in Nat /\ d \in Nat /\ d \in History!Days /\ d <= h /\ h < d + HoursPerDay
        /\ d % HoursPerDay = 0
    BY HoursAndDays, DayOf
  <1>4. CASE t <= h
    <2>1. History!Day(t) = t
      BY Midnight
    <2>2. t <= d
      BY <1>3, <1>4, <2>1, DaysGrow
    <2> HIDE DEF d
    <2>3. d < u
      BY <1>2, <1>3
    <2>4. dd[d] = "complete"
      BY <1>3, <2>2, <2>3
    <2> QED BY <2>4 DEF d
  <1>5. CASE h < t
    <2>1. dd[d] = "complete" \/ t < d + HoursPerDay
      BY <1>2, <1>5 DEF ReadUpTo
    <2> HIDE DEF d
    <2>2. d < t /\ d \in Int /\ t \in Int
      BY <1>3, <1>5
    <2>3. d + HoursPerDay <= t
      BY <1>1, <1>3, <2>2, Apart
    <2>4. dd[d] = "complete"
      BY <1>1, <1>3, <2>1, <2>3
    <2> QED BY <2>4 DEF d
  <1> QED BY <1>3, <1>4, <1>5

\* Up to the first day that is missing all are complete (contiguousUsageFactHistoryCoverage).
LEMMA ReadContiguous ==
  ASSUME HistoryConstants, NEW first \in Nat, NEW e, NEW dd, NEW hh, NEW u \in Nat,
         first % HoursPerDay = 0,
         \A d \in History!Days : first <= d /\ d < u => dd[d] = "complete"
  PROVE  ReadUpTo(first, dd, hh, e, u)
  <1>1. SUFFICES ASSUME NEW h \in History!Hours, first <= h, h < u
                 PROVE  dd[History!Day(h)] = "complete"
    BY DEF ReadUpTo
  <1> DEFINE d == History!Day(h)
  <1>2. h \in Nat /\ d \in Nat /\ d \in History!Days /\ d <= h
    BY HoursAndDays, DayOf
  <1>3. History!Day(first) = first
    BY Midnight
  <1>4. first <= d
    BY <1>1, <1>2, <1>3, DaysGrow
  <1> HIDE DEF d
  <1>5. dd[d] = "complete"
    BY <1>1, <1>2, <1>4
  <1> QED BY <1>5 DEF d

-----------------------------------------------------------------------------
(* What a step may do to the mirror, the jobs and the proofs of a member    *)
(* without breaking what they promise.                                      *)

\* Proofs are added and a published row goes.
LEMMA AgreesMore ==
  ASSUME HistoryConstants, NEW s, NEW j, NEW e, NEW p, NEW dd, NEW hh, NEW q, NEW dd2, NEW hh2,
         AgreesWith(s, j, e, p, dd, hh), Added(dd, hh, dd2, hh2, e), q \in {p, History!NoRow}
  PROVE  AgreesWith(s, j, e, q, dd2, hh2)
  <1>1. \A t : ReadUpTo(s.first, dd, hh, e, t) => ReadUpTo(s.first, dd2, hh2, e, t)
    BY ReadRemains
  <1> QED BY <1>1 DEF AgreesWith

\* A job keeps its kind and its place, does not end, and is not taken up again.
Moves(j, k) ==
    /\ k.kind = j.kind /\ k.next = j.next
    /\ k.status = "complete" => j.status = "complete"
    /\ History!Terminal(j) => History!Terminal(k)

LEMMA AgreesJob ==
  ASSUME NEW s, NEW j, NEW k, NEW e, NEW p, NEW dd, NEW hh,
         AgreesWith(s, j, e, p, dd, hh), s.rev # 0 => Moves(j[s.rev], k[s.rev])
  PROVE  AgreesWith(s, k, e, p, dd, hh)
  BY DEF AgreesWith, Moves, Trusts

\* A mirror changes in what its promises do not speak of.
Alike(s, u) ==
    /\ u.active = s.active /\ u.rev = s.rev /\ u.epoch = s.epoch /\ u.floor = s.floor /\ u.first = s.first
    /\ u.tail = s.tail /\ u.history = s.history
    /\ s.checked # "never" => u.checked # "never"

LEMMA AgreesState ==
  ASSUME NEW s, NEW u, NEW j, NEW e, NEW p, NEW dd, NEW hh,
         AgreesWith(s, j, e, p, dd, hh), Alike(s, u)
  PROVE  AgreesWith(u, j, e, p, dd, hh)
  BY DEF AgreesWith, Alike, Trusts

\* What the worker knows stays so: a running job keeps its kind, and trust is not gained.
LEMMA KnowsMore ==
  ASSUME HistoryConstants, NEW w, NEW j, NEW s, NEW e, NEW dd, NEW hh, NEW k, NEW u, NEW dd2, NEW hh2,
         w.at \in {"ending", "read"} => w.h \in History!Hours,
         Knows(w, j, s, e, dd, hh),
         Runs(j, k),
         Trusts(u, e) => Trusts(s, e) /\ Added(dd, hh, dd2, hh2, e),
         s.epoch = e => u.epoch = e,
         w.at \in {"ending", "read"} => \A h \in History!Hours : hh[h].epoch = e => hh2[h].epoch = e
  PROVE  Knows(w, k, u, e, dd2, hh2)
  <1>1. w.at = "read" => History!Day(w.h) \in History!Days
    BY HoursAndDays
  <1>2. w.at = "imported" /\ Trusts(u, e) =>
           \A d \in History!Days : w.h <= d /\ d < w.through => dd2[d] = "complete"
    BY DEF Knows, Added
  <1>3. w.at \in {"ending", "read"} => hh2[w.h].epoch = e
    BY DEF Knows
  <1>4. w.at = "read" /\ Trusts(u, e) /\ History!EndsDay(w.h) => dd2[History!Day(w.h)] = "complete"
    BY <1>1 DEF Knows, Added
  <1> QED BY <1>2, <1>3, <1>4 DEF Knows, Runs

\* The constants as the steps need them.
LEMMA HistoryNumbers ==
  ASSUME HistoryConstants
  PROVE  /\ HoursPerDay \in Nat \ {0} /\ FirstHour \in Nat \ {0} /\ LastHour \in Nat \ {0}
         /\ MaxRev \in Nat \ {0} /\ MaxEpoch \in Nat \ {0} /\ MaxTries \in Nat \ {0}
         /\ MaxChunk \in Nat /\ MaxFaults \in Nat /\ FirstHour <= LastHour
         /\ Registered \in [Member -> 0 .. LastHour] /\ History!Revisions = 1 .. MaxRev
         /\ History!Goroutine = {"worker", "loop"}
  BY DEF HistoryConstants, History!Revisions, History!Goroutine

\* What a member's part of the invariant is about.
LEMMA TheMember ==
  ASSUME HistoryConstants, HistoryInv, NEW m \in Member
  PROVE  /\ member[m] \in States /\ row[m] \in Signatures /\ control[m] \in [on : BOOLEAN, rev : 1 .. MaxRev]
         /\ job[m] \in [1 .. MaxRev -> History!Job] /\ \A r \in 1 .. MaxRev : JobFits(job[m][r])
         /\ AgreesWith(member[m], job[m], clock.epoch, row[m], day[m], hour[m])
         /\ member[m].rev # 0 => member[m].rev \in 1 .. MaxRev
  <1>1. /\ member[m] \in States /\ row[m] \in Signatures
        /\ control[m] \in [on : BOOLEAN, rev : 1 .. MaxRev]
    BY DEF HistoryInv, GatewayFits, MembersFit, ServedFits
  <1>2. job[m] \in [1 .. MaxRev -> History!Job] /\ \A r \in 1 .. MaxRev : JobFits(job[m][r])
    BY HistoryNumbers DEF HistoryInv, MembersFit
  <1>3. member[m].rev # 0 => member[m].rev \in 1 .. MaxRev
    <2>1. member[m].rev \in 0 .. MaxRev
      BY <1>1 DEF States
    <2> QED BY <2>1, HistoryNumbers
  <1> QED BY <1>1, <1>2, <1>3 DEF HistoryInv, MembersAgree

\* The worker at work, and its job.
LEMMA TheWorker ==
  ASSUME HistoryConstants, HistoryInv, worker # History!Idle
  PROVE  /\ worker \in Claims /\ worker.m \in Member /\ worker.rev \in 1 .. MaxRev
         /\ History!TheJob = job[worker.m][worker.rev]
         /\ History!TheJob \in History!Job /\ JobFits(History!TheJob)
         /\ member[worker.m] \in States
         /\ Knows(worker, History!TheJob, member[worker.m], clock.epoch, day[worker.m], hour[worker.m])
  <1>1. worker \in Claims
    BY DEF HistoryInv, WorkerFits
  <1>2. worker.m \in Member /\ worker.rev \in 1 .. MaxRev
    BY <1>1 DEF Claims
  <1> QED BY <1>1, <1>2, TheMember DEF HistoryInv, WorkerKnows, History!TheJob

\* An idle place is no other.
LEMMA NotIdle ==
  /\ \A c \in Claims : c # History!Idle
  /\ \A c \in [at : {"reading", "ending"}, m : Member, h : History!Hours] : c # History!Idle
  <1>1. History!Idle.at = "idle"
    BY DEF History!Idle
  <1> QED BY <1>1 DEF Claims, Steps

LEMMA SameServed ==
  ASSUME HistoryConstants, HistoryInv, row' = row, range' = range, clock'.end \in Nat,
         clock.end <= clock'.end
  PROVE  ServedFits'
  <1>1. range.through \in Nat /\ clock.end \in Nat
    BY HistoryNumbers DEF HistoryInv, ServedFits, GatewayFits
  <1> QED BY <1>1 DEF HistoryInv, ServedFits, History!NoRow, History!Day

LEMMA SameProofs == ASSUME HistoryInv, day' = day, hour' = hour PROVE ProofsFit'
  BY DEF HistoryInv, ProofsFit, History!Days, History!Hours, History!Day

LEMMA SameMembers == ASSUME HistoryInv, member' = member, job' = job PROVE MembersFit'
  BY DEF HistoryInv, MembersFit, JobFits, History!Revisions, History!Job

LEMMA SameWorkers == ASSUME HistoryInv, worker' = worker, loop' = loop PROVE WorkerFits'
  BY DEF HistoryInv, WorkerFits, KindOf, Claims, History!Idle, History!Hours

\* Most steps add proofs, drop rows, and move jobs and mirrors as they may.
LEMMA MembersGoOn ==
  ASSUME HistoryConstants, HistoryInv, clock'.epoch = clock.epoch,
         \A m \in Member :
           /\ row'[m] \in {row[m], History!NoRow}
           /\ Added(day[m], hour[m], day'[m], hour'[m], clock.epoch)
           /\ Alike(member[m], member'[m])
           /\ member[m].rev # 0 => Moves(job[m][member[m].rev], job'[m][member[m].rev])
  PROVE  MembersAgree'
  <1>1. ASSUME NEW m \in Member
        PROVE  AgreesWith(member'[m], job'[m], clock.epoch, row'[m], day'[m], hour'[m])
    <2>1. AgreesWith(member[m], job[m], clock.epoch, row[m], day[m], hour[m])
      BY TheMember
    <2>2. AgreesWith(member[m], job[m], clock.epoch, row'[m], day'[m], hour'[m])
      BY <2>1, AgreesMore
    <2>3. AgreesWith(member[m], job'[m], clock.epoch, row'[m], day'[m], hour'[m])
      BY <2>2, AgreesJob
    <2> QED BY <2>3, AgreesState
  <1> QED BY <1>1 DEF MembersAgree

LEMMA WorkerGoesOn ==
  ASSUME HistoryConstants, HistoryInv, clock'.epoch = clock.epoch, worker' = worker,
         \A m \in Member :
           /\ Added(day[m], hour[m], day'[m], hour'[m], clock.epoch)
           /\ Trusts(member'[m], clock.epoch) => Trusts(member[m], clock.epoch)
           /\ member[m].epoch = clock.epoch => member'[m].epoch = clock.epoch
           /\ \A r \in 1 .. MaxRev : Runs(job[m][r], job'[m][r])
  PROVE  WorkerKnows'
  <1>1. SUFFICES ASSUME worker # History!Idle
                 PROVE  Knows(worker, job'[worker.m][worker.rev], member'[worker.m], clock.epoch,
                              day'[worker.m], hour'[worker.m])
    BY DEF WorkerKnows
  <1>2. /\ worker.m \in Member /\ worker.rev \in 1 .. MaxRev
        /\ Knows(worker, job[worker.m][worker.rev], member[worker.m], clock.epoch, day[worker.m],
                 hour[worker.m])
    BY <1>1, TheWorker
  <1>3. worker.at \in {"ending", "read"} => worker.h \in History!Hours
    BY <1>1 DEF HistoryInv, WorkerFits
  <1>4. Added(day[worker.m], hour[worker.m], day'[worker.m], hour'[worker.m], clock.epoch)
    BY <1>2
  <1> QED BY <1>2, <1>3, <1>4, KnowsMore DEF Added, Runs

LEMMA SameTrust ==
  ASSUME HistoryConstants, HistoryInv, clock'.epoch = clock.epoch, member' = member, job' = job,
         day' = day, hour' = hour, row' = row, worker' = worker
  PROVE  MembersAgree' /\ WorkerKnows'
  <1>1. \A m \in Member :
           /\ row'[m] \in {row[m], History!NoRow}
           /\ Added(day[m], hour[m], day'[m], hour'[m], clock.epoch)
           /\ Alike(member[m], member'[m])
           /\ member[m].rev # 0 => Moves(job[m][member[m].rev], job'[m][member[m].rev])
    BY DEF Added, Alike, Moves
  <1>2. MembersAgree'
    BY <1>1, MembersGoOn
  <1>3. WorkerKnows'
    BY <1>1, WorkerGoesOn DEF Runs
  <1> QED BY <1>2, <1>3

-----------------------------------------------------------------------------
(* The world around the two goroutines.                                     *)

LEMMA ControlStep ==
  ASSUME HistoryConstants, HistoryInv, NEW m \in Member, History!AddMember(m) \/ History!RemoveMember(m)
  PROVE  HistoryInv'
  <1>1. /\ UNCHANGED <<source, clock, member, job, day, hour, row, range, worker, loop, seen,
                       faults>>
    BY DEF History!AddMember, History!RemoveMember
  <1>2. control' \in [Member -> [on : BOOLEAN, rev : 1 .. MaxRev]]
    <2>1. control \in [Member -> [on : BOOLEAN, rev : 1 .. MaxRev]]
      BY DEF HistoryInv, GatewayFits
    <2>2. control[m].rev \in 1 .. MaxRev
      BY <2>1
    <2>3. CASE History!AddMember(m)
      <3>1. control[m].rev + 1 \in 1 .. MaxRev
        BY <2>2, <2>3, HistoryNumbers DEF History!AddMember
      <3>2. control' = [control EXCEPT ![m] = [on |-> TRUE, rev |-> control[m].rev + 1]]
        BY <2>3 DEF History!AddMember
      <3> QED BY <2>1, <3>1, <3>2
    <2>4. CASE History!RemoveMember(m)
      <3>1. control' = [control EXCEPT ![m] = [control[m] EXCEPT !.on = FALSE]]
        BY <2>4 DEF History!RemoveMember
      <3> QED BY <2>1, <3>1
    <2> QED BY <2>3, <2>4
  <1>3. GatewayFits'
    BY <1>1, <1>2 DEF HistoryInv, GatewayFits, Reads, History!Hours
  <1>4. clock.end \in Nat
    BY HistoryNumbers DEF HistoryInv, GatewayFits
  <1> QED
    BY <1>1, <1>3, <1>4, SameServed, SameProofs, SameMembers, SameWorkers, SameTrust DEF HistoryInv

LEMMA SourceStep ==
  ASSUME HistoryConstants, HistoryInv, NEW m \in Member, History!Log(m) \/ History!Archive(m)
  PROVE  HistoryInv'
  <1>1. /\ UNCHANGED <<control, clock, member, job, day, hour, row, range, worker, loop>>
        /\ seen' = seen /\ faults' \in {faults, faults + 1}
        /\ faults' # faults => faults < MaxFaults
    BY DEF History!Log, History!Archive
  <1>2. source' \in [Member -> SUBSET History!Hours]
    <2>1. source \in [Member -> SUBSET History!Hours]
      BY DEF HistoryInv, GatewayFits
    <2>2. CASE History!Log(m)
      <3>1. PICK h \in History!Hours : source' = [source EXCEPT ![m] = source[m] \cup {h}]
        BY <2>2 DEF History!Log
      <3> QED BY <2>1, <3>1
    <2>3. CASE History!Archive(m)
      <3>1. source' = [source EXCEPT ![m] = source[m] \ {History!Min(source[m])}]
        BY <2>3 DEF History!Archive
      <3> QED BY <2>1, <3>1
    <2> QED BY <2>2, <2>3
  <1>3. faults' \in 0 .. MaxFaults
    BY <1>1, HistoryNumbers DEF HistoryInv, GatewayFits
  <1>4. GatewayFits'
    BY <1>1, <1>2, <1>3 DEF HistoryInv, GatewayFits, Reads, History!Hours
  <1>5. clock.end \in Nat
    BY HistoryNumbers DEF HistoryInv, GatewayFits
  <1> QED
    BY <1>1, <1>4, <1>5, SameServed, SameProofs, SameMembers, SameWorkers, SameTrust DEF HistoryInv

LEMMA ClosingStep ==
  ASSUME HistoryConstants, HistoryInv, History!CloseHour
  PROVE  HistoryInv'
  <1>1. /\ UNCHANGED <<control, source, member, job, day, hour, row, range, worker, loop, seen,
                       faults>>
    BY DEF History!CloseHour
  <1>2. /\ clock \in [end : FirstHour .. LastHour, epoch : 1 .. MaxEpoch]
        /\ clock.end < LastHour /\ clock' = [clock EXCEPT !.end = clock.end + 1]
    BY DEF HistoryInv, GatewayFits, History!CloseHour, History!End
  <1>3. /\ clock' \in [end : FirstHour .. LastHour, epoch : 1 .. MaxEpoch]
        /\ clock'.epoch = clock.epoch /\ clock.end <= clock'.end /\ clock'.end \in Nat
    BY <1>2, HistoryNumbers
  <1>4. GatewayFits'
    BY <1>1, <1>3 DEF HistoryInv, GatewayFits, Reads, History!Hours
  <1> QED
    BY <1>1, <1>3, <1>4, SameServed, SameProofs, SameMembers, SameWorkers, SameTrust DEF HistoryInv

LEMMA BoundaryStep ==
  ASSUME HistoryConstants, HistoryInv, NEW m \in Member, History!BoundaryAges(m)
  PROVE  HistoryInv'
  <1>1. /\ UNCHANGED <<control, source, clock, job, day, hour, row, range, worker, loop, seen>>
        /\ faults' = faults + 1 /\ faults < MaxFaults
        /\ member' = [member EXCEPT ![m] = [member[m] EXCEPT !.checked = "stale"]]
    BY DEF History!BoundaryAges
  <1>2. GatewayFits'
    <2>1. faults' \in 0 .. MaxFaults
      BY <1>1, HistoryNumbers DEF HistoryInv, GatewayFits
    <2> QED BY <1>1, <2>1 DEF HistoryInv, GatewayFits, Reads, History!Hours
  <1>3. member \in [Member -> States]
    BY DEF HistoryInv, MembersFit
  <1>4. member[m] \in States
    BY <1>3
  <1>5. [member[m] EXCEPT !.checked = "stale"] \in States /\ Alike(member[m], [member[m] EXCEPT !.checked = "stale"])
    BY <1>4 DEF States, Alike
  <1>6. MembersFit'
    <2>1. member' \in [Member -> States]
      BY <1>1, <1>3, <1>5
    <2> QED BY <1>1, <2>1 DEF HistoryInv, MembersFit, JobFits, History!Revisions, History!Job
  <1>7. \A n \in Member : Alike(member[n], member'[n])
    BY <1>1, <1>3, <1>5 DEF Alike
  <1>8. \A n \in Member :
           /\ row'[n] \in {row[n], History!NoRow}
           /\ Added(day[n], hour[n], day'[n], hour'[n], clock.epoch)
           /\ Alike(member[n], member'[n])
           /\ Trusts(member'[n], clock.epoch) => Trusts(member[n], clock.epoch)
           /\ member[n].epoch = clock.epoch => member'[n].epoch = clock.epoch
           /\ member[n].rev # 0 => Moves(job[n][member[n].rev], job'[n][member[n].rev])
           /\ \A r \in 1 .. MaxRev : Runs(job[n][r], job'[n][r])
    BY <1>1, <1>7 DEF Added, Alike, Moves, Trusts, Runs
  <1>9. MembersAgree' /\ WorkerKnows'
    BY <1>1, <1>8, MembersGoOn, WorkerGoesOn DEF Runs
  <1>10. clock.end \in Nat
    BY HistoryNumbers DEF HistoryInv, GatewayFits
  <1> QED BY <1>1, <1>2, <1>6, <1>9, <1>10, SameServed, SameProofs, SameWorkers DEF HistoryInv

\* A newly signed source is trusted by no mirror.
LEMMA ProcessRestart ==
  ASSUME HistoryConstants, HistoryInv, History!Restart
  PROVE  HistoryInv'
  <1>1. /\ UNCHANGED <<control, source, member, job, day, hour, row, range>>
        /\ worker' = History!Idle /\ loop' = History!Idle
        /\ seen' = [g \in History!Goroutine |-> History!Unread]
        /\ faults' = faults + 1 /\ faults < MaxFaults
    BY DEF History!Restart
  <1>2. PICK e \in {clock.epoch, clock.epoch + 1} : e <= MaxEpoch /\ clock' = [clock EXCEPT !.epoch = e]
    BY DEF History!Restart, History!Epoch
  <1>3. clock \in [end : FirstHour .. LastHour, epoch : 1 .. MaxEpoch]
    BY DEF HistoryInv, GatewayFits
  <1>4. /\ clock' \in [end : FirstHour .. LastHour, epoch : 1 .. MaxEpoch]
        /\ clock'.epoch = e /\ clock.end = clock'.end /\ clock'.end \in Nat
        /\ e \in Nat /\ clock.epoch \in Nat /\ clock.epoch <= e
    BY <1>2, <1>3, HistoryNumbers
  <1>5. seen' \in [{"worker", "loop"} -> [Member -> Reads]]
    <2>1. [on |-> FALSE, rev |-> -1] \in Reads
      BY HistoryNumbers DEF Reads
    <2>2. History!Unread \in [Member -> Reads]
      BY <2>1 DEF History!Unread
    <2> QED BY <1>1, <2>2, HistoryNumbers
  <1>6. GatewayFits'
    <2>1. faults' \in 0 .. MaxFaults
      BY <1>1, HistoryNumbers DEF HistoryInv, GatewayFits
    <2> QED BY <1>1, <1>4, <1>5, <2>1 DEF HistoryInv, GatewayFits, Reads, History!Hours
  <1>7. ASSUME NEW m \in Member
        PROVE  AgreesWith(member[m], job[m], e, row[m], day[m], hour[m])
    <2>1. AgreesWith(member[m], job[m], clock.epoch, row[m], day[m], hour[m]) /\ member[m].epoch \in Nat
      BY TheMember DEF States
    <2>2. CASE e = clock.epoch
      BY <2>1, <2>2
    <2>3. CASE e # clock.epoch
      <3>1. clock.epoch < e /\ member[m].epoch <= clock.epoch
        BY <1>4, <2>1, <2>3 DEF AgreesWith
      <3>2. member[m].epoch <= e /\ member[m].epoch # e
        BY <1>4, <2>1, <3>1
      <3> QED BY <2>1, <3>2 DEF AgreesWith, Trusts
    <2> QED BY <2>2, <2>3
  <1>8. MembersAgree'
    BY <1>1, <1>4, <1>7 DEF MembersAgree
  <1>9. WorkerFits' /\ WorkerKnows'
    BY <1>1 DEF WorkerFits, WorkerKnows, History!Idle
  <1> QED BY <1>1, <1>4, <1>6, <1>8, <1>9, SameServed, SameProofs, SameMembers DEF HistoryInv

-----------------------------------------------------------------------------
(* The published rows.                                                      *)

\* The least of a nonempty set of naturals is one of it.
LEMMA LeastIsIn ==
  ASSUME NEW S \in SUBSET Nat, S # {}
  PROVE  History!Min(S) \in S /\ \A y \in S : History!Min(S) <= y
  BY Least DEF History!Min

\* A range of rows with a left edge before its right one.
LEMMA BoundsFit ==
  ASSUME HistoryConstants, NEW rows \in [Member -> Signatures], NEW through \in 0 .. LastHour,
         History!Bounded(rows, through),
         \A m \in Member : rows[m] # History!NoRow => rows[m].floor > 0
  PROVE  /\ History!Bounds(rows, through) \in [from : Nat, through : 0 .. LastHour]
         /\ \A m \in Member : rows[m] # History!NoRow =>
              /\ 0 < History!Bounds(rows, through).from
              /\ History!Bounds(rows, through).from < through
              /\ History!Bounds(rows, through).through = through
  <1>1. CASE History!RowsOf(rows) = {}
    <2>1. History!Bounds(rows, through) = [from |-> 0, through |-> 0]
      BY <1>1 DEF History!Bounds
    <2>2. \A m \in Member : rows[m] = History!NoRow
      BY <1>1 DEF History!RowsOf
    <2> QED BY <2>1, <2>2, HistoryNumbers
  <1>2. CASE History!RowsOf(rows) # {}
    <2> DEFINE S == {rows[m].floor : m \in History!RowsOf(rows)}
    <2>1. S \in SUBSET Nat /\ S # {} /\ \A y \in S : 0 < y
      BY <1>2 DEF Signatures, History!RowsOf
    <2>2. History!Min(S) \in Nat /\ 0 < History!Min(S)
      <3> HIDE DEF S
      <3> QED BY <2>1, LeastIsIn
    <2>3. History!Min(S) < through
      BY <1>2 DEF History!Bounded
    <2>4. History!Bounds(rows, through) = [from |-> History!Min(S), through |-> through]
      BY <1>2 DEF History!Bounds
    <2> HIDE DEF S
    <2> QED BY <2>2, <2>3, <2>4
  <1> QED BY <1>1, <1>2

\* Rows are taken back, and the range of the others ends where it did.
LEMMA RevokingFits ==
  ASSUME HistoryConstants, HistoryInv, clock' = clock, NEW gone, History!Revoking(gone)
  PROVE  /\ ServedFits'
         /\ \A m \in Member : row'[m] \in {row[m], History!NoRow} /\ (m \in gone => row'[m] = History!NoRow)
  <1>1. /\ row \in [Member -> Signatures] /\ range.through \in 0 .. LastHour
        /\ clock.end \in Nat
    BY HistoryNumbers DEF HistoryInv, ServedFits, GatewayFits
  <1>2. CASE \A m \in gone : row[m] = History!NoRow
    <2>1. row' = row /\ range' = range
      BY <1>2 DEF History!Revoking
    <2> QED BY <1>1, <1>2, <2>1, SameServed
  <1>3. CASE ~ \A m \in gone : row[m] = History!NoRow
    <2> DEFINE rows == History!Revoke(gone, row)
    <2>1. rows = [m \in Member |-> IF m \in gone THEN History!NoRow ELSE row[m]]
      BY DEF History!Revoke
    <2>2. /\ History!Bounded(rows, range.through) /\ row' = rows
          /\ range' = History!Bounds(rows, range.through)
      BY <1>3 DEF History!Revoking
    <2>3. rows \in [Member -> Signatures]
      <3>1. History!NoRow \in Signatures
        BY HistoryNumbers DEF History!NoRow, Signatures
      <3> QED BY <1>1, <2>1, <3>1
    <2> HIDE DEF rows
    <2>4. /\ range' \in [from : Nat, through : 0 .. LastHour]
          /\ \A m \in Member : rows[m] # History!NoRow =>
               0 < range'.from /\ range'.from < range.through /\ range'.through = range.through
      <3>1. \A m \in Member : rows[m] # History!NoRow => rows[m].floor > 0
        BY <2>1 DEF HistoryInv, ServedFits
      <3> QED BY <1>1, <2>2, <2>3, <3>1, BoundsFit
    <2>5. ASSUME NEW m \in Member, rows[m] # History!NoRow
          PROVE  /\ rows[m].floor > 0 /\ 0 < range'.from /\ range'.from < range'.through
                 /\ range'.through <= clock'.end
                 /\ rows[m].verified >= History!Day(range'.through)
      <3>1. rows[m] = row[m] /\ row[m] # History!NoRow
        BY <2>1, <2>5
      <3>2. row[m].floor > 0 /\ range.through <= clock.end /\ row[m].verified >= History!Day(range.through)
        BY <3>1 DEF HistoryInv, ServedFits
      <3> QED BY <2>4, <2>5, <3>1, <3>2
    <2>6. ServedFits'
      BY <2>2, <2>3, <2>4, <2>5 DEF ServedFits, History!NoRow, History!Day
    <2> QED BY <2>1, <2>2, <2>6
  <1> QED BY <1>2, <1>3

LEMMA DropStep ==
  ASSUME HistoryConstants, HistoryInv, History!DropStaleRows
  PROVE  HistoryInv'
  <1>1. /\ UNCHANGED <<control, source, clock, member, job, day, hour, worker, loop, seen, faults>>
    BY DEF History!DropStaleRows
  <1>2. /\ ServedFits'
        /\ \A m \in Member : row'[m] \in {row[m], History!NoRow}
    <2> DEFINE gone == {m \in Member : ~ History!Current(m, row[m])}
    <2>1. History!Revoking(gone)
      BY DEF History!DropStaleRows
    <2> HIDE DEF gone
    <2> QED BY <1>1, <2>1, RevokingFits
  <1>3. \A n \in Member :
           /\ row'[n] \in {row[n], History!NoRow}
           /\ Added(day[n], hour[n], day'[n], hour'[n], clock.epoch)
           /\ Alike(member[n], member'[n])
           /\ Trusts(member'[n], clock.epoch) => Trusts(member[n], clock.epoch)
           /\ member[n].epoch = clock.epoch => member'[n].epoch = clock.epoch
           /\ member[n].rev # 0 => Moves(job[n][member[n].rev], job'[n][member[n].rev])
           /\ \A r \in 1 .. MaxRev : Runs(job[n][r], job'[n][r])
    BY <1>1, <1>2 DEF Added, Alike, Moves, Runs
  <1>4. MembersAgree' /\ WorkerKnows'
    BY <1>1, <1>3, MembersGoOn, WorkerGoesOn DEF Runs
  <1>5. GatewayFits'
    BY <1>1 DEF HistoryInv, GatewayFits, Reads, History!Hours
  <1> QED BY <1>1, <1>2, <1>4, <1>5, SameProofs, SameMembers, SameWorkers DEF HistoryInv

\* A member that is ready has read what its mirror counts as read.
LEMMA ReadyIsRead ==
  ASSUME HistoryConstants, HistoryInv, NEW m \in Member, History!Ready(m)
  PROVE  /\ AgreesWith(member[m], job[m], clock.epoch, History!Signed(m), day[m], hour[m])
         /\ History!Signed(m) \in Signatures
         /\ member[m].verified >= History!Day(clock.end) /\ member[m].floor > 0
  <1> DEFINE s == member[m]
             j == job[m][s.rev]
  <1>1. /\ s.rev = control[m].rev /\ job[m][control[m].rev].status = "complete" /\ s.epoch = clock.epoch
        /\ s.history # "open" /\ s.verified >= History!Day(clock.end) /\ s.floor > 0
    BY DEF History!Ready, History!Epoch, History!End
  <1>2. /\ s \in States /\ AgreesWith(s, job[m], clock.epoch, row[m], day[m], hour[m])
        /\ s.rev # 0 => s.rev \in 1 .. MaxRev
        /\ job[m] \in [1 .. MaxRev -> History!Job]
    BY TheMember
  <1>3. s.rev # 0 /\ j.status = "complete" /\ j \in History!Job
    BY <1>1, <1>2 DEF AgreesWith
  <1>4. j.next \in Nat /\ s.tail \in Nat
    BY <1>2, <1>3 DEF States, History!Job
  <1>5. Trusts(s, clock.epoch) => ReadUpTo(s.first, day[m], hour[m], clock.epoch, s.tail)
    <2>1. Trusts(s, clock.epoch) =>
            ReadUpTo(s.first, day[m], hour[m], clock.epoch, j.next) /\ s.tail <= j.next
      BY <1>2, <1>3 DEF AgreesWith
    <2> HIDE DEF s, j
    <2> QED BY <1>4, <2>1, ReadLess
  <1>6. AgreesWith(s, job[m], clock.epoch, History!Signed(m), day[m], hour[m])
    <2> HIDE DEF s
    <2> QED BY <1>1, <1>2, <1>5 DEF AgreesWith
  <1>7. History!Signed(m) \in Signatures
    BY <1>2 DEF History!Signed, Signatures, States
  <1> QED BY <1>1, <1>6, <1>7

LEMMA PublishingStep ==
  ASSUME HistoryConstants, HistoryInv, History!Publish
  PROVE  HistoryInv'
  <1>1. /\ UNCHANGED <<control, source, clock, member, job, day, hour, worker, loop, seen, faults>>
    BY DEF History!Publish
  <1> DEFINE usable == range.from > 0 /\ range.through > range.from /\ History!RowsOf(row) # {}
             old == IF usable THEN range.through ELSE 0
             from == IF old = 0 THEN History!Day(clock.end) ELSE old
             ahead == from >= clock.end \/ History!Advances(History!Candidate, from)
             through == IF ahead THEN clock.end ELSE old
             new == History!Candidate
  <1>2. /\ row' = new
        /\ \/ History!RowsOf(new) = {} /\ range' = History!Bounds(new, 0)
           \/ /\ through > 0 /\ History!Bounded(new, through)
              /\ range' = History!Bounds(new, through)
    BY Zenon DEF History!Publish, History!End
  <1>3. /\ row \in [Member -> Signatures] /\ range \in [from : Nat, through : 0 .. LastHour]
        /\ clock.end \in 1 .. LastHour /\ LastHour \in Nat
    BY HistoryNumbers DEF HistoryInv, ServedFits, GatewayFits
  <1>4. History!Day(clock.end) \in 0 .. clock.end
    BY <1>3, DayOf
  <1>5. \A m \in Member : new[m] = IF History!Ready(m) THEN History!Signed(m)
                           ELSE IF row[m] # History!NoRow /\ History!Current(m, row[m]) THEN row[m]
                           ELSE History!NoRow
    BY DEF History!Candidate
  <1>6. new \in [Member -> Signatures]
    <2>1. \A m \in Member : new[m] \in Signatures
      <3>1. History!NoRow \in Signatures
        BY HistoryNumbers DEF History!NoRow, Signatures
      <3> QED BY <1>3, <1>5, <3>1, ReadyIsRead
    <2>2. new = [m \in Member |-> new[m]]
      BY DEF History!Candidate
    <2> HIDE DEF new
    <2> QED BY <2>1, <2>2
  <1>7. ASSUME NEW m \in Member
        PROVE  AgreesWith(member[m], job[m], clock.epoch, new[m], day[m], hour[m])
    <2>1. AgreesWith(member[m], job[m], clock.epoch, row[m], day[m], hour[m])
      BY TheMember
    <2>2. \A q \in {row[m], History!NoRow} :
            AgreesWith(member[m], job[m], clock.epoch, q, day[m], hour[m])
      BY <2>1, AgreesMore DEF Added
    <2> HIDE DEF new
    <2> QED BY <1>5, <2>2, ReadyIsRead
  <1>8. ASSUME NEW m \in Member, new[m] # History!NoRow
        PROVE  /\ new[m].floor > 0
               /\ \/ new[m].verified >= History!Day(clock.end)
                  \/ usable /\ range.through <= clock.end /\ new[m].verified >= History!Day(range.through)
    <2>1. CASE History!Ready(m)
      <3>1. /\ new[m] = History!Signed(m) /\ member[m].verified >= History!Day(clock.end)
            /\ member[m].floor > 0
        BY <1>5, <2>1, ReadyIsRead
      <3> HIDE DEF new
      <3> QED BY <3>1 DEF History!Signed
    <2>2. CASE ~ History!Ready(m)
      <3>1. new[m] = row[m] /\ row[m] # History!NoRow
        BY <1>5, <1>8, <2>2
      <3>2. /\ row[m].floor > 0 /\ range.through <= clock.end
            /\ row[m].verified >= History!Day(range.through)
            /\ 0 < range.from /\ range.from < range.through
        BY <3>1 DEF HistoryInv, ServedFits
      <3>3. History!RowsOf(row) # {}
        BY <3>1 DEF History!RowsOf
      <3> QED BY <1>3, <3>1, <3>2, <3>3
    <2> QED BY <2>1, <2>2
  <1>9. ASSUME History!RowsOf(new) = {} PROVE ServedFits'
    <2>1. \A m \in Member : new[m] = History!NoRow
      BY <1>9 DEF History!RowsOf
    <2>2. range' \in [from : Nat, through : 0 .. LastHour]
      BY <1>2, <1>3, <1>9 DEF History!Bounds
    <2> HIDE DEF new
    <2>3. ServedFits'
      BY <1>2, <1>6, <2>1, <2>2 DEF ServedFits, History!NoRow
    <2> QED BY <2>3
  <1>10. ASSUME History!RowsOf(new) # {} PROVE ServedFits'
    <2>1. through > 0 /\ History!Bounded(new, through) /\ range' = History!Bounds(new, through)
      BY <1>2, <1>10
    <2>2. through \in 0 .. LastHour
      BY <1>3
    <2>3. /\ range' \in [from : Nat, through : 0 .. LastHour]
          /\ \A m \in Member : new[m] # History!NoRow =>
               0 < range'.from /\ range'.from < through /\ range'.through = through
      <3> HIDE DEF new, through
      <3> QED BY <1>6, <1>8, <2>1, <2>2, BoundsFit
    <2>4. ASSUME NEW m \in Member, new[m] # History!NoRow
          PROVE  through <= clock.end /\ new[m].verified >= History!Day(through)
      <3>1. usable => range.through <= clock.end
        <4>1. usable => \E n \in Member : row[n] # History!NoRow
          BY DEF History!RowsOf
        <4> QED BY <4>1 DEF HistoryInv, ServedFits
      <3>2. through <= clock.end
        BY <1>3, <3>1
      <3>3. CASE ahead
        <4>1. through = clock.end
          BY <3>3
        <4>2. new[m].verified >= History!Day(clock.end)
          <5>1. CASE History!Advances(new, from)
            <6>1. m \in History!RowsOf(new)
              BY <2>4 DEF History!RowsOf
            <6> HIDE DEF new
            <6> QED BY <5>1, <6>1 DEF History!Advances, History!End
          <5>2. CASE from >= clock.end
            <6>1. CASE usable
              <7>1. old = range.through /\ from = range.through
                BY <1>3, <6>1
              <7>2. range.through = clock.end
                BY <1>3, <3>1, <5>2, <6>1, <7>1
              <7> QED BY <1>8, <2>4, <7>2
            <6>2. CASE ~ usable
              BY <1>8, <2>4, <6>2
            <6> QED BY <6>1, <6>2
          <5> QED BY <3>3, <5>1, <5>2
        <4> QED BY <3>2, <4>1, <4>2
      <3>4. CASE ~ ahead
        <4>1. through = range.through /\ usable
          BY <2>1, <3>4
        <4>2. History!Day(range.through) <= History!Day(clock.end)
          BY <1>3, <3>1, <4>1, DaysGrow
        <4>3. /\ History!Day(range.through) \in Nat /\ History!Day(clock.end) \in Nat
          BY <1>3, DayOf
        <4>4. new[m].verified \in Nat
          BY <1>6 DEF Signatures
        <4> HIDE DEF new, through
        <4> QED BY <1>8, <2>4, <3>2, <4>1, <4>2, <4>3, <4>4
      <3> QED BY <3>3, <3>4
    <2> HIDE DEF new, through
    <2>5. ASSUME NEW m \in Member, new[m] # History!NoRow
          PROVE  /\ new[m].floor > 0 /\ 0 < range'.from /\ range'.from < range'.through
                 /\ range'.through <= clock'.end /\ new[m].verified >= History!Day(range'.through)
      BY <1>1, <1>8, <2>3, <2>4, <2>5
    <2>6. ServedFits'
      BY <1>2, <1>6, <2>3, <2>5 DEF ServedFits, History!NoRow, History!Day
    <2> QED BY <2>6
  <1>11. ServedFits'
    BY <1>9, <1>10
  <1>12. MembersAgree'
    BY <1>1, <1>2, <1>7 DEF MembersAgree
  <1>13. WorkerKnows'
    BY <1>1, WorkerGoesOn DEF Added, Runs
  <1>14. GatewayFits'
    BY <1>1 DEF HistoryInv, GatewayFits, Reads, History!Hours
  <1> QED BY <1>1, <1>11, <1>12, <1>13, <1>14, SameProofs, SameMembers, SameWorkers DEF HistoryInv

-----------------------------------------------------------------------------
(* The members are mirrored.                                                *)

LEMMA ReconcileReadStep ==
  ASSUME HistoryConstants, HistoryInv, NEW g \in History!Goroutine, History!ReconcileRead(g)
  PROVE  HistoryInv'
  <1>1. /\ UNCHANGED <<control, source, clock, member, job, day, hour, row, range, worker, loop>>
        /\ faults' = faults /\ seen' = [seen EXCEPT ![g] = control]
    BY DEF History!ReconcileRead
  <1>2. control \in [Member -> Reads]
    <2>1. \A m \in Member : control[m] \in [on : BOOLEAN, rev : 1 .. MaxRev]
      BY DEF HistoryInv, GatewayFits
    <2>2. \A m \in Member : control[m] \in Reads
      BY <2>1, HistoryNumbers DEF Reads
    <2> QED BY <2>2 DEF HistoryInv, GatewayFits
  <1>3. seen' \in [{"worker", "loop"} -> [Member -> Reads]]
    BY <1>1, <1>2, HistoryNumbers DEF HistoryInv, GatewayFits
  <1>4. GatewayFits'
    BY <1>1, <1>3 DEF HistoryInv, GatewayFits, Reads, History!Hours
  <1>5. clock.end \in Nat
    BY HistoryNumbers DEF HistoryInv, GatewayFits
  <1> QED
    BY <1>1, <1>4, <1>5, SameServed, SameProofs, SameMembers, SameWorkers, SameTrust DEF HistoryInv

\* A job that is canceled has stopped where it was.
LEMMA CancelledFits ==
  ASSUME NEW j \in History!Job, JobFits(j)
  PROVE  /\ History!Cancelled(j) \in History!Job /\ JobFits(History!Cancelled(j))
         /\ History!Terminal(History!Cancelled(j)) /\ Moves(j, History!Cancelled(j))
         /\ History!Cancelled(j).status # "running"
         /\ j.status = "none" => History!Cancelled(j) = j
  BY DEF History!Cancelled, History!Terminal, History!Job, JobFits, Moves

\* A job that begins.
LEMMA CreatedFits ==
  ASSUME HistoryConstants, HistoryInv, NEW t \in 0 .. LastHour, NEW c,
         c \in {History!Created, [History!Created EXCEPT !.through = t]}
  PROVE  /\ c \in History!Job /\ JobFits(c) /\ c.kind = "discover" /\ c.status = "queued" /\ c.next = 0
         /\ c.attempts = 0
  <1>1. clock.epoch \in 0 .. MaxEpoch /\ clock.end \in 0 .. LastHour
    BY HistoryNumbers DEF HistoryInv, GatewayFits
  <1>2. 0 \in 0 .. LastHour /\ 0 \in 0 .. MaxTries /\ 0 < MaxTries
    BY HistoryNumbers
  <1>3. History!NoJob \in History!Job
    BY <1>2, HistoryNumbers DEF History!NoJob, History!Job
  <1> DEFINE q == History!Rediscover(History!NoJob)
             d == [q EXCEPT !.epoch = clock.epoch, !.through = clock.end]
  <1>4. /\ q \in History!Job /\ q.kind = "discover" /\ q.status = "queued" /\ q.next = 0 /\ q.attempts = 0
    <2>1. q = [History!NoJob EXCEPT !.kind = "discover", !.status = "queued"]
      BY DEF History!Rediscover
    <2>2. q.next = 0 /\ q.attempts = 0
      BY <2>1 DEF History!NoJob
    <2> QED BY <1>3, <2>1, <2>2 DEF History!Job
  <1>5. History!Created = d
    BY DEF History!Created, History!Epoch, History!End
  <1> HIDE DEF q
  <1>6. /\ d \in History!Job /\ d.kind = "discover" /\ d.status = "queued" /\ d.next = 0 /\ d.attempts = 0
    BY <1>1, <1>4 DEF History!Job
  <1> HIDE DEF d
  <1>7. /\ c \in History!Job /\ c.kind = "discover" /\ c.status = "queued" /\ c.next = 0 /\ c.attempts = 0
    BY <1>5, <1>6 DEF History!Job
  <1> QED BY <1>2, <1>7 DEF JobFits

\* A job that looks for the boundary again.
LEMMA RediscoverFits ==
  ASSUME NEW j \in History!Job, j.attempts < MaxTries, NEW x, x = History!Rediscover(j)
  PROVE  /\ x \in History!Job /\ JobFits(x) /\ x.kind = "discover" /\ x.status = "queued"
         /\ x.next = j.next
  BY DEF History!Rediscover, History!Job, JobFits

\* A job that grows with the clock.
LEMMA ExtendedFits ==
  ASSUME HistoryConstants, HistoryInv, NEW j \in History!Job, JobFits(j), NEW s \in States,
         NEW x, x = History!Extended(j, s)
  PROVE  /\ x \in History!Job /\ JobFits(x)
         /\ j.status # "complete" => x.status = j.status /\ x.kind = j.kind /\ x.next = j.next
         /\ x.status = "complete" => x = j
         /\ x.status = "running" => j.status = "running"
         /\ x.kind = "verify" => x.kind = j.kind /\ x.next = j.next
         /\ s.tail <= j.next => x.next = j.next
         /\ x.next = j.next \/ (j.status = "complete" /\ x.next = s.tail)
  <1>1. clock.end \in 0 .. LastHour
    BY HistoryNumbers DEF HistoryInv, GatewayFits
  <1> DEFINE next == History!Larger(j.next, s.tail)
  <1>2. j.next \in 0 .. LastHour /\ s.tail \in 0 .. LastHour /\ LastHour \in Nat
    BY HistoryNumbers DEF History!Job, States
  <1>3. next \in 0 .. LastHour /\ (s.tail <= j.next => next = j.next) /\ next \in {j.next, s.tail}
    BY <1>2 DEF History!Larger
  <1>4. CASE clock.end <= j.through
    BY <1>4 DEF History!Extended, History!End
  <1>5. CASE ~ (clock.end <= j.through) /\ j.status # "complete"
    <2>1. x = [j EXCEPT !.through = clock.end]
      BY <1>5 DEF History!Extended, History!End
    <2>2. [j EXCEPT !.through = clock.end] \in History!Job
      BY <1>1 DEF History!Job
    <2> QED BY <1>5, <2>1, <2>2 DEF JobFits, History!Job
  <1>6. CASE ~ (clock.end <= j.through) /\ j.status = "complete"
    <2> DEFINE whole == History!Day(next) = next /\ next < History!Day(clock.end)
               kind == IF whole THEN "backfill" ELSE "tail"
    <2>1. x = [j EXCEPT !.through = clock.end, !.status = "queued", !.next = next, !.kind = kind]
      BY <1>6 DEF History!Extended, History!End
    <2>2. kind \in {"backfill", "tail"} /\ (kind = "backfill" => next % HoursPerDay = 0)
      <3>1. next \in Nat
        BY <1>3
      <3> HIDE DEF next
      <3> QED BY <3>1, Midnight
    <2> HIDE DEF next, kind
    <2>3. x \in History!Job
      BY <1>1, <1>3, <2>1, <2>2 DEF History!Job
    <2>4. x.status = "queued" /\ x.next = next /\ x.kind = kind /\ x.attempts = j.attempts
      BY <2>1 DEF History!Job
    <2>5. JobFits(x)
      BY <1>6, <2>2, <2>4 DEF JobFits
    <2> QED BY <1>3, <1>6, <2>2, <2>3, <2>4, <2>5
  <1> QED BY <1>4, <1>5, <1>6

\* What the jobs of a mirrored member may become (reconcileUsageFactHistoryJobs).
LEMMA RescheduledFits ==
  ASSUME HistoryConstants, HistoryInv, NEW j \in History!Job, JobFits(j), NEW s \in States,
         NEW reset \in BOOLEAN, NEW x, x = History!Rescheduled(j, s, reset)
  PROVE  /\ x \in History!Job /\ JobFits(x)
         /\ reset => x.kind = "discover" /\ x.status # "complete" /\ x.status # "running"
         /\ j.kind = "discover" /\ j.status # "complete" => x.kind = "discover" /\ x.status # "complete"
         /\ Runs(j, x)
         /\ x.status = "complete" => x = j
         /\ x.kind = "verify" => j.kind = "verify" /\ x.next = j.next
         /\ (j.status = "complete" => s.tail <= j.next) => x.next \in {0, j.next}
  <1> DEFINE c == [History!Created EXCEPT !.through = j.through]
             n == IF reset \/ j.epoch # clock.epoch THEN c ELSE j
             l == IF s.checked # "fresh" /\ n.status = "complete" THEN History!Rediscover(n) ELSE n
  <1>1. x = History!Extended(l, s)
    BY DEF History!Rescheduled, History!Epoch
  <1>2. j.through \in 0 .. LastHour
    BY DEF History!Job
  <1>3. /\ c \in History!Job /\ JobFits(c) /\ c.kind = "discover" /\ c.status = "queued" /\ c.next = 0
    BY <1>2, CreatedFits
  <1> HIDE DEF c
  <1>4. n \in History!Job /\ JobFits(n) /\ (n = c \/ (~reset /\ n = j))
    BY <1>3
  <1> HIDE DEF n
  <1>5. \/ l = n /\ ~ (s.checked # "fresh" /\ n.status = "complete")
        \/ l = History!Rediscover(n) /\ n.status = "complete"
    OBVIOUS
  <1> HIDE DEF l
  <1>6. n.status = "complete" => n.attempts < MaxTries /\ n # c /\ n = j /\ ~reset
    BY <1>3, <1>4 DEF JobFits
  <1>7. CASE l = n
    <2>1. /\ x \in History!Job /\ JobFits(x)
          /\ n.status # "complete" => x.status = n.status /\ x.kind = n.kind /\ x.next = n.next
          /\ x.status = "complete" => x = n
          /\ x.status = "running" => n.status = "running"
          /\ x.kind = "verify" => x.kind = n.kind /\ x.next = n.next
          /\ s.tail <= n.next => x.next = n.next
      BY <1>1, <1>4, <1>7, ExtendedFits
    <2>2. CASE n = c
      BY <1>3, <2>1, <2>2 DEF Runs
    <2>3. CASE ~reset /\ n = j
      BY <2>1, <2>3 DEF Runs
    <2> QED BY <1>4, <2>2, <2>3
  <1>8. CASE l = History!Rediscover(n) /\ n.status = "complete"
    <2>1. /\ l \in History!Job /\ JobFits(l) /\ l.kind = "discover" /\ l.status = "queued"
          /\ l.next = n.next
      BY <1>4, <1>6, <1>8, RediscoverFits
    <2>2. /\ x \in History!Job /\ JobFits(x)
          /\ x.status = l.status /\ x.kind = l.kind /\ x.next = l.next
      BY <1>1, <2>1, ExtendedFits
    <2> QED BY <1>6, <1>8, <2>1, <2>2 DEF Runs
  <1> QED BY <1>5, <1>7, <1>8

\* The jobs of a member after it was mirrored.
LEMMA JobReconciledFits ==
  ASSUME HistoryConstants, HistoryInv, NEW m \in Member, NEW r \in 1 .. MaxRev, NEW read \in Reads,
         NEW s \in States, NEW o, o = job[m][r], NEW k, k = History!Reconciled(m, r, read, s)
  PROVE  /\ k \in History!Job /\ JobFits(k)
         /\ Runs(o, k)
         /\ ~read.on => Moves(o, k) /\ (member[m].active => History!Terminal(k))
         /\ read.on /\ r = read.rev /\ History!MustReset(member[m], read.rev) /\ ~ History!UpToDate(s) =>
              k.kind = "discover" /\ k.status # "complete"
         /\ read.on /\ r = read.rev /\ ~ History!MustReset(member[m], read.rev) =>
              /\ o.kind = "discover" /\ o.status # "complete" => k.kind = "discover" /\ k.status # "complete"
              /\ k.status = "complete" => o.status = "complete" /\ k.next = o.next
              /\ k.kind = "verify" => o.kind = "verify" /\ k.next = o.next
              /\ (o.status = "complete" => s.tail <= o.next) => k.next \in {0, o.next}
  <1> DEFINE reset == read.on /\ History!MustReset(member[m], read.rev)
             j == IF o.epoch # clock.epoch THEN History!Cancelled(o) ELSE o
  <1>1. o \in History!Job /\ JobFits(o)
    BY TheMember
  <1>2. /\ j \in History!Job /\ JobFits(j) /\ Moves(o, j)
        /\ j.status = "running" => o.status = "running"
    BY <1>1, CancelledFits DEF Moves
  <1>3. k = CASE ~read.on -> IF member[m].active THEN History!Cancelled(j) ELSE j
              [] read.on /\ r # read.rev ->
                   IF reset /\ j.status # "none" THEN [j EXCEPT !.status = "cancelled"] ELSE History!Cancelled(j)
              [] OTHER -> IF History!UpToDate(s) THEN j
                          ELSE IF j.status = "none" THEN History!Created ELSE History!Rescheduled(j, s, reset)
    BY DEF History!Reconciled, History!Epoch
  <1> HIDE DEF j
  <1>4. CASE ~read.on
    <2>1. k = IF member[m].active THEN History!Cancelled(j) ELSE j
      BY <1>3, <1>4
    <2>2. /\ k \in History!Job /\ JobFits(k) /\ Moves(j, k) /\ (k.status = "running" => j.status = "running")
          /\ member[m].active => History!Terminal(k)
      BY <1>2, <2>1, CancelledFits DEF Moves
    <2> QED BY <1>2, <1>4, <2>2 DEF Moves, Runs
  <1>5. CASE read.on /\ r # read.rev
    <2>1. k \in {[j EXCEPT !.status = "cancelled"], History!Cancelled(j)}
      BY <1>3, <1>5
    <2>2. k \in History!Job /\ JobFits(k) /\ k.status # "running"
      <3>1. CASE k = [j EXCEPT !.status = "cancelled"]
        BY <1>2, <3>1 DEF History!Job, JobFits
      <3>2. CASE k = History!Cancelled(j)
        BY <1>2, <3>2, CancelledFits
      <3> QED BY <2>1, <3>1, <3>2
    <2> QED BY <1>5, <2>2 DEF Runs
  <1>6. CASE read.on /\ r = read.rev
    <2>1. reset \in BOOLEAN /\ (reset <=> History!MustReset(member[m], read.rev))
      BY <1>6 DEF History!MustReset
    <2>2. k = IF History!UpToDate(s) THEN j
              ELSE IF j.status = "none" THEN History!Created ELSE History!Rescheduled(j, s, reset)
      BY <1>3, <1>6
    <2> HIDE DEF reset
    <2>3. CASE History!UpToDate(s)
      BY <1>2, <1>6, <2>2, <2>3 DEF Moves, Runs
    <2>4. CASE ~ History!UpToDate(s) /\ j.status = "none"
      <3>1. k = History!Created
        BY <2>2, <2>4
      <3>2. 0 \in 0 .. LastHour
        BY HistoryNumbers
      <3>3. k \in History!Job /\ JobFits(k) /\ k.kind = "discover" /\ k.status = "queued" /\ k.next = 0
        BY <3>1, <3>2, CreatedFits
      <3> QED BY <1>6, <3>3 DEF Runs
    <2>5. CASE ~ History!UpToDate(s) /\ j.status # "none"
      <3>1. k = History!Rescheduled(j, s, reset)
        BY <2>2, <2>5
      <3>2. /\ k \in History!Job /\ JobFits(k)
            /\ reset => k.kind = "discover" /\ k.status # "complete" /\ k.status # "running"
            /\ j.kind = "discover" /\ j.status # "complete" => k.kind = "discover" /\ k.status # "complete"
            /\ Runs(j, k)
            /\ k.status = "complete" => k = j
            /\ k.kind = "verify" => j.kind = "verify" /\ k.next = j.next
            /\ (j.status = "complete" => s.tail <= j.next) => k.next \in {0, j.next}
        BY <1>2, <2>1, <3>1, RescheduledFits
      <3> QED BY <1>2, <1>6, <2>1, <3>2 DEF Moves, Runs
    <2> QED BY <2>3, <2>4, <2>5
  <1> QED BY <1>4, <1>5, <1>6

\* A member, its jobs and its days after it was mirrored.
LEMMA MirroredFits ==
  ASSUME HistoryConstants, HistoryInv, NEW g \in History!Goroutine, History!ReconcileWrite(g), NEW m \in Member
  PROVE  /\ member'[m] \in States
         /\ \A r \in 1 .. MaxRev : job'[m][r] \in History!Job /\ JobFits(job'[m][r])
         /\ AgreesWith(member'[m], job'[m], clock.epoch, row[m], day'[m], hour[m])
         /\ Trusts(member'[m], clock.epoch) => Trusts(member[m], clock.epoch) /\ day'[m] = day[m]
         /\ member[m].epoch = clock.epoch => member'[m].epoch = clock.epoch
         /\ \A r \in 1 .. MaxRev : Runs(job[m][r], job'[m][r])
  <1> DEFINE s == member[m]
             e == clock.epoch
             read == seen[g][m]
             u == member'[m]
             k == job'[m]
             dd == day'[m]
  <1>2. /\ read.on => u = History!Mirrored(s, read.rev)
        /\ ~read.on => u = [s EXCEPT !.active = FALSE, !.ready = @ /\ ~s.active]
        /\ \A r \in 1 .. MaxRev : k[r] = History!Reconciled(m, r, read, u)
        /\ (read.on /\ History!MustReset(s, read.rev)) \/ dd = day[m]
    BY HistoryNumbers DEF History!ReconcileWrite
  <1>5. read \in Reads
    BY HistoryNumbers DEF HistoryInv, GatewayFits
  <1> HIDE DEF u, k, dd, read
  <1> USE <1>2, <1>5
  <1>1. /\ s \in States /\ job[m] \in [1 .. MaxRev -> History!Job]
        /\ AgreesWith(s, job[m], e, row[m], day[m], hour[m])
        /\ s.rev # 0 => s.rev \in 1 .. MaxRev
    BY TheMember
  <1>3. e \in 1 .. MaxEpoch /\ MaxEpoch \in Nat /\ MaxRev \in Nat \ {0}
    BY HistoryNumbers DEF HistoryInv, GatewayFits
  <1>4. read.on => read.rev \in 1 .. MaxRev
    BY <1>3 DEF Reads
  <1>6. u \in States
    <2>1. CASE ~read.on
      BY <1>1, <2>1 DEF States
    <2>2. CASE read.on /\ History!MustReset(s, read.rev)
      <3>1. u = [History!Unknown EXCEPT !.active = TRUE, !.rev = read.rev, !.epoch = e, !.floor = s.floor,
                                        !.first = s.first]
        BY <2>2 DEF History!Mirrored, History!Epoch
      <3>2. History!Unknown \in States
        BY <1>3, HistoryNumbers DEF History!Unknown, States
      <3>3. s.floor \in Nat /\ s.first \in 0 .. LastHour /\ read.rev \in 0 .. MaxRev /\ e \in 0 .. MaxEpoch
        <4>1. read.rev \in 0 .. MaxRev /\ e \in 0 .. MaxEpoch
          BY <1>3, <1>4, <2>2
        <4> QED BY <1>1, <4>1 DEF States
      <3> QED BY <3>1, <3>2, <3>3 DEF States
    <2>3. CASE read.on /\ ~ History!MustReset(s, read.rev)
      <3>1. u = [s EXCEPT !.active = TRUE,
                          !.history = IF s.floor = 0 \/ s.checked = "never" THEN "open" ELSE s.history]
        BY <2>3 DEF History!Mirrored
      <3> QED BY <1>1, <3>1 DEF States
    <2> QED BY <2>1, <2>2, <2>3
  <1>7. ASSUME NEW r \in 1 .. MaxRev
        PROVE  /\ k[r] \in History!Job /\ JobFits(k[r])
               /\ Runs(job[m][r], k[r])
    BY <1>6, JobReconciledFits
  <1>9. /\ AgreesWith(u, k, e, row[m], dd, hour[m])
        /\ Trusts(u, e) => Trusts(s, e) /\ dd = day[m]
        /\ s.epoch = e => u.epoch = e
    <2>1. CASE ~read.on
      <3>1. u = [s EXCEPT !.active = FALSE, !.ready = s.ready /\ ~s.active] /\ dd = day[m]
        BY <2>1
      <3>2. /\ ~u.active /\ u.rev = s.rev /\ u.epoch = s.epoch /\ u.floor = s.floor /\ u.first = s.first
            /\ u.tail = s.tail /\ u.history = s.history /\ u.checked = s.checked
        BY <1>1, <3>1 DEF States
      <3>3. s.rev # 0 => /\ Moves(job[m][s.rev], k[s.rev])
                         /\ s.active => History!Terminal(k[s.rev])
        <4>1. SUFFICES ASSUME s.rev # 0
                       PROVE  /\ Moves(job[m][s.rev], k[s.rev])
                              /\ s.active => History!Terminal(k[s.rev])
          OBVIOUS
        <4>2. k[s.rev] = History!Reconciled(m, s.rev, read, u) /\ s.rev \in 1 .. MaxRev
          BY <1>1, <4>1, HistoryNumbers
        <4> HIDE DEF s
        <4> QED BY <1>6, <2>1, <4>2, JobReconciledFits DEF s
      <3> HIDE DEF s, e
      <3>4. AgreesWith(s, k, e, row[m], day[m], hour[m])
        BY <1>1, <3>3, AgreesJob
      <3>5. s.rev # 0 => History!Terminal(k[s.rev])
        BY <1>1, <3>3 DEF AgreesWith, Moves, States
      <3> QED BY <3>1, <3>2, <3>4, <3>5 DEF AgreesWith, Trusts
    <2>2. CASE read.on /\ History!MustReset(s, read.rev)
      <3>1. u = [History!Unknown EXCEPT !.active = TRUE, !.rev = read.rev, !.epoch = e, !.floor = s.floor,
                                        !.first = s.first]
        BY <2>2 DEF History!Mirrored, History!Epoch
      <3>2. /\ u.active /\ u.rev = read.rev /\ u.epoch = e /\ u.history = "open" /\ u.tail = 0 /\ ~u.ready
        BY <3>1 DEF History!Unknown
      <3>3. k[u.rev].kind = "discover" /\ k[u.rev].status # "complete"
        <4>1. ~ History!UpToDate(u)
          BY <3>2 DEF History!UpToDate
        <4>2. k[u.rev] = History!Reconciled(m, u.rev, read, u) /\ u.rev \in 1 .. MaxRev
          BY <1>4, <2>2, <3>2, HistoryNumbers
        <4> QED BY <1>6, <2>2, <3>2, <4>1, <4>2, JobReconciledFits
      <3>4. u.rev # 0 /\ u.epoch <= e
        BY <1>3, <1>4, <2>2, <3>2
      <3> QED BY <3>2, <3>3, <3>4 DEF AgreesWith, Trusts
    <2>3. CASE read.on /\ ~ History!MustReset(s, read.rev)
      <3>1. /\ u = [s EXCEPT !.active = TRUE,
                             !.history = IF s.floor = 0 \/ s.checked = "never" THEN "open" ELSE s.history]
            /\ dd = day[m] /\ s.rev = read.rev /\ s.epoch = e /\ s.rev \in 1 .. MaxRev
        BY <1>4, <2>3 DEF History!Mirrored, History!MustReset, History!Epoch
      <3>2. s.floor = 0 \/ s.checked = "never" => s.history = "open"
        <4> HIDE DEF s
        <4> QED BY <1>1 DEF AgreesWith, States
      <3>3. /\ u.active /\ u.rev = s.rev /\ u.epoch = s.epoch /\ u.floor = s.floor /\ u.first = s.first
            /\ u.tail = s.tail /\ u.history = s.history /\ u.checked = s.checked
        BY <1>1, <3>1, <3>2 DEF States
      <3> DEFINE n == s.rev
                 o == job[m][n]
                 q == k[n]
      <3>7. n \in 1 .. MaxRev /\ n = read.rev /\ ~ History!MustReset(member[m], read.rev)
        BY <2>3, <3>1
      <3> HIDE DEF n
      <3>8. q = History!Reconciled(m, n, read, u)
        BY <3>7
      <3>4. /\ o.kind = "discover" /\ o.status # "complete" => q.kind = "discover" /\ q.status # "complete"
            /\ q.status = "complete" => o.status = "complete" /\ q.next = o.next
            /\ q.kind = "verify" => o.kind = "verify" /\ q.next = o.next
            /\ (o.status = "complete" => u.tail <= o.next) => q.next \in {0, o.next}
        <4> HIDE DEF s
        <4> QED BY <1>6, <2>3, <3>7, <3>8, JobReconciledFits
      <3>5. Trusts(s, e) =>
              /\ ReadUpTo(s.first, day[m], hour[m], e, q.next)
              /\ q.kind = "verify" \/ q.status = "complete" => s.tail <= q.next
        <4>1. Trusts(s, e) =>
                /\ ReadUpTo(s.first, day[m], hour[m], e, o.next)
                /\ o.kind = "verify" \/ o.status = "complete" => s.tail <= o.next
          <5> HIDE DEF s
          <5> QED BY <1>1, <3>1 DEF AgreesWith, n
        <4>2. ReadUpTo(s.first, day[m], hour[m], e, 0)
          BY ReadNothing
        <4> HIDE DEF s, o, q
        <4> QED BY <3>3, <3>4, <4>1, <4>2 DEF o, q
      <3>6. s.history = "open" => q.kind = "discover" /\ q.status # "complete"
        <4> HIDE DEF s
        <4> QED BY <1>1, <3>1, <3>4 DEF AgreesWith, n
      <3> HIDE DEF s, o
      <3> QED BY <1>1, <3>1, <3>3, <3>5, <3>6 DEF AgreesWith, Trusts, n
    <2> QED BY <2>1, <2>2, <2>3
  <1> QED BY <1>6, <1>7, <1>9 DEF u, k, dd

LEMMA ReconcileWriteStep ==
  ASSUME HistoryConstants, HistoryInv, NEW g \in History!Goroutine, History!ReconcileWrite(g)
  PROVE  HistoryInv'
  <1>1. /\ UNCHANGED <<control, source, clock, hour, row, range, worker, loop, faults>>
        /\ seen' = [seen EXCEPT ![g] = History!Unread]
    BY DEF History!ReconcileWrite
  <1>2. /\ seen \in [{"worker", "loop"} -> [Member -> Reads]] /\ g \in {"worker", "loop"}
        /\ clock.end \in Nat
    BY HistoryNumbers DEF HistoryInv, GatewayFits
  <1> DEFINE read == seen[g]
  <1>3. /\ member' = [m \in Member |->
                  IF read[m].on THEN History!Mirrored(member[m], read[m].rev)
                  ELSE [member[m] EXCEPT !.active = FALSE, !.ready = @ /\ ~member[m].active]]
        /\ day' = [m \in Member |->
                  IF read[m].on /\ History!MustReset(member[m], read[m].rev)
                  THEN [d \in History!Days |-> IF day[m][d] = "complete" THEN "pending" ELSE day[m][d]] ELSE day[m]]
        /\ job' = [m \in Member |->
                  [r \in History!Revisions |-> History!Reconciled(m, r, read[m], member'[m])]]
    BY DEF History!ReconcileWrite
  <1> HIDE DEF read
  <1>5. ASSUME NEW m \in Member
        PROVE  /\ member'[m] \in States /\ job'[m] \in [1 .. MaxRev -> History!Job]
               /\ \A r \in 1 .. MaxRev : JobFits(job'[m][r])
               /\ day'[m] \in [History!Days -> {"none", "pending", "complete"}]
               /\ AgreesWith(member'[m], job'[m], clock.epoch, row[m], day'[m], hour[m])
               /\ Trusts(member'[m], clock.epoch) => Trusts(member[m], clock.epoch) /\ day'[m] = day[m]
               /\ member[m].epoch = clock.epoch => member'[m].epoch = clock.epoch
               /\ \A r \in 1 .. MaxRev : Runs(job[m][r], job'[m][r])
    <2>1. day'[m] \in [History!Days -> {"none", "pending", "complete"}]
      <3>1. day'[m] = IF read[m].on /\ History!MustReset(member[m], read[m].rev)
                      THEN [d \in History!Days |-> IF day[m][d] = "complete" THEN "pending" ELSE day[m][d]]
                      ELSE day[m]
        BY <1>3
      <3>2. day[m] \in [History!Days -> {"none", "pending", "complete"}]
        BY DEF HistoryInv, ProofsFit
      <3> QED BY <3>1, <3>2
    <2>2. \A r \in 1 .. MaxRev : job'[m][r] \in History!Job
      BY MirroredFits
    <2>3. job'[m] \in [1 .. MaxRev -> History!Job]
      BY <1>3, <2>2, HistoryNumbers
    <2> QED BY <2>1, <2>3, MirroredFits
  <1>6. GatewayFits'
    <2>1. History!Unread \in [Member -> Reads]
      <3>1. [on |-> FALSE, rev |-> -1] \in Reads
        BY HistoryNumbers DEF Reads
      <3> QED BY <3>1 DEF History!Unread
    <2>2. seen' \in [{"worker", "loop"} -> [Member -> Reads]]
      BY <1>1, <1>2, <2>1
    <2> QED BY <1>1, <2>2 DEF HistoryInv, GatewayFits, Reads, History!Hours
  <1>7. ProofsFit'
    <2>1. day' \in [Member -> [History!Days -> {"none", "pending", "complete"}]]
      BY <1>3, <1>5
    <2> QED BY <1>1, <2>1 DEF HistoryInv, ProofsFit, History!Days, History!Hours, History!Day
  <1>8. MembersFit'
    <2>1. member' \in [Member -> States]
      BY <1>3, <1>5
    <2>2. job' \in [Member -> [1 .. MaxRev -> History!Job]]
      BY <1>3, <1>5
    <2>3. History!Revisions = 1 .. MaxRev
      BY HistoryNumbers
    <2> QED BY <1>5, <2>1, <2>2, <2>3 DEF MembersFit, JobFits, History!Revisions, History!Job
  <1>9. MembersAgree'
    BY <1>1, <1>5 DEF MembersAgree
  <1>10. WorkerKnows'
    <2>1. SUFFICES ASSUME worker # History!Idle
                   PROVE  Knows(worker, job'[worker.m][worker.rev], member'[worker.m], clock.epoch,
                                day'[worker.m], hour[worker.m])
      BY <1>1 DEF WorkerKnows
    <2>2. /\ worker.m \in Member /\ worker.rev \in 1 .. MaxRev
          /\ Knows(worker, job[worker.m][worker.rev], member[worker.m], clock.epoch, day[worker.m],
                   hour[worker.m])
      BY <2>1, TheWorker
    <2>3. worker.at \in {"ending", "read"} => worker.h \in History!Hours
      BY <2>1 DEF HistoryInv, WorkerFits
    <2> QED BY <1>5, <2>2, <2>3, KnowsMore DEF Added, Runs
  <1> QED BY <1>1, <1>2, <1>6, <1>7, <1>8, <1>9, <1>10, SameServed, SameWorkers DEF HistoryInv

-----------------------------------------------------------------------------
(* Steps that change one member, one of its jobs or one of its hours.        *)

LEMMA OneMember ==
  ASSUME HistoryConstants, HistoryInv, NEW m \in Member, clock' = clock,
         AgreesWith(member'[m], job'[m], clock.epoch, row'[m], day'[m], hour'[m]),
         \A n \in Member \ {m} :
           /\ member'[n] = member[n] /\ job'[n] = job[n] /\ row'[n] \in {row[n], History!NoRow}
           /\ Added(day[n], hour[n], day'[n], hour'[n], clock.epoch)
  PROVE  MembersAgree'
  <1>1. ASSUME NEW n \in Member, n # m
        PROVE  AgreesWith(member'[n], job'[n], clock.epoch, row'[n], day'[n], hour'[n])
    <2>1. AgreesWith(member[n], job[n], clock.epoch, row[n], day[n], hour[n])
      BY TheMember
    <2>2. AgreesWith(member[n], job[n], clock.epoch, row'[n], day'[n], hour'[n])
      BY <1>1, <2>1, AgreesMore
    <2> QED BY <1>1, <2>2
  <1> QED BY <1>1 DEF MembersAgree

\* A mirror and a job are written.
Writes(m, r, u, k) == member' = [member EXCEPT ![m] = u] /\ job' = [job EXCEPT ![m][r] = k]

LEMMA PutFits ==
  ASSUME HistoryConstants, HistoryInv, NEW m \in Member, NEW r \in 1 .. MaxRev, NEW u \in States,
         NEW k \in History!Job, JobFits(k),
         Writes(m, r, u, k)
  PROVE  /\ MembersFit' /\ member'[m] = u /\ job'[m][r] = k
         /\ \A q \in 1 .. MaxRev : q # r => job'[m][q] = job[m][q]
         /\ \A n \in Member \ {m} : member'[n] = member[n] /\ job'[n] = job[n]
  <1>1. /\ member \in [Member -> States] /\ job \in [Member -> [1 .. MaxRev -> History!Job]]
        /\ \A n \in Member, q \in 1 .. MaxRev : JobFits(job[n][q])
        /\ History!Revisions = 1 .. MaxRev
    BY HistoryNumbers DEF HistoryInv, MembersFit
  <1>2. member' = [member EXCEPT ![m] = u] /\ job' = [job EXCEPT ![m] = [job[m] EXCEPT ![r] = k]]
    BY <1>1 DEF Writes
  <1>3. job[m] \in [1 .. MaxRev -> History!Job]
    BY <1>1
  <1>4. [job[m] EXCEPT ![r] = k] \in [1 .. MaxRev -> History!Job]
    BY <1>3
  <1>5. /\ member'[m] = u /\ job'[m] = [job[m] EXCEPT ![r] = k]
        /\ \A n \in Member \ {m} : member'[n] = member[n] /\ job'[n] = job[n]
    BY <1>1, <1>2
  <1>6. job'[m][r] = k /\ \A q \in 1 .. MaxRev : q # r => job'[m][q] = job[m][q]
    <2> DEFINE R == 1 .. MaxRev
               f == job[m]
    <2>1. r \in R /\ f \in [R -> History!Job] /\ job'[m] = [f EXCEPT ![r] = k]
      BY <1>3, <1>5
    <2> HIDE DEF R, f
    <2>2. job'[m][r] = k /\ \A q \in R : q # r => job'[m][q] = f[q]
      BY <2>1
    <2> QED BY <2>2 DEF R, f
  <1>7. member' \in [Member -> States] /\ job' \in [Member -> [1 .. MaxRev -> History!Job]]
    BY <1>1, <1>2, <1>4
  <1>8. \A n \in Member, q \in 1 .. MaxRev : JobFits(job'[n][q])
    BY <1>1, <1>5, <1>6
  <1> QED BY <1>1, <1>5, <1>6, <1>7, <1>8 DEF MembersFit, JobFits, History!Revisions, History!Job

\* An hour is written; what the current source proved of it, it proves still.
LEMMA HourPut ==
  ASSUME HistoryConstants, HistoryInv, NEW m \in Member, NEW h \in History!Hours,
         NEW q \in [status : {"none", "running", "complete"}, epoch : 0 .. MaxEpoch, facts : BOOLEAN],
         hour[m][h].epoch = clock.epoch => q.epoch = clock.epoch,
         hour' = [hour EXCEPT ![m][h] = q], day' = day
  PROVE  /\ ProofsFit' /\ hour'[m][h] = q
         /\ \A n \in Member : Added(day[n], hour[n], day'[n], hour'[n], clock.epoch)
  <1> DEFINE T == [status : {"none", "running", "complete"}, epoch : 0 .. MaxEpoch, facts : BOOLEAN]
  <1>1. hour \in [Member -> [History!Hours -> T]]
    BY DEF HistoryInv, ProofsFit
  <1> HIDE DEF T
  <1>2. hour[m] \in [History!Hours -> T] /\ q \in T
    BY <1>1 DEF T
  <1>3. hour' = [hour EXCEPT ![m] = [hour[m] EXCEPT ![h] = q]]
    BY <1>1
  <1>4. [hour[m] EXCEPT ![h] = q] \in [History!Hours -> T]
    BY <1>2
  <1>5. /\ hour'[m] = [hour[m] EXCEPT ![h] = q] /\ hour' \in [Member -> [History!Hours -> T]]
        /\ \A n \in Member \ {m} : hour'[n] = hour[n]
    BY <1>1, <1>3, <1>4
  <1>6. hour'[m][h] = q /\ \A g \in History!Hours : g # h => hour'[m][g] = hour[m][g]
    BY <1>2, <1>5
  <1>7. \A n \in Member : Added(day[n], hour[n], day'[n], hour'[n], clock.epoch)
    BY <1>5, <1>6 DEF Added
  <1>8. ProofsFit'
    <2>1. hour' \in [Member -> [History!Hours ->
            [status : {"none", "running", "complete"}, epoch : 0 .. MaxEpoch, facts : BOOLEAN]]]
      BY <1>5 DEF T
    <2> QED BY <2>1 DEF HistoryInv, ProofsFit, History!Days, History!Hours, History!Day
  <1> QED BY <1>6, <1>7, <1>8

\* A claim or a failed query leaves the source of an hour.
LEMMA HourKeepsSource ==
  ASSUME HistoryConstants, HistoryInv, NEW m \in Member, NEW h \in History!Hours,
         History!ClaimHour(m, h) \/ History!HourFails(m, h), day' = day
  PROVE  /\ ProofsFit'
         /\ \A n \in Member : Added(day[n], hour[n], day'[n], hour'[n], clock.epoch)
  <1> DEFINE T == [status : {"none", "running", "complete"}, epoch : 0 .. MaxEpoch, facts : BOOLEAN]
  <1>1. hour \in [Member -> [History!Hours -> T]]
    BY DEF HistoryInv, ProofsFit
  <1>2. hour[m][h] \in T
    <2> HIDE DEF T
    <2> QED BY <1>1
  <1>3. PICK x \in {"none", "running", "complete"} : hour' = [hour EXCEPT ![m][h] = [hour[m][h] EXCEPT !.status = x]]
    <2>1. CASE History!ClaimHour(m, h)
      <3>1. hour' = [hour EXCEPT ![m][h] = [hour[m][h] EXCEPT !.status = "running"]]
        BY <2>1 DEF History!ClaimHour
      <3> QED BY <3>1
    <2>2. CASE History!HourFails(m, h)
      <3> DEFINE x == IF hour[m][h].status # "running" THEN hour[m][h].status
                      ELSE IF hour[m][h].epoch > 0 THEN "complete" ELSE "none"
      <3>1. x \in {"none", "running", "complete"}
        BY <1>2
      <3>2. hour' = [hour EXCEPT ![m][h] = [hour[m][h] EXCEPT !.status = x]]
        BY <2>2 DEF History!HourFails
      <3> HIDE DEF x
      <3> QED BY <3>1, <3>2
    <2> QED BY <2>1, <2>2
  <1> DEFINE q == [hour[m][h] EXCEPT !.status = x]
  <1>4. q \in T /\ q.epoch = hour[m][h].epoch
    BY <1>2
  <1>5. hour' = [hour EXCEPT ![m][h] = q]
    BY <1>3
  <1> HIDE DEF q
  <1> QED BY <1>4, <1>5, HourPut

\* An hour is read: what it proves is of the current source, and a boundary that it makes void is void.
LEMMA CommitFits ==
  ASSUME HistoryConstants, HistoryInv, NEW m \in Member, NEW h \in History!Hours,
         History!CommitHour(m, h), day' = day, clock' = clock
  PROVE  /\ ProofsFit' /\ MembersFit' /\ ServedFits' /\ MembersAgree'
         /\ hour'[m][h].epoch = clock.epoch
         /\ \A n \in Member :
              /\ Added(day[n], hour[n], day'[n], hour'[n], clock.epoch)
              /\ Trusts(member'[n], clock.epoch) => Trusts(member[n], clock.epoch)
              /\ member[n].epoch = clock.epoch => member'[n].epoch = clock.epoch
              /\ \A r \in 1 .. MaxRev : Runs(job[n][r], job'[n][r])
         /\ ~ History!Invalidates(m, h) => job' = job /\ member' = member
  <1> DEFINE q == [status |-> "complete", epoch |-> clock.epoch, facts |-> h \in source[m]]
  <1>1. clock.epoch \in 0 .. MaxEpoch /\ clock.end \in Nat
    BY HistoryNumbers DEF HistoryInv, GatewayFits
  <1>2. /\ q \in [status : {"none", "running", "complete"}, epoch : 0 .. MaxEpoch, facts : BOOLEAN]
        /\ q.epoch = clock.epoch /\ hour' = [hour EXCEPT ![m][h] = q]
    BY <1>1 DEF History!CommitHour, History!Epoch
  <1> HIDE DEF q
  <1>3. /\ ProofsFit' /\ hour'[m][h] = q
        /\ \A n \in Member : Added(day[n], hour[n], day'[n], hour'[n], clock.epoch)
    BY <1>2, HourPut
  <1>4. CASE ~ History!Invalidates(m, h)
    <2>1. job' = job /\ member' = member /\ row' = row /\ range' = range
      BY <1>4 DEF History!CommitHour
    <2>2. MembersFit' /\ ServedFits'
      BY <1>1, <2>1, SameMembers, SameServed
    <2>3. MembersAgree'
      BY <1>3, <2>1, MembersGoOn DEF Alike, Moves
    <2> QED BY <1>2, <1>3, <2>1, <2>2, <2>3 DEF Runs
  <1>5. CASE History!Invalidates(m, h)
    <2> DEFINE s == member[m]
               r == s.rev
               j == job[m][r]
               u == [s EXCEPT !.checked = "never", !.history = "open", !.ready = FALSE, !.complete = FALSE]
               d == History!Rediscover(j)
               k == [d EXCEPT !.attempts = 0]
    <2>1. /\ s \in States /\ AgreesWith(s, job[m], clock.epoch, row[m], day[m], hour[m])
          /\ s.active /\ s.history = "empty"
      BY <1>5, TheMember DEF History!Invalidates
    <2>2. r \in 1 .. MaxRev
      BY <2>1, TheMember DEF AgreesWith
    <2>3. j \in History!Job
      <3> HIDE DEF r
      <3> QED BY <2>2, TheMember
    <2>4. member' = [member EXCEPT ![m] = u] /\ job' = [job EXCEPT ![m][r] = k] /\ History!Revoking({m})
      BY <1>5 DEF History!CommitHour
    <2>5. /\ u \in States /\ u.history = "open" /\ u.rev = r /\ u.epoch = s.epoch /\ u.active = s.active
      BY <2>1 DEF States
    <2>6. /\ k \in History!Job /\ JobFits(k) /\ k.kind = "discover" /\ k.status = "queued"
      <3>1. d = [j EXCEPT !.kind = "discover", !.status = "queued"]
        BY DEF History!Rediscover
      <3>2. d \in History!Job /\ d.kind = "discover" /\ d.status = "queued"
        BY <2>3, <3>1 DEF History!Job
      <3>3. 0 \in 0 .. MaxTries /\ 0 < MaxTries
        BY HistoryNumbers
      <3> HIDE DEF d
      <3> QED BY <3>2, <3>3 DEF History!Job, JobFits
    <2>12. Writes(m, r, u, k)
      BY <2>4 DEF Writes
    <2> HIDE DEF u, k, r
    <2>7. /\ MembersFit' /\ member'[m] = u /\ job'[m][r] = k
          /\ \A x \in 1 .. MaxRev : x # r => job'[m][x] = job[m][x]
          /\ \A n \in Member \ {m} : member'[n] = member[n] /\ job'[n] = job[n]
      BY <2>2, <2>5, <2>6, <2>12, PutFits
    <2>8. /\ ServedFits'
          /\ \A n \in Member : row'[n] \in {row[n], History!NoRow} /\ (n \in {m} => row'[n] = History!NoRow)
      BY <2>4, RevokingFits
    <2>9. AgreesWith(member'[m], job'[m], clock.epoch, row'[m], day'[m], hour'[m])
      <3>1. u.rev # 0 /\ u.epoch <= clock.epoch
        BY <2>1, <2>2, <2>5 DEF AgreesWith
      <3>2. row'[m] = History!NoRow
        BY <2>8
      <3> QED BY <2>1, <2>5, <2>6, <2>7, <3>1, <3>2 DEF AgreesWith, Trusts
    <2>10. MembersAgree'
      BY <1>3, <2>7, <2>8, <2>9, OneMember
    <2>11. \A n \in Member :
              /\ Trusts(member'[n], clock.epoch) => Trusts(member[n], clock.epoch)
              /\ member[n].epoch = clock.epoch => member'[n].epoch = clock.epoch
              /\ \A x \in 1 .. MaxRev : Runs(job[n][x], job'[n][x])
      BY <2>5, <2>6, <2>7 DEF Trusts, Runs
    <2> QED BY <1>2, <1>3, <1>5, <2>7, <2>8, <2>10, <2>11
  <1> QED BY <1>4, <1>5

-----------------------------------------------------------------------------
(* The usage-facts loop.                                                    *)

LEMMA SameGateway ==
  ASSUME HistoryConstants, HistoryInv, control' = control, source' = source, clock' = clock, seen' = seen,
         faults' = faults \/ (faults < MaxFaults /\ faults' = faults + 1)
  PROVE  GatewayFits' /\ clock'.end \in Nat /\ clock.end <= clock'.end
  <1>1. faults' \in 0 .. MaxFaults /\ clock.end \in Nat
    BY HistoryNumbers DEF HistoryInv, GatewayFits
  <1> QED BY <1>1 DEF HistoryInv, GatewayFits, Reads, History!Hours

LEMMA LoopGoesOn ==
  ASSUME HistoryConstants, HistoryInv, worker' = worker,
         loop' \in [at : {"reading", "ending"}, m : Member, h : History!Hours] \cup {History!Idle}
  PROVE  WorkerFits'
  BY DEF HistoryInv, WorkerFits, KindOf, Claims, History!Idle, History!Hours

LEMMA TheLoop ==
  ASSUME HistoryConstants, HistoryInv, loop.at \in {"reading", "ending"}
  PROVE  loop \in [at : {"reading", "ending"}, m : Member, h : History!Hours]
  BY DEF HistoryInv, WorkerFits, History!Idle

LEMMA LoopClaimsStep ==
  ASSUME HistoryConstants, HistoryInv, NEW m \in Member, NEW h \in History!Hours, History!LoopClaims(m, h)
  PROVE  HistoryInv'
  <1>1. /\ UNCHANGED <<control, source, clock, member, job, day, row, range, worker, seen>>
        /\ faults' = faults /\ loop' = [at |-> "reading", m |-> m, h |-> h] /\ History!ClaimHour(m, h)
    BY DEF History!LoopClaims
  <1>2. GatewayFits' /\ clock'.end \in Nat /\ clock.end <= clock'.end
    BY <1>1, SameGateway
  <1>3. ProofsFit' /\ \A n \in Member : Added(day[n], hour[n], day'[n], hour'[n], clock.epoch)
    BY <1>1, HourKeepsSource
  <1>4. MembersAgree'
    BY <1>1, <1>3, MembersGoOn DEF Alike, Moves
  <1>5. WorkerKnows'
    BY <1>1, <1>3, WorkerGoesOn DEF Runs
  <1> QED BY <1>1, <1>2, <1>3, <1>4, <1>5, SameServed, SameMembers, LoopGoesOn DEF HistoryInv

LEMMA LoopCommitsStep ==
  ASSUME HistoryConstants, HistoryInv, History!LoopCommits
  PROVE  HistoryInv'
  <1>1. /\ UNCHANGED <<control, source, clock, day, worker, seen, faults>>
        /\ loop' \in {[loop EXCEPT !.at = "ending"], History!Idle} /\ loop.at = "reading"
        /\ History!CommitHour(loop.m, loop.h)
    BY DEF History!LoopCommits
  <1>2. loop \in [at : {"reading", "ending"}, m : Member, h : History!Hours]
    BY <1>1, TheLoop
  <1>3. loop.m \in Member /\ loop.h \in History!Hours
    BY <1>2
  <1>4. /\ ProofsFit' /\ MembersFit' /\ ServedFits' /\ MembersAgree'
        /\ \A n \in Member :
              /\ Added(day[n], hour[n], day'[n], hour'[n], clock.epoch)
              /\ Trusts(member'[n], clock.epoch) => Trusts(member[n], clock.epoch)
              /\ member[n].epoch = clock.epoch => member'[n].epoch = clock.epoch
              /\ \A r \in 1 .. MaxRev : Runs(job[n][r], job'[n][r])
    BY <1>1, <1>3, CommitFits
  <1>5. WorkerKnows'
    BY <1>1, <1>4, WorkerGoesOn DEF Runs
  <1>6. WorkerFits'
    BY <1>1, <1>2, LoopGoesOn
  <1> QED BY <1>1, <1>4, <1>5, <1>6, SameGateway DEF HistoryInv

LEMMA LoopFailsStep ==
  ASSUME HistoryConstants, HistoryInv, History!LoopFails
  PROVE  HistoryInv'
  <1>1. /\ UNCHANGED <<control, source, clock, member, job, day, row, range, worker, seen>>
        /\ faults < MaxFaults /\ faults' = faults + 1 /\ loop' = History!Idle /\ loop.at = "reading"
        /\ History!HourFails(loop.m, loop.h)
    BY DEF History!LoopFails
  <1>2. loop.m \in Member /\ loop.h \in History!Hours
    BY <1>1, TheLoop
  <1>3. GatewayFits' /\ clock'.end \in Nat /\ clock.end <= clock'.end
    BY <1>1, SameGateway
  <1>4. ProofsFit' /\ \A n \in Member : Added(day[n], hour[n], day'[n], hour'[n], clock.epoch)
    BY <1>1, <1>2, HourKeepsSource
  <1>5. MembersAgree'
    BY <1>1, <1>4, MembersGoOn DEF Alike, Moves
  <1>6. WorkerKnows'
    BY <1>1, <1>4, WorkerGoesOn DEF Runs
  <1> QED BY <1>1, <1>3, <1>4, <1>5, <1>6, SameServed, SameMembers, LoopGoesOn DEF HistoryInv

\* A day is finalized.
LEMMA DayPut ==
  ASSUME HistoryConstants, HistoryInv, NEW m \in Member, NEW h \in History!Hours,
         History!Finalize(m, History!Day(h)), hour' = hour
  PROVE  /\ ProofsFit' /\ day'[m][History!Day(h)] = "complete"
         /\ \A n \in Member : Added(day[n], hour[n], day'[n], hour'[n], clock.epoch)
  <1> DEFINE T == {"none", "pending", "complete"}
             d == History!Day(h)
  <1>1. day \in [Member -> [History!Days -> T]]
    BY DEF HistoryInv, ProofsFit
  <1>2. d \in History!Days
    BY HoursAndDays
  <1>3. day' = [day EXCEPT ![m][d] = "complete"]
    BY DEF History!Finalize
  <1> HIDE DEF T, d
  <1>4. day[m] \in [History!Days -> T] /\ "complete" \in T
    BY <1>1 DEF T
  <1>5. day' = [day EXCEPT ![m] = [day[m] EXCEPT ![d] = "complete"]]
    BY <1>1, <1>3
  <1>6. [day[m] EXCEPT ![d] = "complete"] \in [History!Days -> T]
    BY <1>4
  <1>7. /\ day'[m] = [day[m] EXCEPT ![d] = "complete"] /\ day' \in [Member -> [History!Days -> T]]
        /\ \A n \in Member \ {m} : day'[n] = day[n]
    BY <1>1, <1>5, <1>6
  <1>8. day'[m][d] = "complete" /\ \A x \in History!Days : x # d => day'[m][x] = day[m][x]
    BY <1>2, <1>4, <1>7
  <1>9. \A n \in Member : Added(day[n], hour[n], day'[n], hour'[n], clock.epoch)
    BY <1>7, <1>8 DEF Added
  <1>10. ProofsFit'
    <2>1. day' \in [Member -> [History!Days -> {"none", "pending", "complete"}]]
      BY <1>7 DEF T
    <2> QED BY <2>1 DEF HistoryInv, ProofsFit, History!Days, History!Hours, History!Day
  <1> QED BY <1>8, <1>9, <1>10 DEF d

LEMMA LoopEndsDayStep ==
  ASSUME HistoryConstants, HistoryInv, History!LoopEndsDay
  PROVE  HistoryInv'
  <1>1. /\ UNCHANGED <<control, source, clock, member, job, hour, row, range, worker, seen, faults>>
        /\ loop' = History!Idle /\ loop.at = "ending"
        /\ day' = day \/ History!Finalize(loop.m, History!Day(loop.h))
    BY DEF History!LoopEndsDay
  <1>2. loop.m \in Member /\ loop.h \in History!Hours
    BY <1>1, TheLoop
  <1>3. GatewayFits' /\ clock'.end \in Nat /\ clock.end <= clock'.end
    BY <1>1, SameGateway
  <1>4. ProofsFit' /\ \A n \in Member : Added(day[n], hour[n], day'[n], hour'[n], clock.epoch)
    <2>1. CASE day' = day
      BY <1>1, <2>1, SameProofs DEF Added
    <2>2. CASE History!Finalize(loop.m, History!Day(loop.h))
      BY <1>1, <1>2, <2>2, DayPut
    <2> QED BY <1>1, <2>1, <2>2
  <1>5. MembersAgree'
    BY <1>1, <1>4, MembersGoOn DEF Alike, Moves
  <1>6. WorkerKnows'
    BY <1>1, <1>4, WorkerGoesOn DEF Runs
  <1> QED BY <1>1, <1>3, <1>4, <1>5, <1>6, SameServed, SameMembers, LoopGoesOn DEF HistoryInv

-----------------------------------------------------------------------------
(* The worker: claims, and how they end.                                    *)

LEMMA IdleFits == ASSUME HistoryInv, worker' = History!Idle, loop' = loop PROVE WorkerFits' /\ WorkerKnows'
  BY DEF HistoryInv, WorkerFits, WorkerKnows, History!Idle, History!Hours

\* What the worker writes of its member agrees if it does for the revision of the mirror.
LEMMA WorkerPuts ==
  ASSUME HistoryConstants, HistoryInv, worker # History!Idle, clock' = clock,
         NEW u \in States, NEW k \in History!Job, JobFits(k), Writes(worker.m, worker.rev, u, k),
         \A n \in Member : /\ row'[n] \in {row[n], History!NoRow}
                           /\ Added(day[n], hour[n], day'[n], hour'[n], clock.epoch),
         \/ Alike(member[worker.m], u) /\ Moves(History!TheJob, k)
         \/ Alike(member[worker.m], u) /\ u.rev # worker.rev
         \/ AgreesWith(u, job'[worker.m], clock.epoch, row'[worker.m], day'[worker.m], hour'[worker.m])
  PROVE  MembersFit' /\ MembersAgree'
  <1> DEFINE m == worker.m
             r == worker.rev
             s == member[m]
  <1>1. m \in Member /\ r \in 1 .. MaxRev /\ History!TheJob = job[m][r]
    BY TheWorker
  <1>2. /\ MembersFit' /\ member'[m] = u /\ job'[m][r] = k
        /\ \A q \in 1 .. MaxRev : q # r => job'[m][q] = job[m][q]
        /\ \A n \in Member \ {m} : member'[n] = member[n] /\ job'[n] = job[n]
    BY <1>1, PutFits
  <1>3. ASSUME Alike(s, u), Moves(History!TheJob, k) \/ u.rev # r
        PROVE  AgreesWith(u, job'[m], clock.epoch, row'[m], day'[m], hour'[m])
    <2>1. /\ AgreesWith(s, job[m], clock.epoch, row[m], day[m], hour[m])
          /\ s.rev # 0 => s.rev \in 1 .. MaxRev
      BY <1>1, TheMember
    <2>2. s.rev # 0 => Moves(job[m][s.rev], job'[m][s.rev])
      <3>1. s.rev = u.rev
        BY <1>3 DEF Alike
      <3>2. CASE s.rev = r
        BY <1>1, <1>2, <1>3, <3>1, <3>2
      <3>3. CASE s.rev # r
        BY <1>2, <2>1, <3>3 DEF Moves
      <3> QED BY <3>2, <3>3
    <2>3. AgreesWith(s, job[m], clock.epoch, row'[m], day'[m], hour'[m])
      BY <1>1, <2>1, AgreesMore
    <2>4. AgreesWith(s, job'[m], clock.epoch, row'[m], day'[m], hour'[m])
      BY <2>2, <2>3, AgreesJob
    <2> QED BY <1>3, <2>4, AgreesState
  <1>4. AgreesWith(member'[m], job'[m], clock.epoch, row'[m], day'[m], hour'[m])
    BY <1>2, <1>3
  <1>5. MembersAgree'
    BY <1>1, <1>2, <1>4, OneMember
  <1> QED BY <1>2, <1>5

\* A claim is released (releaseUsageFactHistoryClaim).
LEMMA ReleasedFits ==
  ASSUME HistoryConstants, HistoryInv, worker # History!Idle, clock' = clock,
         NEW counted \in BOOLEAN, History!Released(counted),
         \A n \in Member : /\ row'[n] \in {row[n], History!NoRow}
                           /\ Added(day[n], hour[n], day'[n], hour'[n], clock.epoch)
  PROVE  MembersFit' /\ MembersAgree'
  <1> DEFINE m == worker.m
             r == worker.rev
             s == member[m]
             j == History!TheJob
             n == j.attempts + IF counted THEN 1 ELSE 0
             paused == counted /\ History!Exhausted(n)
             k == [j EXCEPT !.status = IF paused THEN "paused" ELSE "queued", !.attempts = n]
             u == IF paused /\ s.rev = r THEN [s EXCEPT !.ready = FALSE] ELSE s
  <1>1. CASE ~ History!Ours
    <2>1. member' = member /\ job' = job
      BY <1>1 DEF History!Released
    <2> QED BY <2>1, SameMembers, MembersGoOn DEF Alike, Moves
  <1>2. CASE History!Ours
    <2>1. /\ j \in History!Job /\ JobFits(j) /\ s \in States /\ m \in Member /\ r \in 1 .. MaxRev
          /\ j.status = "running"
      BY <1>2, TheWorker DEF History!Ours
    <2>2. MaxTries \in Nat \ {0} /\ j.attempts \in 0 .. MaxTries /\ j.attempts < MaxTries
      BY <2>1, HistoryNumbers DEF JobFits, History!Job
    <2>3. n \in 0 .. MaxTries /\ (~paused => n < MaxTries)
      BY <2>2 DEF History!Exhausted
    <2>4. History!Put(k)
      BY <1>2 DEF History!Released
    <2>5. member' = IF paused /\ s.rev = r THEN [member EXCEPT ![m].ready = FALSE] ELSE member
      BY <1>2 DEF History!Released
    <2>6. member' = [member EXCEPT ![m] = u]
      <3>1. member \in [Member -> States]
        BY DEF HistoryInv, MembersFit
      <3> HIDE DEF paused
      <3> QED BY <2>1, <2>5, <3>1
    <2> HIDE DEF n, paused
    <2>7. /\ k \in History!Job /\ JobFits(k) /\ Moves(j, k)
      <3>1. k.kind = j.kind /\ k.next = j.next /\ k.attempts = n
            /\ k.status = IF paused THEN "paused" ELSE "queued"
        BY <2>1 DEF History!Job
      <3>2. k \in History!Job
        BY <2>1, <2>3 DEF History!Job
      <3> HIDE DEF k, j
      <3> QED BY <2>1, <2>3, <3>1, <3>2 DEF JobFits, Moves, History!Terminal
    <2>8. u \in States /\ Alike(s, u)
      BY <2>1 DEF States, Alike
    <2>9. Writes(m, r, u, k)
      BY <2>4, <2>6 DEF Writes, History!Put
    <2> HIDE DEF u, k
    <2> QED BY <2>7, <2>8, <2>9, WorkerPuts
  <1> QED BY <1>1, <1>2

\* The worker is done with its claim.
LEMMA DoneStep ==
  ASSUME HistoryConstants, HistoryInv, worker' = History!Idle, loop' = loop, control' = control,
         source' = source, clock' = clock, seen' = seen,
         faults' = faults \/ (faults < MaxFaults /\ faults' = faults + 1),
         ProofsFit' /\ MembersFit' /\ MembersAgree', ServedFits' \/ (row' = row /\ range' = range)
  PROVE  HistoryInv'
  <1>1. GatewayFits' /\ clock'.end \in Nat /\ clock.end <= clock'.end
    BY SameGateway
  <1> QED BY <1>1, IdleFits, SameServed DEF HistoryInv

LEMMA JobClaimStep ==
  ASSUME HistoryConstants, HistoryInv, NEW m \in Member, NEW r \in History!Revisions, History!Claim(m, r)
  PROVE  HistoryInv'
  <1> DEFINE j == job[m][r]
             from == IF j.kind = "verify" THEN j.verify ELSE j.next
             k == [j EXCEPT !.status = "running"]
  <1>1. /\ UNCHANGED <<control, source, clock, member, day, hour, row, range, loop, seen>>
        /\ faults' = faults /\ j.status \in {"queued", "running"}
        /\ job' = [job EXCEPT ![m][r].status = "running"]
    BY DEF History!Claim
  <1>2. PICK chunk \in 1 .. MaxChunk :
          worker' = [at |-> j.kind, m |-> m, rev |-> r, epoch |-> j.epoch, h |-> from, target |-> j.through,
                     through |-> CASE j.kind = "backfill" ->
                                        History!Smaller(from + chunk * HoursPerDay, History!Day(j.through))
                                   [] j.kind = "tail" -> from + 1
                                   [] j.kind = "verify" -> History!Day(j.through)
                                   [] j.kind = "discover" -> 0]
    BY DEF History!Claim
  <1>3. /\ m \in Member /\ r \in 1 .. MaxRev /\ j \in History!Job /\ JobFits(j) /\ member[m] \in States
        /\ HoursPerDay \in Nat \ {0} /\ LastHour \in Nat
    BY TheMember, HistoryNumbers
  <1>4. /\ k \in History!Job /\ JobFits(k) /\ Moves(j, k) /\ k.kind = j.kind /\ k.status = "running"
        /\ k.next = j.next
    BY <1>1, <1>3 DEF History!Job, JobFits, Moves, History!Terminal
  <1>5. /\ MembersFit' /\ job'[m][r] = k
        /\ \A q \in 1 .. MaxRev : q # r => job'[m][q] = job[m][q]
        /\ \A n \in Member \ {m} : job'[n] = job[n]
    <2>1. job' = [job EXCEPT ![m][r] = k]
      BY <1>1
    <2>2. member' = [member EXCEPT ![m] = member[m]]
      BY <1>1 DEF HistoryInv, MembersFit
    <2>3. Writes(m, r, member[m], k)
      BY <2>1, <2>2 DEF Writes
    <2> HIDE DEF k
    <2> QED BY <1>3, <1>4, <2>3, PutFits
  <1>6. MembersAgree'
    <2>1. ASSUME NEW n \in Member, member[n].rev # 0
          PROVE  Moves(job[n][member[n].rev], job'[n][member[n].rev])
      <3>1. member[n].rev \in 1 .. MaxRev
        BY <2>1, TheMember
      <3>2. CASE n = m /\ member[n].rev = r
        BY <1>4, <1>5, <3>2
      <3>3. CASE ~ (n = m /\ member[n].rev = r)
        <4>1. job'[n][member[n].rev] = job[n][member[n].rev]
          BY <1>5, <3>1, <3>3
        <4> QED BY <4>1 DEF Moves
      <3> QED BY <3>2, <3>3
    <2> QED BY <1>1, <2>1, MembersGoOn DEF Alike, Added
  <1> DEFINE through == CASE j.kind = "backfill" ->
                                History!Smaller(from + chunk * HoursPerDay, History!Day(j.through))
                          [] j.kind = "tail" -> from + 1
                          [] j.kind = "verify" -> History!Day(j.through)
                          [] j.kind = "discover" -> 0
  <1>7. /\ from \in 0 .. LastHour /\ j.through \in 0 .. LastHour /\ j.epoch \in 0 .. MaxEpoch
        /\ j.kind \in {"discover", "backfill", "tail", "verify"}
    BY <1>3 DEF History!Job
  <1>8. /\ History!Day(j.through) \in 0 .. LastHour /\ History!Day(j.through) % HoursPerDay = 0
    BY <1>3, <1>7, DayOf
  <1>9. /\ through \in 0 .. LastHour + 1 /\ (j.kind # "tail" => through \in 0 .. LastHour)
        /\ j.kind = "backfill" => through % HoursPerDay = 0 /\ from % HoursPerDay = 0
    <2>1. CASE j.kind = "backfill"
      <3> DEFINE a == from + chunk * HoursPerDay
                 b == History!Day(j.through)
      <3>1. from % HoursPerDay = 0
        BY <1>3, <2>1 DEF JobFits
      <3>2. a % HoursPerDay = 0
        BY <1>3, <1>7, <3>1, Sums
      <3>3. a \in Nat
        BY <1>3, <1>7
      <3>4. through = IF a < b THEN a ELSE b
        BY <2>1 DEF History!Smaller
      <3> HIDE DEF a, b, through
      <3>5. b \in 0 .. LastHour /\ b % HoursPerDay = 0
        BY <1>8 DEF b
      <3> QED BY <1>3, <2>1, <3>1, <3>2, <3>3, <3>4, <3>5
    <2>2. CASE j.kind # "backfill"
      <3>1. /\ through \in {from + 1, History!Day(j.through), 0}
            /\ through = from + 1 => j.kind = "tail" \/ through \in 0 .. LastHour
        BY <1>3, <1>7, <1>8, <2>2
      <3> HIDE DEF through
      <3>2. (j.kind # "tail" => through \in 0 .. LastHour) /\ through \in 0 .. LastHour + 1
        BY <1>3, <1>7, <1>8, <3>1
      <3> QED BY <2>2, <3>2
    <2> QED BY <2>1, <2>2
  <1>10. worker' = [at |-> j.kind, m |-> m, rev |-> r, epoch |-> j.epoch, h |-> from, target |-> j.through,
                    through |-> through]
    BY <1>2
  <1> HIDE DEF through, from
  <1>11. worker' \in Claims /\ worker'.at = j.kind /\ worker'.h = from /\ worker'.through = through
         /\ worker'.m = m /\ worker'.rev = r
    BY <1>3, <1>7, <1>9, <1>10 DEF Claims, Steps
  <1>12. KindOf(j.kind) = j.kind
    BY <1>7 DEF KindOf
  <1>13. WorkerFits'
    <2>1. loop' \in [at : {"reading", "ending"}, m : Member, h : History!Hours] \cup {History!Idle}
      BY <1>1 DEF HistoryInv, WorkerFits
    <2>2. worker'.at \in {"discover", "backfill", "tail", "verify"}
      BY <1>7, <1>11
    <2>3. KindOf(worker'.at) = "backfill" => /\ worker'.h % HoursPerDay = 0 /\ worker'.through <= LastHour
                                             /\ worker'.through % HoursPerDay = 0
      BY <1>3, <1>9, <1>11, <1>12
    <2>4. worker'.at = "verify" => worker'.through <= LastHour
      BY <1>3, <1>9, <1>11
    <2> QED
      BY <1>11, <2>1, <2>2, <2>3, <2>4 DEF WorkerFits, KindOf, Claims, History!Idle, History!Hours
  <1>14. WorkerKnows'
    <2>1. from = j.next \/ j.kind = "verify"
      BY DEF from
    <2>2. Knows(worker', k, member[m], clock.epoch, day[m], hour[m])
      <3>1. worker'.at \in {"discover", "backfill", "tail", "verify"} /\ KindOf(worker'.at) = j.kind
        BY <1>7, <1>11, <1>12
      <3> HIDE DEF k, j
      <3> QED BY <1>4, <1>11, <2>1, <3>1 DEF Knows
    <2> QED BY <1>1, <1>5, <1>11, <2>2 DEF WorkerKnows
  <1>15. GatewayFits' /\ clock'.end \in Nat /\ clock.end <= clock'.end
    BY <1>1, SameGateway
  <1> QED BY <1>1, <1>5, <1>6, <1>13, <1>14, <1>15, SameServed, SameProofs DEF HistoryInv

LEMMA WorkerFailsStep ==
  ASSUME HistoryConstants, HistoryInv, History!WorkerFails
  PROVE  HistoryInv'
  <1>1. /\ UNCHANGED <<control, source, clock, day, hour, row, range, loop, seen>>
        /\ worker' = History!Idle
        /\ faults' = faults \/ (faults < MaxFaults /\ faults' = faults + 1)
        /\ \E counted \in BOOLEAN : History!Released(counted)
    BY DEF History!WorkerFails
  <1>2. worker # History!Idle
    BY DEF History!WorkerFails, History!Idle
  <1>3. MembersFit' /\ MembersAgree'
    BY <1>1, <1>2, ReleasedFits DEF Added
  <1> QED BY <1>1, <1>3, SameProofs, DoneStep

\* The worker goes on with its claim, and knows what the next step needs.
LEMMA OnwardStep ==
  ASSUME HistoryConstants, HistoryInv, worker # History!Idle, control' = control, source' = source,
         clock' = clock, member' = member, job' = job, row' = row, range' = range, loop' = loop,
         seen' = seen, faults' = faults, ProofsFit',
         \A n \in Member : Added(day[n], hour[n], day'[n], hour'[n], clock.epoch),
         worker' \in Claims, worker'.m = worker.m, worker'.rev = worker.rev,
         KindOf(worker'.at) = "backfill" =>
           worker'.h % HoursPerDay = 0 /\ worker'.through <= LastHour /\ worker'.through % HoursPerDay = 0,
         worker'.at = "found" => worker'.h % HoursPerDay = 0,
         worker'.at \in {"reading", "ending", "read"} => worker'.h \in History!Hours,
         worker'.at # "verify",
         Knows(worker', History!TheJob, member[worker.m], clock.epoch, day'[worker.m], hour'[worker.m])
  PROVE  HistoryInv'
  <1>1. GatewayFits' /\ clock'.end \in Nat /\ clock.end <= clock'.end
    BY SameGateway
  <1>2. MembersAgree'
    BY MembersGoOn DEF Alike, Moves
  <1>3. worker'.at # "verify" => WorkerFits'
    <2>1. loop' \in [at : {"reading", "ending"}, m : Member, h : History!Hours] \cup {History!Idle}
      BY DEF HistoryInv, WorkerFits
    <2> QED BY <2>1 DEF WorkerFits, KindOf, Claims, History!Idle, History!Hours
  <1>4. WorkerKnows'
    BY DEF WorkerKnows, History!TheJob
  <1> QED BY <1>1, <1>2, <1>3, <1>4, SameServed, SameMembers DEF HistoryInv

-----------------------------------------------------------------------------
(* Discovery.                                                               *)

LEMMA ReadBoundaryStep ==
  ASSUME HistoryConstants, HistoryInv, History!ReadBoundary
  PROVE  HistoryInv'
  <1> DEFINE first == IF source[worker.m] = {} THEN 0 ELSE History!Day(History!Min(source[worker.m]))
  <1>1. /\ UNCHANGED <<control, source, clock, member, job, day, hour, row, range, loop, seen,
                       faults>>
        /\ worker.at = "discover" /\ History!JobCurrent
        /\ worker' = [worker EXCEPT !.at = "found", !.h = first]
    BY DEF History!ReadBoundary
  <1>2. worker # History!Idle
    BY <1>1 DEF History!Idle
  <1>3. /\ worker \in Claims /\ worker.m \in Member
        /\ Knows(worker, History!TheJob, member[worker.m], clock.epoch, day[worker.m], hour[worker.m])
    BY <1>2, TheWorker
  <1>4. first \in 0 .. LastHour /\ first % HoursPerDay = 0
    <2>1. HoursPerDay \in Nat \ {0} /\ LastHour \in Nat
      BY HistoryNumbers
    <2>2. CASE source[worker.m] = {}
      BY <2>1, <2>2
    <2>3. CASE source[worker.m] # {}
      <3> DEFINE S == source[worker.m]
      <3>1. S \in SUBSET History!Hours /\ S # {}
        BY <1>3, <2>3 DEF HistoryInv, GatewayFits
      <3>2. S \in SUBSET Nat
        BY <3>1, HoursAndDays
      <3> HIDE DEF S
      <3>3. History!Min(S) \in S
        BY <3>1, <3>2, LeastIsIn
      <3>4. History!Day(History!Min(S)) \in History!Days
        BY <3>1, <3>3, HoursAndDays
      <3>5. first = History!Day(History!Min(S))
        BY <2>3 DEF S
      <3> HIDE DEF first
      <3> QED BY <3>4, <3>5, HoursAndDays
    <2> QED BY <2>2, <2>3
  <1> HIDE DEF first
  <1>5. /\ worker' \in Claims /\ worker'.at = "found" /\ worker'.h = first /\ worker'.m = worker.m
        /\ worker'.rev = worker.rev
    BY <1>1, <1>3, <1>4 DEF Claims, Steps
  <1>6. Knows(worker', History!TheJob, member[worker.m], clock.epoch, day[worker.m], hour[worker.m])
    <2>1. member[worker.m].epoch = clock.epoch
      BY <1>1 DEF History!JobCurrent, History!Epoch
    <2>2. History!TheJob.status = "running" => History!TheJob.kind = "discover"
      BY <1>1, <1>3 DEF Knows, KindOf
    <2> QED BY <1>5, <2>1, <2>2 DEF Knows, KindOf
  <1>7. KindOf(worker'.at) = "discover"
    BY <1>5 DEF KindOf
  <1> QED BY <1>1, <1>2, <1>4, <1>5, <1>6, <1>7, SameProofs, OnwardStep DEF Added

\* The least day at which a member can have been known.
LEMMA FloorFits ==
  ASSUME HistoryConstants, HistoryInv, worker # History!Idle
  PROVE  /\ History!Floor(worker.m) \in 0 .. LastHour
         /\ worker.h # 0 => History!Floor(worker.m) <= worker.h
  <1> DEFINE m == worker.m
             d == History!Day(Registered[m])
             known == {d, worker.h} \ {0}
  <1>1. m \in Member /\ worker.h \in 0 .. LastHour /\ LastHour \in Nat
    BY TheWorker, HistoryNumbers DEF Claims
  <1>2. d \in 0 .. LastHour
    <2>1. Registered[m] \in 0 .. LastHour
      BY <1>1, HistoryNumbers
    <2> QED BY <1>1, <2>1, DayOf
  <1>3. History!Floor(m) = IF known = {} THEN 0 ELSE History!Min(known)
    BY DEF History!Floor
  <1>4. known \in SUBSET Nat /\ known \subseteq 0 .. LastHour /\ (worker.h # 0 => worker.h \in known)
    BY <1>1, <1>2
  <1> HIDE DEF d, known
  <1>5. known # {} => History!Min(known) \in known /\ \A y \in known : History!Min(known) <= y
    BY <1>4, LeastIsIn
  <1> QED BY <1>1, <1>3, <1>4, <1>5

\* What is contiguous ends at a midnight, and all before it is complete.
LEMMA ContiguousFits ==
  ASSUME HistoryConstants, HistoryInv, NEW m \in Member, NEW from \in 0 .. LastHour,
         NEW through \in 0 .. LastHour, through % HoursPerDay = 0,
         NEW c, c = History!Contiguous(m, from, through)
  PROVE  /\ c \in 0 .. through /\ c % HoursPerDay = 0
         /\ \A d \in History!Days : from <= d /\ d < c => day[m][d] = "complete"
  <1>1. LastHour \in Nat /\ from \in Nat /\ through \in Nat
    BY HistoryNumbers
  <1>2. CASE from >= through
    <2>1. c = through
      BY <1>2 DEF History!Contiguous
    <2>2. \A d \in History!Days : d \in Nat
      BY HoursAndDays
    <2> QED BY <1>1, <1>2, <2>1, <2>2
  <1>3. CASE ~ (from >= through)
    <2> DEFINE S == {through} \cup {d \in History!Days : from <= d /\ d < through /\ day[m][d] # "complete"}
    <2>1. c = History!Min(S)
      BY <1>3 DEF History!Contiguous
    <2>2. S \in SUBSET Nat /\ S # {} /\ through \in S /\ \A x \in S : x % HoursPerDay = 0
      BY <1>1, HoursAndDays
    <2>3. \A d \in History!Days : from <= d /\ d < through /\ d \notin S => day[m][d] = "complete"
      OBVIOUS
    <2> HIDE DEF S
    <2>4. c \in S /\ \A y \in S : c <= y
      BY <2>1, <2>2, LeastIsIn
    <2>5. c \in 0 .. through /\ c % HoursPerDay = 0
      BY <1>1, <2>2, <2>4
    <2>6. ASSUME NEW d \in History!Days, from <= d, d < c PROVE day[m][d] = "complete"
      <3>1. d \in Nat
        BY HoursAndDays
      <3>2. d < through /\ d \notin S
        BY <1>1, <2>4, <2>5, <2>6, <3>1
      <3> QED BY <2>3, <2>6, <3>2
    <2> QED BY <2>5, <2>6
  <1> QED BY <1>2, <1>3

\* A member that must not be served has a boundary to look for, and no row.
LEMMA RejectedFits ==
  ASSUME HistoryConstants, HistoryInv, worker.at = "found", History!Ours, clock' = clock, day' = day,
         hour' = hour, NEW s, s = member[worker.m], s.active, s.rev = worker.rev, History!Rejected(s)
  PROVE  MembersFit' /\ MembersAgree' /\ ServedFits'
  <1> DEFINE m == worker.m
             j == History!TheJob
             none == History!Floor(m) = 0
             k == [j EXCEPT !.status = "paused"]
             looked == IF none THEN s.checked ELSE "fresh"
             complete == IF none THEN s.complete ELSE FALSE
             u == [s EXCEPT !.history = "open", !.ready = FALSE, !.checked = looked, !.complete = complete]
  <1>1. worker # History!Idle
    BY DEF History!Idle
  <1>2. /\ m \in Member /\ worker.rev \in 1 .. MaxRev /\ j = job[m][worker.rev] /\ j \in History!Job
        /\ JobFits(j) /\ s \in States /\ j.status = "running" /\ j.kind = "discover"
        /\ AgreesWith(s, job[m], clock.epoch, row[m], day[m], hour[m])
    <2>1. j.status = "running" => j.kind = "discover"
      BY <1>1, TheWorker DEF Knows, KindOf
    <2> QED BY <1>1, <2>1, TheWorker, TheMember DEF History!Ours
  <1>3. /\ History!Put(k) /\ member' = [member EXCEPT ![m] = u] /\ History!Revoking({m})
    BY DEF History!Rejected
  <1>4. Writes(m, worker.rev, u, k)
    BY <1>3 DEF Writes, History!Put
  <1>10. looked \in {"never", "fresh", "stale"} /\ complete \in BOOLEAN
    BY <1>2 DEF States
  <1> HIDE DEF looked, complete
  <1>5. /\ u \in States /\ u.history = "open" /\ u.rev = s.rev /\ u.active = s.active /\ u.epoch = s.epoch
    BY <1>2, <1>10 DEF States
  <1>6. k \in History!Job /\ JobFits(k) /\ k.kind = "discover" /\ k.status = "paused"
    BY <1>2 DEF History!Job, JobFits
  <1> HIDE DEF u, k, j
  <1>7. /\ ServedFits'
        /\ \A n \in Member : row'[n] \in {row[n], History!NoRow} /\ (n \in {m} => row'[n] = History!NoRow)
    BY <1>3, RevokingFits
  <1>8. job'[m][worker.rev] = k
    BY <1>2, <1>4, <1>5, <1>6, PutFits
  <1>9. AgreesWith(u, job'[m], clock.epoch, row'[m], day'[m], hour'[m])
    <2>1. u.rev # 0 /\ u.epoch <= clock.epoch
      BY <1>2, <1>5 DEF AgreesWith
    <2>2. row'[m] = History!NoRow
      BY <1>2, <1>7
    <2> QED BY <1>5, <1>6, <1>8, <2>1, <2>2 DEF AgreesWith, Trusts
  <1> QED BY <1>1, <1>4, <1>5, <1>6, <1>7, <1>9, WorkerPuts DEF Added

\* A boundary that is accepted: what was read since the first log counts, and a wider history is published
\* no more.
LEMMA AcceptedFits ==
  ASSUME HistoryConstants, HistoryInv, worker.at = "found", History!Ours, clock' = clock, day' = day,
         hour' = hour, NEW s, s = member[worker.m], s.active, s.rev = worker.rev,
         History!Floor(worker.m) # 0, ~ History!Regressed(s), History!Accepted(s)
  PROVE  MembersFit' /\ MembersAgree' /\ (ServedFits' \/ (row' = row /\ range' = range))
  <1> DEFINE m == worker.m
             e == clock.epoch
             j == History!TheJob
             first == worker.h
             floor == IF s.floor = 0 THEN History!Floor(m) ELSE History!Smaller(s.floor, History!Floor(m))
             earlier == s.first # 0 /\ first < s.first
             wider == s.floor # 0 /\ floor < s.floor
             through == j.through
             edge == History!Day(through)
             c == History!Contiguous(m, History!Larger(first, floor), edge)
             next == IF first = 0 THEN through ELSE History!Smaller(through, c)
             revoked == (s.history = "empty" /\ first # 0) \/ (first # 0 /\ earlier) \/ wider
             complete == s.complete /\ first # 0 /\ ~earlier /\ ~wider
             verify == IF first = 0 THEN floor ELSE IF complete /\ s.verified > first THEN s.verified ELSE first
             kind == IF next >= through THEN "verify" ELSE IF next >= edge THEN "tail" ELSE "backfill"
             k == [j EXCEPT !.status = "queued", !.epoch = e, !.next = next, !.verify = verify, !.kind = kind]
             history == IF first = 0 THEN "empty" ELSE "hot"
             verified == IF first = 0 THEN 0 ELSE s.verified
             cover == History!Smaller(next, edge)
             tail == IF next >= through THEN through ELSE s.tail
             ready == s.ready /\ ~revoked /\ next < through
             u == [s EXCEPT !.epoch = e, !.checked = "fresh", !.floor = floor, !.first = first,
                            !.history = history, !.complete = complete, !.verified = verified,
                            !.cover = cover, !.tail = tail, !.ready = ready]
  <1>1. /\ History!Put(k) /\ member' = [member EXCEPT ![m] = u]
        /\ revoked => History!Revoking({m})
        /\ ~revoked => row' = row /\ range' = range
    BY DEF History!Accepted, History!Epoch
  <1>2. worker # History!Idle
    BY DEF History!Idle
  <1>3. /\ m \in Member /\ worker.rev \in 1 .. MaxRev /\ j = job[m][worker.rev] /\ j \in History!Job
        /\ JobFits(j) /\ s \in States /\ j.status = "running" /\ s.epoch = e
        /\ AgreesWith(s, job[m], e, row[m], day[m], hour[m]) /\ e \in 1 .. MaxEpoch
    <2>1. s.epoch = e
      BY <1>2, TheWorker DEF Knows
    <2>2. e \in 1 .. MaxEpoch
      BY DEF HistoryInv, GatewayFits
    <2> QED BY <1>2, <2>1, <2>2, TheWorker, TheMember DEF History!Ours
  <1>4. /\ LastHour \in Nat /\ first \in 0 .. LastHour /\ first % HoursPerDay = 0
        /\ through \in 0 .. LastHour /\ edge \in 0 .. through /\ edge % HoursPerDay = 0
    <2>1. first % HoursPerDay = 0 /\ first \in 0 .. LastHour
      BY <1>2, TheWorker DEF HistoryInv, WorkerFits, Claims
    <2>2. through \in 0 .. LastHour /\ LastHour \in Nat
      BY <1>3, HistoryNumbers DEF History!Job
    <2> QED BY <2>1, <2>2, DayOf
  <1> HIDE DEF edge, through
  <1>5. floor \in 1 .. LastHour /\ (first # 0 => floor <= first)
    <2>1. /\ History!Floor(m) \in 1 .. LastHour /\ (first # 0 => History!Floor(m) <= first)
      BY <1>2, <1>4, FloorFits
    <2>2. s.floor \in Nat
      BY <1>3 DEF States
    <2>3. floor \in 1 .. LastHour /\ floor <= History!Floor(m)
      BY <1>4, <2>1, <2>2 DEF History!Smaller
    <2> HIDE DEF floor
    <2> QED BY <1>4, <2>1, <2>3
  <1> HIDE DEF floor
  <1>6. /\ c \in 0 .. edge /\ c % HoursPerDay = 0
        /\ first # 0 => \A d \in History!Days : first <= d /\ d < c => day[m][d] = "complete"
    <2> DEFINE from == History!Larger(first, floor)
    <2>1. from \in 0 .. LastHour /\ (first # 0 => from = first)
      BY <1>4, <1>5 DEF History!Larger
    <2>2. edge \in 0 .. LastHour
      BY <1>4
    <2>3. c = History!Contiguous(m, from, edge)
      OBVIOUS
    <2> HIDE DEF from, c
    <2>4. /\ c \in 0 .. edge /\ c % HoursPerDay = 0
          /\ \A d \in History!Days : from <= d /\ d < c => day[m][d] = "complete"
      BY <1>3, <1>4, <2>1, <2>2, <2>3, ContiguousFits
    <2> QED BY <2>1, <2>4
  <1> HIDE DEF c
  <1>7. next \in 0 .. through /\ (next < edge => next = c) /\ (first # 0 => next <= c)
        /\ (next >= through => next = through)
    BY <1>4, <1>6 DEF History!Smaller
  <1> HIDE DEF next
  <1>8. /\ kind \in {"verify", "tail", "backfill"} /\ (kind = "backfill" => next < edge)
        /\ (kind = "verify" => next >= through)
    BY <1>4, <1>7
  <1>9. complete \in BOOLEAN /\ verified \in 0 .. LastHour /\ verify \in 0 .. LastHour
    <2>1. s.complete \in BOOLEAN /\ s.verified \in 0 .. LastHour
      BY <1>3 DEF States
    <2>2. floor \in 0 .. LastHour
      BY <1>5
    <2> HIDE DEF earlier, wider
    <2> QED BY <1>4, <2>1, <2>2
  <1>10. /\ cover \in 0 .. LastHour /\ tail \in 0 .. LastHour /\ ready \in BOOLEAN
    <2>1. s.ready \in BOOLEAN /\ s.tail \in 0 .. LastHour
      BY <1>3 DEF States
    <2> HIDE DEF revoked
    <2> QED BY <1>4, <1>7, <2>1 DEF History!Smaller
  <1> HIDE DEF kind, verified, verify, complete, cover, ready
  <1>11. /\ k \in History!Job /\ k.kind = kind /\ k.next = next /\ k.status = "queued" /\ JobFits(k)
    <2>1. k.kind = kind /\ k.next = next /\ k.status = "queued" /\ k.attempts = j.attempts
      BY <1>3 DEF History!Job
    <2>2. next \in 0 .. LastHour /\ e \in 0 .. MaxEpoch
      BY <1>3, <1>4, <1>7
    <2>3. k \in History!Job
      BY <1>3, <1>8, <1>9, <2>2 DEF History!Job
    <2>4. j.attempts < MaxTries
      BY <1>3 DEF JobFits
    <2> HIDE DEF k, j
    <2> QED BY <1>6, <1>7, <1>8, <2>1, <2>3, <2>4 DEF JobFits
  <1>12. /\ u \in States /\ u.active /\ u.rev = s.rev /\ u.epoch = e /\ u.checked = "fresh"
         /\ u.floor = floor /\ u.first = first /\ u.history = history /\ u.tail = tail
    <2>1. floor \in Nat /\ e \in 0 .. MaxEpoch /\ history \in {"empty", "hot"}
      BY <1>3, <1>5
    <2>2. first \in 0 .. LastHour /\ s \in States /\ s.active
      BY <1>3, <1>4
    <2> HIDE DEF tail, history, first, e
    <2>3. u \in States
      <3> DEFINE H == 0 .. LastHour
                 R == 0 .. MaxRev
                 E == 0 .. MaxEpoch
      <3>1. States = [active : BOOLEAN, rev : R, epoch : E, floor : Nat, first : H,
                      checked : {"never", "fresh", "stale"}, cover : H, tail : H, verified : H,
                      ready : BOOLEAN, complete : BOOLEAN, history : {"open", "empty", "hot"}]
        BY DEF States
      <3>2. /\ first \in H /\ tail \in H /\ cover \in H /\ verified \in H /\ e \in E /\ floor \in Nat
            /\ complete \in BOOLEAN /\ ready \in BOOLEAN /\ history \in {"open", "empty", "hot"}
            /\ "fresh" \in {"never", "fresh", "stale"}
        BY <1>9, <1>10, <2>1, <2>2
      <3> HIDE DEF H, R, E
      <3> QED BY <2>2, <3>1, <3>2
    <2>4. /\ u.active = s.active /\ u.rev = s.rev /\ u.epoch = e /\ u.checked = "fresh"
          /\ u.floor = floor /\ u.first = first /\ u.history = history /\ u.tail = tail
      BY <2>2 DEF States
    <2> QED BY <2>2, <2>3, <2>4
  <1>13. Writes(m, worker.rev, u, k)
    BY <1>1 DEF Writes, History!Put
  <1> HIDE DEF u, k, j
  <1>14. job'[m][worker.rev] = k
    BY <1>3, <1>11, <1>12, <1>13, PutFits
  <1>15. /\ ServedFits' \/ (row' = row /\ range' = range)
         /\ \A n \in Member : row'[n] \in {row[n], History!NoRow}
         /\ row'[m] # History!NoRow => ~revoked /\ row'[m] = row[m]
    <2>1. CASE revoked
      <3>1. History!Revoking({m})
        BY <1>1, <2>1
      <3>2. /\ ServedFits'
            /\ \A n \in Member : row'[n] \in {row[n], History!NoRow} /\ (n \in {m} => row'[n] = History!NoRow)
        BY <3>1, RevokingFits
      <3> QED BY <1>3, <3>2
    <2>2. CASE ~revoked
      BY <1>1, <2>2
    <2> QED BY <2>1, <2>2
  <1>16. first # 0 => ReadUpTo(first, day[m], hour[m], e, next)
    <2>1. SUFFICES ASSUME first # 0 PROVE ReadUpTo(first, day[m], hour[m], e, next)
      OBVIOUS
    <2>2. first \in Nat /\ c \in Nat /\ next \in Nat /\ next <= c
      BY <1>4, <1>6, <1>7, <2>1
    <2> HIDE DEF first
    <2>3. ReadUpTo(first, day[m], hour[m], e, c)
      BY <1>4, <1>6, <2>1, <2>2, ReadContiguous
    <2> QED BY <2>2, <2>3, ReadLess
  <1>17. row'[m] # History!NoRow /\ first # 0 => ReadUpTo(first, day[m], hour[m], e, tail)
    <2>1. SUFFICES ASSUME row'[m] # History!NoRow, first # 0
                   PROVE  ReadUpTo(first, day[m], hour[m], e, tail)
      OBVIOUS
    <2>2. CASE next >= through
      BY <1>7, <1>16, <2>1, <2>2
    <2>3. CASE ~ (next >= through)
      <3>1. tail = s.tail /\ row[m] # History!NoRow /\ ~revoked
        BY <1>15, <2>1, <2>3
      <3>2. s.history \in {"open", "hot"} /\ s.first \in 0 .. LastHour
        BY <1>3, <2>1, <3>1 DEF States
      <3>3. CASE s.history = "open"
        <4>1. s.tail = 0
          BY <1>3, <3>1, <3>3 DEF AgreesWith
        <4> QED BY <3>1, <4>1, ReadNothing
      <3>4. CASE s.history = "hot"
        <4>1. s.first > 0
          BY <1>3, <3>4 DEF AgreesWith
        <4>2. ~ (first < s.first) /\ ~ (first > s.first)
          BY <2>1, <3>1, <4>1 DEF History!Regressed
        <4>3. first = s.first
          BY <1>4, <3>2, <4>2
        <4>4. ReadUpTo(s.first, day[m], hour[m], e, s.tail)
          BY <1>3, <3>1, <3>4 DEF AgreesWith, Trusts
        <4> QED BY <3>1, <4>3, <4>4
      <3> QED BY <3>2, <3>3, <3>4
    <2> QED BY <2>2, <2>3
  <1>18. AgreesWith(u, job'[m], e, row'[m], day'[m], hour'[m])
    <2>1. u.rev # 0 /\ u.epoch <= e /\ u.floor > 0
      BY <1>3, <1>5, <1>12
    <2>2. history \in {"empty", "hot"} /\ (history = "hot" => first > 0 /\ first # 0)
      BY <1>4
    <2>3. k.kind = "verify" => tail <= next
      BY <1>4, <1>7, <1>8, <1>11
    <2> HIDE DEF history, first, tail
    <2> QED BY <1>11, <1>12, <1>14, <1>16, <1>17, <2>1, <2>2, <2>3 DEF AgreesWith, Trusts
  <1> QED BY <1>2, <1>11, <1>12, <1>13, <1>15, <1>18, WorkerPuts DEF Added

LEMMA DiscoverStep ==
  ASSUME HistoryConstants, HistoryInv, History!Discover
  PROVE  HistoryInv'
  <1> DEFINE s == member[worker.m]
  <1>1. /\ UNCHANGED <<control, source, clock, day, hour, loop, seen, faults>>
        /\ worker' = History!Idle /\ worker.at = "found"
    BY DEF History!Discover
  <1>2. worker # History!Idle
    BY <1>1 DEF History!Idle
  <1>3. \/ job' = job /\ member' = member /\ row' = row /\ range' = range
        \/ History!Ours /\ s.active /\ s.rev = worker.rev /\ History!Rejected(s)
        \/ /\ History!Ours /\ s.active /\ s.rev = worker.rev
           /\ History!Floor(worker.m) # 0 /\ ~ History!Regressed(s) /\ History!Accepted(s)
    BY DEF History!Discover
  <1>4. MembersFit' /\ MembersAgree' /\ (ServedFits' \/ (row' = row /\ range' = range))
    <2>1. CASE job' = job /\ member' = member /\ row' = row /\ range' = range
      BY <1>1, <2>1, SameMembers, MembersGoOn DEF Alike, Moves, Added
    <2> HIDE DEF s
    <2>2. s = member[worker.m]
      BY DEF s
    <2>3. CASE History!Ours /\ s.active /\ s.rev = worker.rev /\ History!Rejected(s)
      BY <1>1, <2>2, <2>3, RejectedFits
    <2>4. CASE /\ History!Ours /\ s.active /\ s.rev = worker.rev
               /\ History!Floor(worker.m) # 0 /\ ~ History!Regressed(s) /\ History!Accepted(s)
      BY <1>1, <2>2, <2>4, AcceptedFits
    <2> QED BY <1>3, <2>1, <2>3, <2>4 DEF s
  <1> QED BY <1>1, <1>4, SameProofs, DoneStep

-----------------------------------------------------------------------------
(* Import of whole days.                                                    *)

\* The worker and what it knows, at a step that is not idle.
LEMMA AtWork ==
  ASSUME HistoryConstants, HistoryInv, worker.at \in Steps
  PROVE  /\ worker # History!Idle /\ worker \in Claims /\ worker.m \in Member /\ worker.rev \in 1 .. MaxRev
         /\ History!TheJob = job[worker.m][worker.rev] /\ History!TheJob \in History!Job
         /\ JobFits(History!TheJob) /\ member[worker.m] \in States
         /\ Knows(worker, History!TheJob, member[worker.m], clock.epoch, day[worker.m], hour[worker.m])
         /\ AgreesWith(member[worker.m], job[worker.m], clock.epoch, row[worker.m], day[worker.m],
                       hour[worker.m])
  <1>1. worker # History!Idle
    BY DEF History!Idle, Steps
  <1>2. worker.m \in Member
    BY <1>1, TheWorker
  <1> QED BY <1>1, <1>2, TheWorker, TheMember

\* A member whose job the worker runs is active, and its boundary is known unless the job looks for it.
LEMMA RunsActive ==
  ASSUME HistoryConstants, HistoryInv, worker.at \in Steps, History!Ours,
         member[worker.m].rev = worker.rev
  PROVE  /\ member[worker.m].active
         /\ KindOf(worker.at) # "discover" => member[worker.m].history # "open"
  <1> DEFINE s == member[worker.m]
             j == History!TheJob
  <1>1. /\ j = job[worker.m][s.rev] /\ j.status = "running" /\ j.kind = KindOf(worker.at) /\ s.rev # 0
        /\ AgreesWith(s, job[worker.m], clock.epoch, row[worker.m], day[worker.m], hour[worker.m])
        /\ s \in States
    BY AtWork DEF Knows, History!Ours
  <1>2. ~ History!Terminal(j)
    BY <1>1 DEF History!Terminal
  <1>3. s.active \in BOOLEAN
    BY <1>1 DEF States
  <1> HIDE DEF s, j
  <1>4. s.active /\ (KindOf(worker.at) # "discover" => s.history # "open")
    BY <1>1, <1>2, <1>3 DEF AgreesWith
  <1> QED BY <1>4 DEF s

LEMMA FetchStep ==
  ASSUME HistoryConstants, HistoryInv, History!Fetch \/ History!CheckRevision
  PROVE  HistoryInv'
  <1>1. /\ UNCHANGED <<control, source, clock, member, job, day, hour, row, range, loop, seen>>
        /\ faults' = faults /\ worker.at \in {"backfill", "fetching"}
    BY DEF History!Fetch, History!CheckRevision
  <1>2. PICK at \in {"fetching", "checked"} : worker' = [worker EXCEPT !.at = at]
    BY DEF History!Fetch, History!CheckRevision
  <1>3. worker.at \in Steps
    BY <1>1 DEF Steps
  <1>4. /\ worker # History!Idle /\ worker \in Claims
        /\ Knows(worker, History!TheJob, member[worker.m], clock.epoch, day[worker.m], hour[worker.m])
    BY <1>3, AtWork
  <1>5. /\ worker' \in Claims /\ worker'.at = at /\ worker'.m = worker.m /\ worker'.rev = worker.rev
        /\ worker'.h = worker.h /\ worker'.through = worker.through
    BY <1>2, <1>4 DEF Claims, Steps
  <1>6. KindOf(worker.at) = "backfill" /\ KindOf(at) = "backfill"
    BY <1>1 DEF KindOf
  <1>7. worker.h % HoursPerDay = 0 /\ worker.through <= LastHour /\ worker.through % HoursPerDay = 0
    BY <1>4, <1>6 DEF HistoryInv, WorkerFits
  <1>8. Knows(worker', History!TheJob, member[worker.m], clock.epoch, day[worker.m], hour[worker.m])
    BY <1>4, <1>5, <1>6 DEF Knows
  <1> QED BY <1>1, <1>4, <1>5, <1>6, <1>7, <1>8, SameProofs, OnwardStep DEF Added

LEMMA BackfillStep ==
  ASSUME HistoryConstants, HistoryInv, History!Backfill
  PROVE  HistoryInv'
  <1> DEFINE m == worker.m
             days == [d \in History!Days |-> IF worker.h <= d /\ d < worker.through THEN "complete" ELSE day[m][d]]
  <1>1. /\ UNCHANGED <<control, source, clock, hour, row, range, loop, seen>>
        /\ faults' = faults /\ worker.at = "checked" /\ day' = [day EXCEPT ![m] = days]
        /\ \/ worker' = [worker EXCEPT !.at = "imported"] /\ job' = job /\ member' = member
           \/ worker' = History!Idle /\ History!Released(TRUE)
    BY DEF History!Backfill
  <1>2. worker.at \in Steps
    BY <1>1 DEF Steps
  <1>3. /\ worker # History!Idle /\ worker \in Claims /\ m \in Member
        /\ Knows(worker, History!TheJob, member[m], clock.epoch, day[m], hour[m])
    BY <1>2, AtWork
  <1>4. day \in [Member -> [History!Days -> {"none", "pending", "complete"}]]
    BY DEF HistoryInv, ProofsFit
  <1>5. days \in [History!Days -> {"none", "pending", "complete"}]
    BY <1>3, <1>4
  <1>6. /\ day' \in [Member -> [History!Days -> {"none", "pending", "complete"}]] /\ day'[m] = days
        /\ \A n \in Member \ {m} : day'[n] = day[n]
    <2> HIDE DEF days
    <2> QED BY <1>1, <1>3, <1>4, <1>5
  <1>7. /\ \A n \in Member : Added(day[n], hour[n], day'[n], hour'[n], clock.epoch)
        /\ \A d \in History!Days : worker.h <= d /\ d < worker.through => day'[m][d] = "complete"
    BY <1>1, <1>6 DEF Added
  <1>8. ProofsFit'
    BY <1>1, <1>6 DEF HistoryInv, ProofsFit, History!Days, History!Hours, History!Day
  <1>9. CASE worker' = [worker EXCEPT !.at = "imported"] /\ job' = job /\ member' = member
    <2>1. /\ worker' \in Claims /\ worker'.at = "imported" /\ worker'.m = worker.m /\ worker'.rev = worker.rev
          /\ worker'.h = worker.h /\ worker'.through = worker.through
      BY <1>3, <1>9 DEF Claims, Steps
    <2>2. KindOf(worker.at) = "backfill" /\ KindOf("imported") = "backfill"
      BY <1>1 DEF KindOf
    <2>3. worker.h % HoursPerDay = 0 /\ worker.through <= LastHour /\ worker.through % HoursPerDay = 0
      BY <1>3, <2>2 DEF HistoryInv, WorkerFits
    <2>4. Knows(worker', History!TheJob, member[m], clock.epoch, day'[m], hour'[m])
      <3> HIDE DEF days
      <3> QED BY <1>3, <1>7, <2>1, <2>2 DEF Knows
    <2> QED BY <1>1, <1>3, <1>7, <1>8, <1>9, <2>1, <2>3, <2>4, OnwardStep
  <1>10. CASE worker' = History!Idle /\ History!Released(TRUE)
    <2>1. \A n \in Member : row'[n] \in {row[n], History!NoRow}
      BY <1>1
    <2>2. MembersFit' /\ MembersAgree'
      BY <1>1, <1>3, <1>7, <1>10, <2>1, ReleasedFits
    <2> QED BY <1>1, <1>8, <1>10, <2>2, DoneStep
  <1> QED BY <1>1, <1>9, <1>10

\* What was imported counts for the job that imported it.
LEMMA MoveBackfillStep ==
  ASSUME HistoryConstants, HistoryInv, History!MoveBackfill
  PROVE  HistoryInv'
  <1> DEFINE m == worker.m
             e == clock.epoch
             s == member[m]
             j == History!TheJob
             next == worker.through
             done == next >= j.through
             kind == IF done THEN "verify" ELSE IF next >= History!Day(j.through) THEN "tail" ELSE "backfill"
             k == [j EXCEPT !.status = "queued", !.next = next, !.kind = kind]
             tail == IF done THEN j.through ELSE s.tail
             u == [s EXCEPT !.cover = next, !.ready = FALSE, !.tail = tail]
             away == ~s.active \/ s.rev # worker.rev
  <1>1. /\ UNCHANGED <<control, source, clock, day, hour, row, range, loop, seen, faults>>
        /\ worker' = History!Idle /\ worker.at = "imported"
        /\ \/ job' = job /\ member' = member
           \/ /\ History!Ours /\ j.next = worker.h /\ History!Put(k)
              /\ member' = IF away THEN member ELSE [member EXCEPT ![m] = u]
    BY DEF History!MoveBackfill
  <1>2. worker.at \in Steps /\ KindOf(worker.at) = "backfill"
    BY <1>1 DEF Steps, KindOf
  <1>3. /\ worker # History!Idle /\ m \in Member /\ worker.rev \in 1 .. MaxRev
        /\ j = job[m][worker.rev] /\ j \in History!Job /\ JobFits(j) /\ s \in States
        /\ Knows(worker, j, s, e, day[m], hour[m]) /\ AgreesWith(s, job[m], e, row[m], day[m], hour[m])
    BY <1>2, AtWork
  <1>4. /\ worker.h % HoursPerDay = 0 /\ next % HoursPerDay = 0 /\ next \in 0 .. LastHour /\ worker.h \in Nat
        /\ j.through \in 0 .. LastHour /\ LastHour \in Nat
    <2>1. /\ worker.h % HoursPerDay = 0 /\ next <= LastHour /\ next % HoursPerDay = 0
      BY <1>2, <1>3 DEF HistoryInv, WorkerFits
    <2>2. next \in 0 .. LastHour + 1 /\ worker.h \in 0 .. LastHour /\ LastHour \in Nat
      BY <1>2, AtWork, HistoryNumbers DEF Claims
    <2> QED BY <1>3, <2>1, <2>2 DEF History!Job
  <1>5. CASE job' = job /\ member' = member
    <2>1. MembersFit' /\ MembersAgree'
      BY <1>1, <1>5, SameMembers, MembersGoOn DEF Alike, Moves, Added
    <2> QED BY <1>1, <2>1, SameProofs, DoneStep
  <1>6. CASE /\ History!Ours /\ j.next = worker.h /\ History!Put(k)
             /\ member' = IF away THEN member ELSE [member EXCEPT ![m] = u]
    <2>1. j.status = "running"
      BY <1>6 DEF History!Ours
    <2>2. /\ kind \in {"verify", "tail", "backfill"} /\ (kind = "verify" => done)
      BY <1>4
    <2> HIDE DEF kind
    <2>3. /\ k \in History!Job /\ JobFits(k) /\ k.kind = kind /\ k.next = next /\ k.status = "queued"
      <3> HIDE DEF next
      <3> QED BY <1>3, <1>4, <2>1, <2>2 DEF History!Job, JobFits
    <2>4. u \in States /\ u.active = s.active /\ u.rev = s.rev /\ u.epoch = s.epoch /\ u.floor = s.floor
          /\ u.first = s.first /\ u.tail = tail /\ u.history = s.history /\ u.checked = s.checked
      <3>1. tail \in 0 .. LastHour
        BY <1>3, <1>4 DEF States
      <3> HIDE DEF next, tail
      <3> QED BY <1>3, <1>4, <3>1 DEF States
    <2>5. CASE s.rev = worker.rev
      <3>1. s.active /\ s.history # "open"
        BY <1>2, <1>6, <2>5, RunsActive
      <3>2. member' = [member EXCEPT ![m] = u]
        BY <1>6, <2>5, <3>1
      <3>3. Writes(m, worker.rev, u, k)
        BY <1>6, <3>2 DEF Writes, History!Put
      <3> HIDE DEF u, k, j
      <3>4. job'[m][worker.rev] = k
        BY <1>3, <2>3, <2>4, <3>3, PutFits
      <3>5. Trusts(s, e) => ReadUpTo(s.first, day[m], hour[m], e, next)
        <4>1. SUFFICES ASSUME Trusts(s, e) PROVE ReadUpTo(s.first, day[m], hour[m], e, next)
          OBVIOUS
        <4>2. ReadUpTo(s.first, day[m], hour[m], e, worker.h)
          BY <1>3, <1>6, <2>5, <4>1 DEF AgreesWith
        <4>3. \A d \in History!Days : worker.h <= d /\ d < next => day[m][d] = "complete"
          BY <1>1, <1>3, <4>1 DEF Knows
        <4> HIDE DEF s
        <4> QED BY <1>4, <4>2, <4>3, ReadDays
      <3>6. Trusts(s, e) /\ row[m] # History!NoRow => ReadUpTo(s.first, day[m], hour[m], e, tail)
        <4>1. CASE done
          <5>1. tail = j.through /\ j.through <= next
            BY <1>4, <4>1
          <5> HIDE DEF s, tail, next
          <5> QED BY <1>4, <3>5, <5>1, ReadLess
        <4>2. CASE ~done
          BY <1>3, <4>2 DEF AgreesWith
        <4> QED BY <4>1, <4>2
      <3>7. k.kind = "verify" => tail <= next
        BY <1>4, <2>2, <2>3
      <3>8. AgreesWith(u, job'[m], e, row'[m], day'[m], hour'[m])
        <4> HIDE DEF s, tail, next
        <4> QED BY <1>1, <1>3, <2>3, <2>4, <2>5, <3>1, <3>4, <3>5, <3>6, <3>7 DEF AgreesWith, Trusts
      <3>9. MembersFit' /\ MembersAgree'
        BY <1>1, <1>3, <2>3, <2>4, <3>3, <3>8, WorkerPuts DEF Added
      <3> QED BY <1>1, <3>9, SameProofs, DoneStep
    <2>6. CASE s.rev # worker.rev
      <3>1. member' = [member EXCEPT ![m] = s]
        BY <1>6, <2>6 DEF HistoryInv, MembersFit
      <3>2. Writes(m, worker.rev, s, k)
        BY <1>6, <3>1 DEF Writes, History!Put
      <3>3. Alike(s, s)
        BY DEF Alike
      <3> HIDE DEF k
      <3>4. MembersFit' /\ MembersAgree'
        BY <1>1, <1>3, <2>3, <2>6, <3>2, <3>3, WorkerPuts DEF Added
      <3> QED BY <1>1, <3>4, SameProofs, DoneStep
    <2> QED BY <2>5, <2>6
  <1> QED BY <1>1, <1>5, <1>6

\* A day that is too much for one query is read hour by hour.
LEMMA DowngradeStep ==
  ASSUME HistoryConstants, HistoryInv, History!Downgrade
  PROVE  HistoryInv'
  <1> DEFINE m == worker.m
             e == clock.epoch
             s == member[m]
             j == History!TheJob
             k == [j EXCEPT !.status = "queued", !.kind = "tail", !.next = worker.h, !.attempts = 0]
  <1>1. /\ UNCHANGED <<control, source, clock, day, hour, row, range, loop, seen>>
        /\ faults < MaxFaults /\ faults' = faults + 1 /\ worker' = History!Idle
        /\ worker.at = "fetching"
        /\ \/ job' = job /\ member' = member
           \/ History!Ours /\ History!Put(k) /\ member' \in {member, [member EXCEPT ![m].ready = FALSE]}
    BY DEF History!Downgrade
  <1>2. worker.at \in Steps /\ KindOf(worker.at) = "backfill"
    BY <1>1 DEF Steps, KindOf
  <1>3. /\ worker # History!Idle /\ m \in Member /\ worker.rev \in 1 .. MaxRev
        /\ j = job[m][worker.rev] /\ j \in History!Job /\ JobFits(j) /\ s \in States
        /\ Knows(worker, j, s, e, day[m], hour[m]) /\ AgreesWith(s, job[m], e, row[m], day[m], hour[m])
    BY <1>2, AtWork
  <1>4. CASE job' = job /\ member' = member
    <2>1. MembersFit' /\ MembersAgree'
      BY <1>1, <1>4, SameMembers, MembersGoOn DEF Alike, Moves, Added
    <2> QED BY <1>1, <2>1, SameProofs, DoneStep
  <1>5. CASE History!Ours /\ History!Put(k) /\ member' \in {member, [member EXCEPT ![m].ready = FALSE]}
    <2>1. j.status = "running" /\ j.kind = "backfill" /\ j.next = worker.h
      BY <1>2, <1>3, <1>5 DEF History!Ours, Knows
    <2>2. /\ k \in History!Job /\ JobFits(k) /\ k.kind = "tail" /\ k.next = j.next /\ k.status = "queued"
      <3>1. 0 \in 0 .. MaxTries /\ 0 < MaxTries
        BY HistoryNumbers
      <3> QED BY <1>3, <2>1, <3>1 DEF History!Job, JobFits
    <2>3. PICK u \in {s, [s EXCEPT !.ready = FALSE]} : member' = [member EXCEPT ![m] = u]
      <3>1. member \in [Member -> States]
        BY DEF HistoryInv, MembersFit
      <3>2. CASE member' = member
        BY <1>3, <3>1, <3>2
      <3>3. CASE member' = [member EXCEPT ![m].ready = FALSE]
        BY <1>3, <3>1, <3>3
      <3> QED BY <1>5, <3>2, <3>3
    <2>4. u \in States /\ Alike(s, u)
      BY <1>3 DEF States, Alike
    <2>5. Writes(m, worker.rev, u, k)
      BY <1>5, <2>3 DEF Writes, History!Put
    <2> HIDE DEF k, j
    <2>6. job'[m][worker.rev] = k
      BY <1>3, <2>2, <2>4, <2>5, PutFits
    <2>7. CASE s.rev = worker.rev
      <3>1. s.active /\ s.history # "open"
        BY <1>2, <1>5, <2>7, RunsActive
      <3>2. AgreesWith(s, job'[m], e, row'[m], day'[m], hour'[m])
        <4> HIDE DEF s
        <4> QED BY <1>1, <1>3, <2>1, <2>2, <2>6, <2>7, <3>1 DEF AgreesWith
      <3>3. AgreesWith(u, job'[m], e, row'[m], day'[m], hour'[m])
        BY <2>4, <3>2, AgreesState
      <3>4. MembersFit' /\ MembersAgree'
        BY <1>1, <1>3, <2>2, <2>4, <2>5, <3>3, WorkerPuts DEF Added
      <3> QED BY <1>1, <3>4, SameProofs, DoneStep
    <2>8. CASE s.rev # worker.rev
      <3>1. u.rev # worker.rev
        BY <2>4, <2>8 DEF Alike
      <3>2. MembersFit' /\ MembersAgree'
        BY <1>1, <1>3, <2>2, <2>4, <2>5, <3>1, WorkerPuts DEF Added
      <3> QED BY <1>1, <3>2, SameProofs, DoneStep
    <2> QED BY <2>7, <2>8
  <1> QED BY <1>1, <1>4, <1>5

-----------------------------------------------------------------------------
(* Hour by hour.                                                            *)

LEMMA TailClaimsStep ==
  ASSUME HistoryConstants, HistoryInv, History!TailClaims
  PROVE  HistoryInv'
  <1> DEFINE m == worker.m
  <1>1. /\ UNCHANGED <<control, source, clock, member, job, day, row, range, loop, seen, faults>>
        /\ worker.at = "tail" /\ worker.h \in History!Hours
        /\ \/ History!Proved(m, worker.h) /\ hour' = hour /\ worker' = [worker EXCEPT !.at = "ending"]
           \/ History!ClaimHour(m, worker.h) /\ worker' = [worker EXCEPT !.at = "reading"]
    BY DEF History!TailClaims
  <1>2. worker.at \in Steps /\ KindOf(worker.at) = "tail"
    BY <1>1 DEF Steps, KindOf
  <1>3. /\ worker # History!Idle /\ worker \in Claims /\ m \in Member
        /\ Knows(worker, History!TheJob, member[m], clock.epoch, day[m], hour[m])
    BY <1>2, AtWork
  <1>4. ProofsFit' /\ \A n \in Member : Added(day[n], hour[n], day'[n], hour'[n], clock.epoch)
    <2>1. CASE hour' = hour
      BY <1>1, <2>1, SameProofs DEF Added
    <2>2. CASE History!ClaimHour(m, worker.h)
      BY <1>1, <1>3, <2>2, HourKeepsSource
    <2> QED BY <1>1, <2>1, <2>2
  <1>5. PICK at \in {"ending", "reading"} :
          /\ worker' = [worker EXCEPT !.at = at]
          /\ at = "ending" => History!Proved(m, worker.h) /\ hour' = hour
    BY <1>1
  <1>6. /\ worker' \in Claims /\ worker'.at = at /\ worker'.m = worker.m /\ worker'.rev = worker.rev
        /\ worker'.h = worker.h
    BY <1>3, <1>5 DEF Claims, Steps
  <1>7. KindOf(at) = "tail"
    BY DEF KindOf
  <1>8. at = "ending" => hour'[m][worker.h].epoch = clock.epoch
    BY <1>5 DEF History!Proved, History!Epoch
  <1>9. Knows(worker', History!TheJob, member[m], clock.epoch, day'[m], hour'[m])
    BY <1>2, <1>3, <1>6, <1>7, <1>8 DEF Knows
  <1> QED BY <1>1, <1>3, <1>4, <1>6, <1>7, <1>9, OnwardStep

LEMMA TailBusyStep ==
  ASSUME HistoryConstants, HistoryInv, History!TailBusy
  PROVE  HistoryInv'
  <1>1. /\ UNCHANGED <<control, source, clock, day, hour, row, range, loop, seen>>
        /\ worker' = History!Idle
        /\ faults' = faults /\ History!Released(FALSE) /\ worker.at \in Steps
    BY DEF History!TailBusy, Steps
  <1>2. MembersFit' /\ MembersAgree'
    BY <1>1, AtWork, ReleasedFits DEF Added
  <1> QED BY <1>1, <1>2, SameProofs, DoneStep

LEMMA TailReadsStep ==
  ASSUME HistoryConstants, HistoryInv, History!TailReads
  PROVE  HistoryInv'
  <1> DEFINE m == worker.m
  <1>1. /\ UNCHANGED <<control, source, clock, day, loop, seen, faults>> /\ worker.at = "reading"
        /\ History!CommitHour(m, worker.h)
        /\ worker' = IF History!Invalidates(m, worker.h) THEN History!Idle ELSE [worker EXCEPT !.at = "ending"]
    BY DEF History!TailReads
  <1>2. worker.at \in Steps /\ KindOf(worker.at) = "tail"
    BY <1>1 DEF Steps, KindOf
  <1>3. /\ worker # History!Idle /\ worker \in Claims /\ m \in Member /\ worker.rev \in 1 .. MaxRev
        /\ Knows(worker, History!TheJob, member[m], clock.epoch, day[m], hour[m])
    BY <1>2, AtWork
  <1>4. worker.h \in History!Hours
    BY <1>1, <1>3 DEF HistoryInv, WorkerFits
  <1>5. /\ ProofsFit' /\ MembersFit' /\ ServedFits' /\ MembersAgree'
        /\ hour'[m][worker.h].epoch = clock.epoch
        /\ ~ History!Invalidates(m, worker.h) => job' = job /\ member' = member
    BY <1>1, <1>3, <1>4, CommitFits
  <1>6. CASE History!Invalidates(m, worker.h)
    BY <1>1, <1>5, <1>6, DoneStep
  <1>7. CASE ~ History!Invalidates(m, worker.h)
    <2>1. /\ worker' \in Claims /\ worker'.at = "ending" /\ worker'.m = worker.m /\ worker'.rev = worker.rev
          /\ worker'.h = worker.h
      BY <1>1, <1>3, <1>7 DEF Claims, Steps
    <2>2. KindOf("ending") = "tail"
      BY DEF KindOf
    <2>3. Knows(worker', History!TheJob, member[m], clock.epoch, day'[m], hour'[m])
      BY <1>2, <1>3, <1>5, <2>1, <2>2 DEF Knows
    <2>4. WorkerKnows'
      BY <1>1, <1>5, <1>7, <2>1, <2>3 DEF WorkerKnows, History!TheJob
    <2>5. WorkerFits'
      <3>1. loop' \in [at : {"reading", "ending"}, m : Member, h : History!Hours] \cup {History!Idle}
        BY <1>1 DEF HistoryInv, WorkerFits
      <3>2. worker' \in Claims /\ worker'.h \in History!Hours
        BY <1>4, <2>1
      <3> QED BY <2>1, <3>1, <3>2 DEF WorkerFits, KindOf, Claims, History!Idle, History!Hours
    <2> QED BY <1>1, <1>5, <2>4, <2>5, SameGateway DEF HistoryInv
  <1> QED BY <1>6, <1>7

LEMMA TailFailsStep ==
  ASSUME HistoryConstants, HistoryInv, History!TailFails
  PROVE  HistoryInv'
  <1>1. /\ UNCHANGED <<control, source, clock, day, row, range, loop, seen>>
        /\ worker' = History!Idle /\ faults < MaxFaults /\ faults' = faults + 1
        /\ worker.at = "reading"
        /\ History!HourFails(worker.m, worker.h)
        /\ \E counted \in BOOLEAN : History!Released(counted)
    BY DEF History!TailFails
  <1>2. worker.at \in Steps
    BY <1>1 DEF Steps
  <1>3. worker # History!Idle /\ worker.m \in Member
    BY <1>2, AtWork
  <1>4. worker.h \in History!Hours
    BY <1>1, <1>3 DEF HistoryInv, WorkerFits
  <1>5. ProofsFit' /\ \A n \in Member : Added(day[n], hour[n], day'[n], hour'[n], clock.epoch)
    BY <1>1, <1>3, <1>4, HourKeepsSource
  <1>6. \A n \in Member : row'[n] \in {row[n], History!NoRow}
    BY <1>1
  <1>7. MembersFit' /\ MembersAgree'
    BY <1>1, <1>3, <1>5, <1>6, ReleasedFits
  <1> QED BY <1>1, <1>5, <1>7, DoneStep

LEMMA TailEndsDayStep ==
  ASSUME HistoryConstants, HistoryInv, History!TailEndsDay
  PROVE  HistoryInv'
  <1> DEFINE m == worker.m
             d == History!Day(worker.h)
  <1>1. /\ UNCHANGED <<control, source, clock, hour, row, range, loop, seen, faults>>
        /\ worker.at = "ending"
        /\ \/ worker' = History!Idle /\ History!Released(TRUE) /\ day' = day
           \/ /\ worker' = [worker EXCEPT !.at = "read"] /\ job' = job /\ member' = member
              /\ (~ History!EndsDay(worker.h) /\ day' = day) \/ History!Finalize(m, d)
    BY DEF History!TailEndsDay
  <1>2. worker.at \in Steps /\ KindOf(worker.at) = "tail"
    BY <1>1 DEF Steps, KindOf
  <1>3. /\ worker # History!Idle /\ worker \in Claims /\ m \in Member
        /\ Knows(worker, History!TheJob, member[m], clock.epoch, day[m], hour[m])
    BY <1>2, AtWork
  <1>4. worker.h \in History!Hours
    BY <1>1, <1>3 DEF HistoryInv, WorkerFits
  <1>5. CASE worker' = History!Idle /\ History!Released(TRUE) /\ day' = day
    <2>1. MembersFit' /\ MembersAgree'
      BY <1>1, <1>3, <1>5, ReleasedFits DEF Added
    <2> QED BY <1>1, <1>5, <2>1, SameProofs, DoneStep
  <1>6. CASE /\ worker' = [worker EXCEPT !.at = "read"] /\ job' = job /\ member' = member
             /\ (~ History!EndsDay(worker.h) /\ day' = day) \/ History!Finalize(m, d)
    <2>1. /\ ProofsFit' /\ \A n \in Member : Added(day[n], hour[n], day'[n], hour'[n], clock.epoch)
          /\ History!EndsDay(worker.h) => day'[m][d] = "complete"
      <3>1. CASE ~ History!EndsDay(worker.h) /\ day' = day
        BY <1>1, <3>1, SameProofs DEF Added
      <3>2. CASE History!Finalize(m, d)
        BY <1>1, <1>3, <1>4, <3>2, DayPut
      <3> QED BY <1>6, <3>1, <3>2
    <2>2. /\ worker' \in Claims /\ worker'.at = "read" /\ worker'.m = worker.m /\ worker'.rev = worker.rev
          /\ worker'.h = worker.h
      BY <1>3, <1>6 DEF Claims, Steps
    <2>3. KindOf("read") = "tail"
      BY DEF KindOf
    <2>4. Knows(worker', History!TheJob, member[m], clock.epoch, day'[m], hour'[m])
      BY <1>1, <1>2, <1>3, <2>1, <2>2, <2>3 DEF Knows
    <2> QED BY <1>1, <1>3, <1>4, <1>6, <2>1, <2>2, <2>3, <2>4, OnwardStep
  <1> QED BY <1>1, <1>5, <1>6

\* An hour that was read counts for the job that read it.
LEMMA MoveTailStep ==
  ASSUME HistoryConstants, HistoryInv, History!MoveTail
  PROVE  HistoryInv'
  <1> DEFINE m == worker.m
             e == clock.epoch
             s == member[m]
             j == History!TheJob
             through == j.through
             next == History!Smaller(worker.h + 1, through)
             midnight == History!Day(next) = next /\ next > worker.h
             verified == IF midnight THEN History!Larger(s.verified, next) ELSE s.verified
             ended == next >= through
             signed == s.history = "empty" \/ (s.complete /\ s.verified >= History!Day(through))
             verify == IF midnight THEN verified ELSE j.verify
             status == IF ended /\ signed THEN "complete" ELSE "queued"
             kind == IF ended /\ s.history # "empty" THEN "verify"
                     ELSE IF midnight /\ next < History!Day(through) THEN "backfill" ELSE j.kind
             k == [j EXCEPT !.next = next, !.verify = verify, !.status = status, !.kind = kind]
             cover == IF midnight THEN next ELSE s.cover
             ready == IF ended THEN signed ELSE s.ready
             complete == IF ended THEN signed ELSE s.complete
             u == [s EXCEPT !.tail = next, !.verified = verified, !.cover = cover, !.ready = ready,
                            !.complete = complete]
             away == ~s.active \/ s.rev # worker.rev
  <1>1. /\ UNCHANGED <<control, source, clock, day, hour, row, range, loop, seen, faults>>
        /\ worker' = History!Idle /\ worker.at = "read"
        /\ \/ job' = job /\ member' = member
           \/ /\ History!Ours /\ j.next = worker.h /\ History!Put(k)
              /\ member' = IF away THEN member ELSE [member EXCEPT ![m] = u]
    BY DEF History!MoveTail
  <1>2. worker.at \in Steps /\ KindOf(worker.at) = "tail"
    BY <1>1 DEF Steps, KindOf
  <1>3. /\ worker # History!Idle /\ m \in Member /\ worker.rev \in 1 .. MaxRev
        /\ j = job[m][worker.rev] /\ j \in History!Job /\ JobFits(j) /\ s \in States
        /\ Knows(worker, j, s, e, day[m], hour[m]) /\ AgreesWith(s, job[m], e, row[m], day[m], hour[m])
    BY <1>2, AtWork
  <1>4. CASE job' = job /\ member' = member
    <2>1. MembersFit' /\ MembersAgree'
      BY <1>1, <1>4, SameMembers, MembersGoOn DEF Alike, Moves, Added
    <2> QED BY <1>1, <2>1, SameProofs, DoneStep
  <1>5. CASE /\ History!Ours /\ j.next = worker.h /\ History!Put(k)
             /\ member' = IF away THEN member ELSE [member EXCEPT ![m] = u]
    <2>1. j.status = "running" /\ j.kind = "tail"
      BY <1>2, <1>3, <1>5 DEF History!Ours, Knows
    <2>2. /\ worker.h \in History!Hours /\ worker.h \in Nat /\ through \in 0 .. LastHour /\ LastHour \in Nat
          /\ j.verify \in 0 .. LastHour
      <3>1. worker.h \in History!Hours
        BY <1>1, <1>3 DEF HistoryInv, WorkerFits
      <3>2. through \in 0 .. LastHour /\ j.verify \in 0 .. LastHour
        BY <1>3 DEF History!Job
      <3>3. LastHour \in Nat
        BY HistoryNumbers
      <3>4. worker.h \in 0 .. LastHour
        BY <3>1, HoursAndDays
      <3> HIDE DEF through, j
      <3> QED BY <3>1, <3>2, <3>3, <3>4
    <2>3. next \in 0 .. LastHour /\ next <= worker.h + 1 /\ (midnight => next % HoursPerDay = 0)
      <3>1. next \in 0 .. LastHour /\ next <= worker.h + 1
        BY <2>2 DEF History!Smaller
      <3> HIDE DEF next
      <3>2. next \in Nat
        BY <2>2, <3>1
      <3> QED BY <3>1, <3>2, Midnight
    <2> HIDE DEF next
    <2>4. /\ verified \in 0 .. LastHour /\ cover \in 0 .. LastHour /\ ready \in BOOLEAN /\ complete \in BOOLEAN
          /\ verify \in 0 .. LastHour
      <3>1. /\ s.verified \in 0 .. LastHour /\ s.cover \in 0 .. LastHour /\ s.ready \in BOOLEAN
            /\ s.complete \in BOOLEAN
        BY <1>3 DEF States
      <3>2. signed \in BOOLEAN
        BY <3>1
      <3>3. verified \in 0 .. LastHour
        BY <2>2, <2>3, <3>1 DEF History!Larger
      <3> HIDE DEF midnight, signed, ended, verified
      <3> QED BY <2>2, <2>3, <3>1, <3>2, <3>3
    <2>5. /\ kind \in {"verify", "backfill", "tail"} /\ (kind = "backfill" => next % HoursPerDay = 0)
          /\ status \in {"complete", "queued"}
      <3> HIDE DEF midnight, signed, ended
      <3> QED BY <2>1, <2>3
    <2> HIDE DEF verified, verify, cover, ready, complete, kind, status
    <2>6. /\ k \in History!Job /\ JobFits(k) /\ k.next = next
      <3>1. k \in History!Job
        BY <1>3, <2>3, <2>4, <2>5 DEF History!Job
      <3>2. k.next = next /\ k.kind = kind /\ k.status = status /\ k.attempts = j.attempts
        BY <1>3 DEF History!Job
      <3>3. j.attempts < MaxTries
        BY <1>3, <2>1 DEF JobFits
      <3> HIDE DEF k, j
      <3> QED BY <2>5, <3>1, <3>2, <3>3 DEF JobFits
    <2>7. u \in States /\ u.active = s.active /\ u.rev = s.rev /\ u.epoch = s.epoch /\ u.floor = s.floor
          /\ u.first = s.first /\ u.tail = next /\ u.history = s.history /\ u.checked = s.checked
      BY <1>3, <2>3, <2>4 DEF States
    <2>8. CASE s.rev = worker.rev
      <3>1. s.active /\ s.history # "open"
        BY <1>2, <1>5, <2>8, RunsActive
      <3>2. member' = [member EXCEPT ![m] = u]
        BY <1>5, <2>8, <3>1
      <3>3. Writes(m, worker.rev, u, k)
        BY <1>5, <3>2 DEF Writes, History!Put
      <3> HIDE DEF u, k, j
      <3>4. job'[m][worker.rev] = k
        BY <1>3, <2>6, <2>7, <3>3, PutFits
      <3>5. Trusts(s, e) => ReadUpTo(s.first, day[m], hour[m], e, next)
        <4>1. SUFFICES ASSUME Trusts(s, e) PROVE ReadUpTo(s.first, day[m], hour[m], e, next)
          OBVIOUS
        <4>2. ReadUpTo(s.first, day[m], hour[m], e, worker.h)
          BY <1>3, <1>5, <2>8, <4>1 DEF AgreesWith
        <4>3. /\ hour[m][worker.h].epoch = e
              /\ History!EndsDay(worker.h) => day[m][History!Day(worker.h)] = "complete"
          BY <1>1, <1>3, <4>1 DEF Knows
        <4> HIDE DEF s
        <4>4. ReadUpTo(s.first, day[m], hour[m], e, worker.h + 1)
          BY <2>2, <4>2, <4>3, ReadHour
        <4>5. next \in Nat /\ worker.h + 1 \in Nat
          BY <2>2, <2>3
        <4> QED BY <2>3, <4>4, <4>5, ReadLess
      <3>6. AgreesWith(u, job'[m], e, row'[m], day'[m], hour'[m])
        <4>1. next <= next
          BY <2>2, <2>3
        <4> HIDE DEF s
        <4> QED BY <1>1, <1>3, <2>6, <2>7, <2>8, <3>1, <3>4, <3>5, <4>1 DEF AgreesWith, Trusts
      <3>7. MembersFit' /\ MembersAgree'
        BY <1>1, <1>3, <2>6, <2>7, <3>3, <3>6, WorkerPuts DEF Added
      <3> QED BY <1>1, <3>7, SameProofs, DoneStep
    <2>9. CASE s.rev # worker.rev
      <3>1. member' = [member EXCEPT ![m] = s]
        BY <1>5, <2>9 DEF HistoryInv, MembersFit
      <3>2. Writes(m, worker.rev, s, k)
        BY <1>5, <3>1 DEF Writes, History!Put
      <3>3. Alike(s, s)
        BY DEF Alike
      <3> HIDE DEF k
      <3>4. MembersFit' /\ MembersAgree'
        BY <1>1, <1>3, <2>6, <2>9, <3>2, <3>3, WorkerPuts DEF Added
      <3> QED BY <1>1, <3>4, SameProofs, DoneStep
    <2> QED BY <2>8, <2>9
  <1> QED BY <1>1, <1>4, <1>5

-----------------------------------------------------------------------------
(* Verification, and an operator's retry.                                   *)

\* What does not hold costs an attempt, and the job waits for an operator.
LEMMA UnsoundFits ==
  ASSUME HistoryConstants, HistoryInv, worker.at = "verify", History!Ours, clock' = clock, day' = day,
         hour' = hour, row' = row,
         History!Put([History!TheJob EXCEPT !.status = "paused", !.attempts = @ + 1]),
         \/ member' = member
         \/ member' = [member EXCEPT ![worker.m].ready = FALSE, ![worker.m].complete = FALSE]
  PROVE  MembersFit' /\ MembersAgree'
  <1> DEFINE m == worker.m
             s == member[m]
             j == History!TheJob
             k == [j EXCEPT !.status = "paused", !.attempts = @ + 1]
  <1>1. worker.at \in Steps
    BY DEF Steps
  <1>2. /\ worker # History!Idle /\ m \in Member /\ worker.rev \in 1 .. MaxRev
        /\ j \in History!Job /\ JobFits(j) /\ s \in States
    BY <1>1, AtWork
  <1>3. j.status = "running"
    BY DEF History!Ours
  <1>4. k \in History!Job /\ JobFits(k) /\ Moves(j, k)
    <2>1. j.attempts < MaxTries /\ MaxTries \in Nat
      BY <1>2, <1>3, HistoryNumbers DEF JobFits
    <2>2. j.attempts + 1 \in 0 .. MaxTries
      BY <1>2, <2>1 DEF History!Job
    <2> QED BY <1>2, <1>3, <2>2 DEF History!Job, JobFits, Moves, History!Terminal
  <1>5. PICK u \in {s, [s EXCEPT !.ready = FALSE, !.complete = FALSE]} : member' = [member EXCEPT ![m] = u]
    <2>1. member \in [Member -> States]
      BY DEF HistoryInv, MembersFit
    <2>2. CASE member' = member
      BY <1>2, <2>1, <2>2
    <2>3. CASE member' = [member EXCEPT ![m].ready = FALSE, ![m].complete = FALSE]
      BY <1>2, <2>1, <2>3
    <2> QED BY <2>2, <2>3
  <1>6. u \in States /\ Alike(s, u)
    BY <1>2 DEF States, Alike
  <1>7. Writes(m, worker.rev, u, k)
    BY <1>5 DEF Writes, History!Put
  <1> HIDE DEF k, j
  <1> QED BY <1>2, <1>4, <1>6, <1>7, WorkerPuts DEF Added, j

LEMMA VerifyStep ==
  ASSUME HistoryConstants, HistoryInv, History!Verify
  PROVE  HistoryInv'
  <1> DEFINE m == worker.m
             e == clock.epoch
             s == member[m]
             j == History!TheJob
             next == History!Smaller(worker.through, History!Day(j.through))
             done == next >= History!Day(j.through) /\ s.tail >= j.through
             k == [j EXCEPT !.verify = next, !.attempts = 0, !.status = IF done THEN "complete" ELSE "queued"]
             u == [s EXCEPT !.verified = next, !.complete = done, !.ready = done]
             broken == [j EXCEPT !.status = "paused", !.attempts = @ + 1]
             marked == [member EXCEPT ![m].ready = FALSE, ![m].complete = FALSE]
  <1>1. /\ UNCHANGED <<control, source, clock, day, hour, row, range, loop, seen, faults>>
        /\ worker' = History!Idle /\ worker.at = "verify"
        /\ \/ job' = job /\ member' = member
           \/ History!Released(TRUE)
           \/ History!Ours /\ History!Sound(s, m) /\ History!Put(k) /\ member' = [member EXCEPT ![m] = u]
           \/ History!Ours /\ History!Put(broken) /\ (member' = member \/ member' = marked)
    BY DEF History!Verify
  <1>2. worker.at \in Steps /\ KindOf(worker.at) = "verify"
    BY <1>1 DEF Steps, KindOf
  <1>3. /\ worker # History!Idle /\ worker \in Claims /\ m \in Member /\ worker.rev \in 1 .. MaxRev
        /\ j = job[m][worker.rev] /\ j \in History!Job /\ JobFits(j) /\ s \in States
        /\ Knows(worker, j, s, e, day[m], hour[m]) /\ AgreesWith(s, job[m], e, row[m], day[m], hour[m])
    BY <1>2, AtWork
  <1>4. CASE job' = job /\ member' = member
    <2>1. MembersFit' /\ MembersAgree'
      BY <1>1, <1>4, SameMembers, MembersGoOn DEF Alike, Moves, Added
    <2> QED BY <1>1, <2>1, SameProofs, DoneStep
  <1>5. CASE History!Released(TRUE)
    <2>1. MembersFit' /\ MembersAgree'
      BY <1>1, <1>3, <1>5, ReleasedFits DEF Added
    <2> QED BY <1>1, <2>1, SameProofs, DoneStep
  <1>6. CASE History!Ours /\ History!Put(broken) /\ (member' = member \/ member' = marked)
    <2>1. MembersFit' /\ MembersAgree'
      BY <1>1, <1>6, UnsoundFits
    <2> QED BY <1>1, <2>1, SameProofs, DoneStep
  <1>7. CASE History!Ours /\ History!Sound(s, m) /\ History!Put(k) /\ member' = [member EXCEPT ![m] = u]
    <2>1. j.status = "running" /\ j.kind = "verify" /\ s.rev = worker.rev
      <3>1. j.status = "running"
        BY <1>7 DEF History!Ours
      <3>2. s.rev = worker.rev
        BY <1>7 DEF History!Sound, History!JobCurrent
      <3> HIDE DEF j
      <3> QED BY <1>2, <1>3, <3>1, <3>2 DEF Knows
    <2>2. s.active /\ s.history # "open"
      BY <1>2, <1>7, <2>1, RunsActive
    <2>3. next \in 0 .. LastHour
      <3>1. worker.through <= LastHour
        BY <1>1, <1>3 DEF HistoryInv, WorkerFits
      <3>2. worker.through \in 0 .. LastHour + 1 /\ j.through \in 0 .. LastHour /\ LastHour \in Nat
        BY <1>3, HistoryNumbers DEF Claims, History!Job
      <3>3. History!Day(j.through) \in 0 .. j.through
        BY <3>2, DayOf
      <3> HIDE DEF j
      <3> QED BY <3>1, <3>2, <3>3 DEF History!Smaller
    <2>4. done \in BOOLEAN
      OBVIOUS
    <2> HIDE DEF next, done
    <2>5. k \in History!Job /\ JobFits(k) /\ k.kind = "verify" /\ k.next = j.next
      <3>1. 0 \in 0 .. MaxTries /\ 0 < MaxTries
        BY HistoryNumbers
      <3> QED BY <1>3, <2>1, <2>3, <2>4, <3>1 DEF History!Job, JobFits
    <2>6. u \in States /\ Alike(s, u)
      BY <1>3, <2>3, <2>4 DEF States, Alike
    <2>7. Writes(m, worker.rev, u, k)
      BY <1>7 DEF Writes, History!Put
    <2> HIDE DEF k, u, j
    <2>8. job'[m][worker.rev] = k
      BY <1>3, <2>5, <2>6, <2>7, PutFits
    <2>9. AgreesWith(s, job'[m], e, row'[m], day'[m], hour'[m])
      <3> HIDE DEF s
      <3> QED BY <1>1, <1>3, <2>1, <2>2, <2>5, <2>8 DEF AgreesWith
    <2>10. AgreesWith(u, job'[m], e, row'[m], day'[m], hour'[m])
      BY <2>6, <2>9, AgreesState
    <2>11. MembersFit' /\ MembersAgree'
      BY <1>1, <1>3, <2>5, <2>6, <2>7, <2>10, WorkerPuts DEF Added
    <2> QED BY <1>1, <2>11, SameProofs, DoneStep
  <1> QED BY <1>1, <1>4, <1>5, <1>6, <1>7

LEMMA RetryStep ==
  ASSUME HistoryConstants, HistoryInv, NEW m \in Member, History!Retry(m)
  PROVE  HistoryInv'
  <1> DEFINE s == member[m]
             r == control[m].rev
             j == job[m][r]
             k == [j EXCEPT !.status = "queued", !.attempts = 0]
  <1>1. /\ UNCHANGED <<control, source, clock, day, hour, row, range, loop, seen, faults, worker>>
        /\ j.status = "paused"
        /\ job' = [job EXCEPT ![m][r] = k]
        /\ member' = member \/ member' = [member EXCEPT ![m].ready = FALSE]
    BY DEF History!Retry
  <1>2. s \in States /\ r \in 1 .. MaxRev /\ j \in History!Job
    BY TheMember
  <1>3. k \in History!Job /\ JobFits(k) /\ Moves(j, k) /\ Runs(j, k)
    <2>1. 0 \in 0 .. MaxTries /\ 0 < MaxTries
      BY HistoryNumbers
    <2>2. j.status = "paused"
      BY <1>1
    <2> HIDE DEF j
    <2>3. k \in History!Job /\ k.status = "queued" /\ k.attempts = 0 /\ k.kind = j.kind /\ k.next = j.next
      BY <1>2, <2>1 DEF History!Job
    <2>4. k.kind = "backfill" => k.next % HoursPerDay = 0
      <3>1. JobFits(j)
        BY <1>2, TheMember DEF j
      <3> QED BY <2>3, <3>1 DEF JobFits
    <2> HIDE DEF k
    <2> QED BY <2>1, <2>2, <2>3, <2>4 DEF JobFits, Moves, Runs, History!Terminal
  <1>4. PICK u \in {s, [s EXCEPT !.ready = FALSE]} : member' = [member EXCEPT ![m] = u]
    <2>1. member \in [Member -> States]
      BY DEF HistoryInv, MembersFit
    <2>2. CASE member' = member
      BY <2>1, <2>2
    <2>3. CASE member' = [member EXCEPT ![m].ready = FALSE]
      BY <2>1, <2>3
    <2> QED BY <1>1, <2>2, <2>3
  <1>5. u \in States /\ Alike(s, u)
    BY <1>2 DEF States, Alike
  <1>6. Writes(m, r, u, k)
    BY <1>1, <1>4 DEF Writes
  <1> HIDE DEF k
  <1>7. /\ MembersFit' /\ member'[m] = u /\ job'[m][r] = k
        /\ \A q \in 1 .. MaxRev : q # r => job'[m][q] = job[m][q]
        /\ \A n \in Member \ {m} : member'[n] = member[n] /\ job'[n] = job[n]
    BY <1>2, <1>3, <1>5, <1>6, PutFits
  <1>8. ASSUME NEW n \in Member
        PROVE  /\ Alike(member[n], member'[n])
               /\ \A q \in 1 .. MaxRev : Moves(job[n][q], job'[n][q]) /\ Runs(job[n][q], job'[n][q])
    <2>1. CASE n = m
      <3>1. Alike(member[n], member'[n])
        BY <1>5, <1>7, <2>1
      <3>2. ASSUME NEW q \in 1 .. MaxRev, q # r
            PROVE  Moves(job[n][q], job'[n][q]) /\ Runs(job[n][q], job'[n][q])
        BY <1>7, <2>1, <3>2 DEF Moves, Runs
      <3> QED BY <1>3, <1>7, <2>1, <3>1, <3>2
    <2>2. CASE n # m
      BY <1>7, <2>2 DEF Alike, Moves, Runs
    <2> QED BY <2>1, <2>2
  <1>9. ASSUME NEW n \in Member, member[n].rev # 0
        PROVE  Moves(job[n][member[n].rev], job'[n][member[n].rev])
    BY <1>8, <1>9, TheMember
  <1>10. MembersAgree'
    BY <1>1, <1>8, <1>9, MembersGoOn DEF Added
  <1>11. WorkerKnows'
    BY <1>1, <1>8, WorkerGoesOn DEF Added, Alike, Trusts
  <1>12. GatewayFits' /\ ServedFits'
    BY <1>1, SameGateway, SameServed
  <1>13. ProofsFit' /\ WorkerFits'
    BY <1>1, SameProofs, SameWorkers
  <1> QED BY <1>7, <1>10, <1>11, <1>12, <1>13 DEF HistoryInv

-----------------------------------------------------------------------------
(* The invariant, and what it says of the published members.                *)

LEMMA HistoryFirst ==
  ASSUME HistoryConstants, History!Init
  PROVE  HistoryInv
  <1> USE DEF History!Init
  <1>1. /\ HoursPerDay \in Nat \ {0} /\ FirstHour \in Nat \ {0} /\ LastHour \in Nat \ {0}
        /\ MaxRev \in Nat \ {0} /\ MaxEpoch \in Nat \ {0} /\ MaxTries \in Nat \ {0}
        /\ MaxFaults \in Nat /\ FirstHour <= LastHour /\ History!Revisions = 1 .. MaxRev
        /\ History!Goroutine = {"worker", "loop"}
    BY HistoryNumbers
  <1>2. GatewayFits
    <2>1. [on |-> FALSE, rev |-> -1] \in Reads
      BY <1>1 DEF Reads
    <2>2. seen \in [{"worker", "loop"} -> [Member -> Reads]]
      BY <1>1, <2>1 DEF History!Unread
    <2>3. source \in [Member -> SUBSET History!Hours]
      OBVIOUS
    <2>4. clock \in [end : FirstHour .. LastHour, epoch : 1 .. MaxEpoch]
      BY <1>1
    <2> QED BY <1>1, <2>2, <2>3, <2>4 DEF GatewayFits
  <1>3. ProofsFit
    <2>1. History!NoHour \in [status : {"none", "running", "complete"}, epoch : 0 .. MaxEpoch, facts : BOOLEAN]
      BY <1>1 DEF History!NoHour
    <2> QED BY <2>1 DEF ProofsFit
  <1>4. History!NoJob \in History!Job /\ JobFits(History!NoJob) /\ History!Terminal(History!NoJob)
    <2>1. 0 \in 0 .. LastHour /\ 0 \in 0 .. MaxEpoch /\ 0 \in 0 .. MaxTries /\ 0 < MaxTries
      BY <1>1
    <2> QED BY <2>1 DEF History!NoJob, History!Job, JobFits, History!Terminal
  <1>5. History!Unknown \in States
    BY <1>1 DEF History!Unknown, States
  <1>6. MembersFit
    BY <1>4, <1>5 DEF MembersFit
  <1>7. ServedFits
    BY <1>1 DEF ServedFits, Signatures, History!NoRow
  <1>8. WorkerFits
    BY DEF WorkerFits
  <1>9. MembersAgree
    <2>1. ASSUME NEW m \in Member
          PROVE  AgreesWith(member[m], job[m], clock.epoch, row[m], day[m], hour[m])
      BY DEF AgreesWith, Trusts, History!Unknown
    <2> QED BY <2>1 DEF MembersAgree
  <1> QED BY <1>2, <1>3, <1>6, <1>7, <1>8, <1>9 DEF HistoryInv, WorkerKnows

\* One step for every action.
LEMMA HistoryStep ==
  ASSUME HistoryConstants, HistoryInv, [History!Next]_(History!vars)
  PROVE  HistoryInv'
  <1>1. ASSUME NEW m \in Member,
               \/ History!AddMember(m) \/ History!RemoveMember(m) \/ History!Log(m) \/ History!Archive(m)
               \/ History!BoundaryAges(m) \/ History!Retry(m)
        PROVE  HistoryInv'
    BY <1>1, ControlStep, SourceStep, BoundaryStep, RetryStep
  <1>2. CASE History!CloseHour \/ History!Restart
    BY <1>2, ClosingStep, ProcessRestart
  <1>3. ASSUME NEW g \in History!Goroutine, History!ReconcileRead(g) \/ History!ReconcileWrite(g)
        PROVE  HistoryInv'
    BY <1>3, ReconcileReadStep, ReconcileWriteStep
  <1>4. CASE History!DropStaleRows \/ History!Publish
    BY <1>4, DropStep, PublishingStep
  <1>5. CASE History!Working
    BY <1>5, JobClaimStep, WorkerFailsStep, ReadBoundaryStep, DiscoverStep, FetchStep, BackfillStep,
       MoveBackfillStep, DowngradeStep, TailClaimsStep, TailBusyStep, TailReadsStep, TailFailsStep,
       TailEndsDayStep, MoveTailStep, VerifyStep DEF History!Working
  <1>6. CASE History!Looping
    BY <1>6, LoopClaimsStep, LoopCommitsStep, LoopFailsStep, LoopEndsDayStep DEF History!Looping
  <1>7. CASE UNCHANGED History!vars
    <2>1. /\ UNCHANGED <<control, source, clock, member, job, day, hour, row, range, worker, loop,
                         seen, faults>>
      BY <1>7 DEF History!vars
    <2>2. GatewayFits' /\ ServedFits'
      BY <2>1, SameGateway, SameServed
    <2>3. ProofsFit' /\ MembersFit' /\ WorkerFits' /\ MembersAgree' /\ WorkerKnows'
      BY <2>1, SameProofs, SameMembers, SameWorkers, SameTrust
    <2> QED BY <2>2, <2>3 DEF HistoryInv
  <1> QED BY <1>1, <1>2, <1>3, <1>4, <1>5, <1>6, <1>7 DEF History!Next

\* What the readers trust is read up to the right edge.
LEMMA HistoryIsProved ==
  ASSUME HistoryConstants, HistoryInv
  PROVE  History!TypeOK /\ History!PublishedIsProved
  <1>1. History!TypeOK
    <2>1. History!RowsOf(row) # {} => range.from < range.through
      BY DEF HistoryInv, ServedFits, History!RowsOf
    <2> QED
      BY <2>1, HistoryNumbers DEF HistoryInv, GatewayFits, ProofsFit, MembersFit, History!TypeOK
  <1>2. ASSUME NEW m \in History!RowsOf(row)
        PROVE  /\ row[m].verified >= History!Day(range.through)
               /\ History!CheckpointReady(m) /\ member[m].history = "hot" =>
                    /\ \A d \in History!Days : member[m].first <= d /\ d < History!Day(range.through) =>
                          day[m][d] = "complete"
                    /\ \A h \in History!Hours :
                          member[m].first <= h /\ History!Day(range.through) <= h /\ h < range.through =>
                             hour[m][h].epoch = clock.epoch \/ day[m][History!Day(h)] = "complete"
    <2>1. m \in Member /\ row[m] # History!NoRow
      BY DEF History!RowsOf
    <2>2. row[m].verified >= History!Day(range.through) /\ range.through \in 0 .. LastHour
      BY <2>1 DEF HistoryInv, ServedFits
    <2>3. SUFFICES ASSUME History!CheckpointReady(m), member[m].history = "hot"
                   PROVE  /\ \A d \in History!Days :
                                member[m].first <= d /\ d < History!Day(range.through) => day[m][d] = "complete"
                          /\ \A h \in History!Hours :
                                member[m].first <= h /\ History!Day(range.through) <= h /\ h < range.through =>
                                   hour[m][h].epoch = clock.epoch \/ day[m][History!Day(h)] = "complete"
      BY <2>2
    <2>4. Trusts(member[m], clock.epoch) /\ range.through <= member[m].tail
      BY <2>3 DEF History!CheckpointReady, History!Epoch, Trusts
    <2>5. /\ AgreesWith(member[m], job[m], clock.epoch, row[m], day[m], hour[m])
          /\ member[m].tail \in 0 .. LastHour
      BY <2>1, TheMember DEF States
    <2>6. ReadUpTo(member[m].first, day[m], hour[m], clock.epoch, range.through)
      <3>1. ReadUpTo(member[m].first, day[m], hour[m], clock.epoch, member[m].tail)
        BY <2>1, <2>4, <2>5 DEF AgreesWith
      <3> QED BY <2>2, <2>4, <2>5, <3>1, ReadLess
    <2>7. LastHour \in Nat /\ HoursPerDay \in Nat \ {0}
      BY HistoryNumbers
    <2>8. ASSUME NEW d \in History!Days, member[m].first <= d, d < History!Day(range.through)
          PROVE  day[m][d] = "complete"
      <3>1. d \in History!Hours /\ d \in Nat /\ History!Day(d) = d /\ d % HoursPerDay = 0
        BY <2>7, HoursAndDays
      <3>2. /\ History!Day(range.through) \in 0 .. range.through
            /\ History!Day(range.through) % HoursPerDay = 0
        BY <2>2, <2>7, DayOf
      <3> DEFINE last == History!Day(range.through)
      <3>3. last \in Int /\ last <= range.through /\ last % HoursPerDay = 0 /\ d < last
        BY <2>2, <2>8, <3>2
      <3> HIDE DEF last
      <3>4. d + HoursPerDay <= last
        <4>1. d \in Int
          BY <3>1
        <4> QED BY <2>7, <3>1, <3>3, <4>1, Apart
      <3>5. d < range.through /\ ~ (range.through < d + HoursPerDay)
        BY <2>2, <2>7, <3>1, <3>3, <3>4
      <3> QED BY <2>6, <2>8, <3>1, <3>5 DEF ReadUpTo
    <2>9. ASSUME NEW h \in History!Hours, member[m].first <= h, h < range.through
          PROVE  hour[m][h].epoch = clock.epoch \/ day[m][History!Day(h)] = "complete"
      BY <2>6, <2>9 DEF ReadUpTo
    <2> QED BY <2>8, <2>9
  <1>3. History!PublishedIsProved
    BY <1>2 DEF History!PublishedIsProved, History!Epoch
  <1> QED BY <1>1, <1>3

\* What is published is proved, whatever was taken back meanwhile: a published member was verified up to
\* the day of the right edge, and of one whose checkpoint still covers the range everything since its
\* first log was read (publishUsageFactFullHistorySnapshot, usageFactMemberPublishedCheckpointReady, and
\* everything that takes proofs back).
THEOREM PublishedAlwaysProved ==
  HistoryConstants => (History!Spec => [](History!TypeOK /\ History!PublishedIsProved))
  <1> SUFFICES ASSUME HistoryConstants
               PROVE  History!Spec => [](History!TypeOK /\ History!PublishedIsProved)
    OBVIOUS
  <1>1. History!Init => HistoryInv
    BY HistoryFirst
  <1>2. HistoryInv /\ [History!Next]_(History!vars) => HistoryInv'
    BY HistoryStep
  <1>3. HistoryInv => History!TypeOK /\ History!PublishedIsProved
    BY HistoryIsProved
  <1> QED BY <1>1, <1>2, <1>3, PTL DEF History!Spec
=============================================================================
