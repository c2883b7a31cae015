-------------------------- MODULE StabilityBackfill --------------------------
(***************************************************************************)
(* The hour facts of src/monitor/stability_backfill.go: finalized hours are  *)
(* read from the source and sealed, by jobs over a range of hours and by a  *)
(* repair of one missing hour, one of them at a time.  Jobs are started by  *)
(* hand or for a new classification, resumed when the source is back,       *)
(* paused, and retried.                                                     *)
(*                                                                         *)
(* An hour is its number.  Whether an hour had traffic is all that is known  *)
(* of its rows; a source that was replaced may answer that it had none.      *)
(* Rows keep no time of their last update: any row that the code may take   *)
(* first is taken.                                                          *)
(***************************************************************************)
EXTENDS Integers, FiniteSets, FiniteSetsExt

CONSTANTS
    Job,            \* bound: rows of jobs
    Retained,       \* stabilityStorageDays, in hours
    Batches,        \* numbers of hours that may be read at once, 1 among them
    MaxAttempts,    \* maxStabilityBackfillAttempts
    Busy,           \* bound: hours of which the minute facts may show traffic
    First, Last     \* bound: the first and the last end of the finalized hours

Hour == 0 .. Last - 1

VARIABLES
    end,          \* finalizedStabilityHourTo: the hours below it are final
    hour,         \* stability_hour_ingest_states: [status, rows]
    minutes,      \* hours of which the minute facts show traffic
    job,          \* the rows of the jobs
    worker,       \* who has stabilityBackfillRunning, and how far it is
    epoch         \* the source is away, back, or back and its jobs resumed

vars == <<end, hour, minutes, job, worker, epoch>>

Unknown == [status |-> "none", rows |-> "none"]
NoJob == [status |-> "none"]
Nobody == [pc |-> "rest"]
Window == {h \in Hour : h < end /\ h + Retained >= end}

JobRow ==
    [status : {"queued", "running", "paused", "partial", "complete"},
     kind : {"manual", "migration"}, hours : SUBSET Hour, failed : SUBSET Hour, stopped : BOOLEAN]

\* A worker: for a job, the hours it knows to be complete, those it gave up for now, the size of
\* its next range, the tries of a single hour, the hours of its range still to be written and
\* what the source said of them, and, in its last pass, the hours it still has to try again.
Worker ==
    [pc : {"run", "loop", "fetch", "write", "seal", "again"}, job : Job, known : SUBSET Hour,
     failed : SUBSET Hour, batch : Batches, tries : 0 .. MaxAttempts, todo : SUBSET Hour,
     had : SUBSET Hour, last : BOOLEAN, left : SUBSET Hour]

Repairer ==
    [pc : {"mark", "read", "settle"}, hour : Hour, tries : 0 .. MaxAttempts, had : SUBSET Hour]

TypeOK ==
    /\ end \in First .. Last
    /\ hour \in [Hour -> [status : {"none", "running", "queued", "failed", "complete"},
                          rows : {"none", "zero", "some"}]]
    /\ minutes \subseteq Busy
    /\ \A j \in Job : job[j] \in JobRow \cup {NoJob}
    /\ worker \in Worker \cup Repairer \cup {Nobody}
    /\ epoch \in {"away", "back", "resumed"}

Init ==
    /\ end = First
    /\ hour = [h \in Hour |-> Unknown]
    /\ minutes = {}
    /\ job = [j \in Job |-> NoJob]
    /\ worker = Nobody
    /\ epoch = "resumed"

\* stabilityCompleteHourPredicateSQL: that an hour had no traffic may be contradicted later.
Complete(h) == hour[h].status = "complete" /\ ~(hour[h].rows = "zero" /\ h \in minutes)

Ready == epoch # "away"
Idle == worker = Nobody

\* markStabilityHourAttemptOnce: the facts of the hour stay.
Mark(h, status) == hour' = [hour EXCEPT ![h].status = status]

\* Where its error is ignored.
MayMark(h, status) == Mark(h, status) \/ UNCHANGED hour

-----------------------------------------------------------------------------
(* Jobs come into being.  The flag is taken first.                          *)

Run(j) ==
    [pc |-> "run", job |-> j, known |-> {}, failed |-> {}, batch |-> 1, tries |-> 0,
     todo |-> {}, had |-> {}, last |-> FALSE, left |-> {}]

\* goSourceEpoch may refuse the worker; the row is left queued.
Takes(j) == worker' \in {Run(j), Nobody}

NewJob(kind, hours) ==
    \E j \in Job :
       /\ job[j] = NoJob
       /\ job' = [job EXCEPT ![j] = [status |-> "queued", kind |-> kind, hours |-> hours,
                                     failed |-> {}, stopped |-> FALSE]]
       /\ Takes(j)

\* By hand, over the last n hours.
Start ==
    /\ Ready /\ Idle
    /\ \E n \in 1 .. Retained : NewJob("manual", {h \in Window : h + n >= end})
    /\ UNCHANGED <<end, minutes, epoch, hour>>

Resumable(j) ==
    \/ job[j].status \in {"queued", "running"}
    \/ job[j].status = "paused" /\ job[j].stopped

\* A migration that waits for the administrator has no other beside it.
OpenMigration ==
    \E j \in Job : job[j] # NoJob /\ job[j].kind = "migration" /\ job[j].status # "complete"

\* With the source one job comes back, if none was started meanwhile; or else the migration starts,
\* if it is enabled; rows that cannot be read or saved leave all as it is.
Resume ==
    /\ epoch = "back" /\ epoch' = "resumed"
    /\ \/ /\ Idle
          /\ \E j \in Job :
                /\ Resumable(j)
                /\ job' = [job EXCEPT ![j].status = "queued"]
                /\ Takes(j)
       \/ /\ Idle /\ \A j \in Job : ~Resumable(j)
          /\ ~OpenMigration /\ \E h \in Window : ~Complete(h)
          /\ NewJob("migration", Window)
       \/ UNCHANGED <<job, worker>>
    /\ UNCHANGED <<end, minutes, hour>>

Retry(j) ==
    /\ Ready /\ Idle
    /\ job[j].status \in {"partial", "paused"}
    /\ job' = [job EXCEPT ![j].status = "queued", ![j].failed = {}, ![j].stopped = FALSE]
    /\ Takes(j)
    /\ UNCHANGED <<end, minutes, epoch, hour>>

-----------------------------------------------------------------------------
(* runStabilityBackfill.                                                    *)

At(pc) == worker.pc = pc
Mine == job[worker.job]

Goes(w) == worker' = w
Turns(w) == Goes([w EXCEPT !.todo = {}, !.had = {}])
Ends == worker' = Nobody
Others == UNCHANGED <<end, minutes, epoch>>

Saves(status, failed, stopped) ==
    job' = [job EXCEPT ![worker.job].status = status, ![worker.job].failed = failed,
                       ![worker.job].stopped = stopped]

Leaves(status, stopped) == Saves(status, Mine.failed, stopped) /\ Ends

\* What is complete is read from the rows, and a failure that was repaired meanwhile is forgotten.
Begin ==
    /\ At("run")
    /\ LET known == {h \in Mine.hours : Complete(h)}
           failed == Mine.failed \ known
       IN \/ /\ Saves("running", failed, FALSE)
             /\ \E b \in Batches :
                   Goes([worker EXCEPT !.pc = "loop", !.known = known, !.failed = failed,
                                       !.batch = b])
          \/ Leaves("paused", Mine.stopped)
    /\ Others /\ UNCHANGED hour

Missing == Mine.hours \ (worker.known \cup worker.failed)

\* nextMissingStabilityRange: the newest missing hour and those missing before it.
NextHours ==
    {h \in Missing : h + worker.batch > Max(Missing) /\ h .. Max(Missing) \subseteq Missing}

NextRange ==
    /\ At("loop")
    /\ IF ~Ready
       THEN Leaves("queued", FALSE)
       ELSE /\ UNCHANGED job
            /\ IF Missing # {}
               THEN Goes([worker EXCEPT !.pc = "fetch", !.todo = NextHours])
               ELSE Turns([worker EXCEPT !.pc = "again", !.last = TRUE, !.left = worker.failed,
                                         !.batch = 1])
    /\ Others /\ UNCHANGED hour

\* The hours are read; had: those for which the source has traffic.
Read ==
    /\ Ready
    /\ \E had \in SUBSET worker.todo : Goes([worker EXCEPT !.pc = "write", !.had = had])
    /\ UNCHANGED <<job, hour>>

\* Too slow or too large: fewer hours; a single one is tried again or isolated, so that it does not
\* hold up the others.
Shrink ==
    /\ Cardinality(worker.todo) > 1
    /\ Turns([worker EXCEPT !.pc = "loop",
                !.batch = Max({b \in Batches : b = 1 \/ b < Cardinality(worker.todo)})])
    /\ UNCHANGED <<job, hour>>

TryAgain ==
    /\ Cardinality(worker.todo) = 1 /\ worker.tries + 1 < MaxAttempts
    /\ Turns([worker EXCEPT !.pc = "loop", !.tries = @ + 1])
    /\ UNCHANGED <<job, hour>>

Isolate ==
    /\ Cardinality(worker.todo) = 1
    /\ LET h == Max(worker.todo) IN
          /\ Mark(h, "failed")
          /\ \/ /\ Saves("running", Mine.failed \cup {h}, FALSE)
                /\ \E b \in Batches :
                      Turns([worker EXCEPT !.pc = "loop", !.failed = @ \cup {h}, !.tries = 0,
                                           !.batch = b])
             \/ Ends /\ UNCHANGED job    \* the row could not be saved

Fetch ==
    /\ At("fetch") /\ ~worker.last
    /\ \/ Read
       \/ Ready /\ (Shrink \/ TryAgain \/ Isolate)
       \/ \E status \in {"queued"} \cup {p \in {"paused"} : Ready} : Leaves(status, FALSE)
          /\ UNCHANGED hour
    /\ Others

\* The hours of the range are written one by one; then the size of the next range is adapted.
Write ==
    /\ At("write")
    /\ \/ /\ worker.todo # {}
          /\ Mark(Max(worker.todo), "running")
          /\ Goes([worker EXCEPT !.pc = "seal"])
          /\ UNCHANGED job
       \/ /\ worker.todo # {}
          /\ Leaves("paused", FALSE)
          /\ UNCHANGED hour
       \/ /\ worker.todo = {}
          /\ IF worker.last
             THEN Turns([worker EXCEPT !.pc = "again"])
             ELSE \E b \in Batches : Turns([worker EXCEPT !.pc = "loop", !.batch = b])
          /\ UNCHANGED <<job, hour>>
    /\ Others

Answer(h) == IF h \in worker.had THEN "some" ELSE "zero"

\* replaceStabilityHourTrafficOnce: the rows, their totals and the state of the hour in one
\* transaction, which the minute facts may refute.
SealHour(h) ==
    /\ ~(Answer(h) = "zero" /\ h \in minutes)
    /\ hour' = [hour EXCEPT ![h] = [status |-> "complete", rows |-> Answer(h)]]

Seal ==
    /\ At("seal")
    /\ LET h == Max(worker.todo) IN
       \/ /\ Ready /\ SealHour(h)
          /\ Goes([worker EXCEPT !.pc = "write", !.todo = @ \ {h}, !.known = @ \cup {h},
                                 !.failed = @ \ {h}, !.tries = 0])
          /\ UNCHANGED job
       \/ \* the job pauses, resumable if its error is that of the context
          /\ MayMark(h, "failed")
          /\ \E stopped \in {FALSE, ~Ready} : Leaves("paused", stopped)
    /\ Others

\* Isolated hours are tried once more, whatever happens to each of them.
Again ==
    /\ At("again") /\ worker.left # {}
    /\ Goes([worker EXCEPT !.pc = "fetch", !.todo = {Max(worker.left)},
                           !.left = @ \ {Max(worker.left)}])
    /\ Others /\ UNCHANGED <<job, hour>>

FetchAgain ==
    /\ At("fetch") /\ worker.last
    /\ \/ Read
       \/ /\ Ready
          /\ MayMark(Max(worker.todo), "failed")
          /\ Turns([worker EXCEPT !.pc = "again"])
          /\ UNCHANGED job
       \/ Leaves("queued", FALSE) /\ UNCHANGED hour
    /\ Others

Finish ==
    /\ At("again") /\ worker.left = {}
    /\ Saves(IF worker.failed = {} THEN "complete" ELSE "partial", worker.failed, FALSE)
    /\ Ends
    /\ Others /\ UNCHANGED hour

-----------------------------------------------------------------------------
(* repairOneStabilityHour: the newest missing hour, if no job is running.   *)

Repair ==
    /\ Ready /\ Idle
    /\ \E h \in Window : ~Complete(h)
    /\ Goes([pc |-> "mark", hour |-> Max({h \in Window : ~Complete(h)}), tries |-> 0, had |-> {}])
    /\ Others /\ UNCHANGED <<job, hour>>

RepairMarks ==
    /\ At("mark")
    /\ Mark(worker.hour, "running")
    /\ Goes([worker EXCEPT !.pc = "read"])
    /\ Others /\ UNCHANGED job

RepairReads ==
    /\ At("read")
    /\ \/ /\ Ready
          /\ \E had \in SUBSET {worker.hour} : Goes([worker EXCEPT !.pc = "settle", !.had = had])
          /\ UNCHANGED hour
       \/ MayMark(worker.hour, "queued") /\ Ends
       \/ /\ Ready
          /\ Mark(worker.hour, "failed")
          /\ IF worker.tries + 1 < MaxAttempts
             THEN Goes([worker EXCEPT !.pc = "mark", !.tries = @ + 1])
             ELSE Ends
    /\ Others /\ UNCHANGED job

RepairSeals ==
    /\ At("settle")
    /\ Ends
    /\ ((Ready /\ SealHour(worker.hour)) \/ UNCHANGED hour)
    /\ Others /\ UNCHANGED job

-----------------------------------------------------------------------------
(* The environment.                                                         *)

\* The supervisor waits for the worker before it offers the source again.
SourceReturns == epoch = "away" /\ Idle /\ epoch' = "back" /\ UNCHANGED <<end, minutes, job, worker, hour>>

SourceLeaves == Ready /\ epoch' = "away" /\ UNCHANGED <<end, minutes, job, worker, hour>>

\* The worker could not save its row, or the process stops; rows stay as they are.
Breaks ==
    /\ ~Idle /\ Ends
    /\ epoch' \in {epoch, "away"}
    /\ UNCHANGED <<end, minutes, job, hour>>

HourFinal == end < Last /\ end' = end + 1 /\ UNCHANGED <<minutes, job, worker, epoch, hour>>

MinuteFacts(h) ==
    /\ h < end /\ h \notin minutes
    /\ minutes' = minutes \cup {h}
    /\ UNCHANGED <<end, job, worker, epoch, hour>>

\* pruneStabilityOlderThan, with the cutoff of stabilityRetentionCutoff; the row of a job goes long
\* after its hours.
\* A mutant: the cutoff of the clock, which is ahead of the hours that are final.
Cutoff_ByClock == end + 1 - Retained

Cutoff == end - Retained

Prune ==
    /\ hour' = [h \in Hour |-> IF h < Cutoff THEN Unknown ELSE hour[h]]
    /\ \E old \in SUBSET {j \in Job : job[j].status = "complete"
                                     /\ \A h \in job[j].hours : h < Cutoff} :
          job' = [j \in Job |-> IF j \in old THEN NoJob ELSE job[j]]
    /\ UNCHANGED <<end, minutes, worker, epoch>>

Next ==
    \/ Start \/ Resume \/ \E j \in Job : Retry(j)
    \/ Begin \/ NextRange \/ Fetch \/ Write \/ Seal \/ Again \/ FetchAgain \/ Finish
    \/ Repair \/ RepairMarks \/ RepairReads \/ RepairSeals
    \/ SourceReturns \/ SourceLeaves \/ Breaks \/ HourFinal \/ Prune
    \/ \E h \in Busy : MinuteFacts(h)

Spec == Init /\ [][Next]_vars
-----------------------------------------------------------------------------

\* A job that has ended accounts for every hour of its range that coverage still asks for: it was
\* read, or is listed as failed, whatever crashes, losses of the source, retries, repairs and
\* deletions of old rows lay between; and an hour sealed with its traffic is not opened again
\* (runStabilityBackfill, stabilityRetentionCutoff).
HoursAccounted ==
    /\ \A j \in Job : job[j].status \in {"partial", "complete"} =>
          /\ \A h \in job[j].hours \ job[j].failed : h < end - Retained \/ hour[h].rows # "none"
          /\ job[j].status = "complete" => job[j].failed = {}
    /\ \A h \in Window : hour[h].rows = "some" => hour[h].status = "complete"
=============================================================================
