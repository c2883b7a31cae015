----------------------------- MODULE FullHistory -----------------------------
(***************************************************************************)
(* The full history of usage facts (src/monitor/usage_facts_jobs.go and     *)
(* usage_facts_history.go): for every revision of a tracked member one      *)
(* durable job finds out where the member's logs begin, imports the days    *)
(* up to today, follows the closed hours of today, has the result verified, *)
(* and the member is published with the range its proofs cover.  Two        *)
(* goroutines work on it: the worker of the jobs, and the usage-facts loop, *)
(* which reads the last closed hours of every member again.  Both mirror    *)
(* the tracked members first (reconcile).                                   *)
(*                                                                         *)
(* Times are hours; 0 stands for "unset", as in the code.  Of the logs the  *)
(* model keeps which hours have any.  Claims are of one member, days are    *)
(* imported in chunks of one or more, and retries wait for an unspecified   *)
(* time.  Raw pages (and the recent service they bring), repairs, audits of *)
(* contents, rows of older releases and cache generations are left out.     *)
(***************************************************************************)
EXTENDS Integers, FiniteSets, FiniteSetsExt

CONSTANTS
    Member,       \* users of the gateway
    Registered,   \* the hour in which each was registered, 0 when no longer known
    HoursPerDay,  \* 24
    Recent,       \* the hours the loop reads again: 3
    MaxChunk,     \* days of one import: usageFactHistoryMaxDays
    MaxAttempts,  \* 5
    Lag,          \* the age of the oldest hour that may still get logs
    First,        \* the finalized hour at the start
    Last,         \* bound: the last finalized hour
    MaxRev,       \* bound: how often a member is added
    MaxEpoch,     \* bound: signed source epochs
    MaxFaults     \* bound: failing queries and crashes

VARIABLES
    control,   \* main store: whether a member is tracked, and its revision
    source,    \* the hours in which a member has logs
    clock,     \* the finalized hour and the configured source epoch
    member,    \* UsageFactMemberState
    job,       \* UsageFactJob, by member and revision
    day,       \* UsageFactMemberDayState.Status
    hour,      \* UsageFactMemberHourState and whether the hour has facts
    row,       \* UsageFactPublishedMember
    range,     \* PublishedRangeStart and PublishedThrough
    worker,    \* what the worker of the jobs does
    loop,      \* what the usage-facts loop does
    seen,      \* the tracked members as each goroutine's reconcile has read them
    faults

vars == <<control, source, clock, member, job, day, hour, row, range, worker, loop, seen, faults>>

Hours == HoursPerDay .. Last - 1
Day(h) == h - (h % HoursPerDay)
Days == {Day(h) : h \in Hours}
HoursOf(d) == d .. d + HoursPerDay - 1
Revisions == 1 .. MaxRev
Larger(a, b) == IF a < b THEN b ELSE a
Smaller(a, b) == IF a < b THEN a ELSE b
End == clock.end
Epoch == clock.epoch
Goroutine == {"worker", "loop"}

Unknown == [active |-> FALSE, rev |-> 0, epoch |-> 0, floor |-> 0, first |-> 0, checked |-> "never",
            cover |-> 0, tail |-> 0, verified |-> 0, ready |-> FALSE, complete |-> FALSE, history |-> "open"]
NoJob == [status |-> "none", kind |-> "discover", epoch |-> 0, next |-> 0, through |-> 0, verify |-> 0, attempts |-> 0]
NoHour == [status |-> "none", epoch |-> 0, facts |-> FALSE]
NoRow == [rev |-> 0, epoch |-> 0, floor |-> 0, verified |-> 0]
Unread == [m \in Member |-> [on |-> FALSE, rev |-> -1]]
Idle == [at |-> "idle"]

Init ==
    /\ control = [m \in Member |-> [on |-> TRUE, rev |-> 1]]
    /\ source \in [Member -> SUBSET {h \in Hours : h < First}]
    /\ clock = [end |-> First, epoch |-> 1]
    /\ member = [m \in Member |-> Unknown]
    /\ job = [m \in Member |-> [r \in Revisions |-> NoJob]]
    /\ day = [m \in Member |-> [d \in Days |-> "none"]]
    /\ hour = [m \in Member |-> [h \in Hours |-> NoHour]]
    /\ row = [m \in Member |-> NoRow]
    /\ range = [from |-> 0, through |-> 0]
    /\ worker = Idle /\ loop = Idle
    /\ seen = [g \in Goroutine |-> Unread]
    /\ faults = 0

-----------------------------------------------------------------------------
(* The world around the two goroutines.                                     *)

AddMember(m) ==
    /\ ~control[m].on /\ control[m].rev < MaxRev
    /\ control' = [control EXCEPT ![m] = [on |-> TRUE, rev |-> @.rev + 1]]
    /\ UNCHANGED <<source, clock, member, job, day, hour, row, range, worker, loop, seen, faults>>

RemoveMember(m) ==
    /\ control[m].on /\ control[m].rev < MaxRev
    /\ control' = [control EXCEPT ![m].on = FALSE]
    /\ UNCHANGED <<source, clock, member, job, day, hour, row, range, worker, loop, seen, faults>>

\* A log of an hour, which may have been closed already.
Log(m) ==
    /\ \E h \in Hours \ source[m] : End - Lag <= h /\ h <= End /\ source' = [source EXCEPT ![m] = @ \cup {h}]
    /\ UNCHANGED <<control, clock, member, job, day, hour, row, range, worker, loop, seen, faults>>

\* The source gives up its oldest logs.
Archive(m) ==
    /\ source[m] # {} /\ faults < MaxFaults
    /\ source' = [source EXCEPT ![m] = @ \ {Min(@)}]
    /\ faults' = faults + 1
    /\ UNCHANGED <<control, clock, member, job, day, hour, row, range, worker, loop, seen>>

\* usageFactFinalizedHour.
CloseHour ==
    /\ End < Last
    /\ clock' = [clock EXCEPT !.end = @ + 1]
    /\ UNCHANGED <<control, source, member, job, day, hour, row, range, worker, loop, seen, faults>>

\* usageFactBoundaryRecheck has passed since the last look at the boundary.
BoundaryAges(m) ==
    /\ member[m].checked = "fresh" /\ faults < MaxFaults
    /\ member' = [member EXCEPT ![m].checked = "stale"]
    /\ faults' = faults + 1
    /\ UNCHANGED <<control, source, clock, job, day, hour, row, range, worker, loop, seen>>

\* A restart, possibly with a newly signed source.  Hours that were being read stay "running".
Restart ==
    /\ faults < MaxFaults
    /\ faults' = faults + 1
    /\ \E e \in {Epoch, Epoch + 1} : e <= MaxEpoch /\ clock' = [clock EXCEPT !.epoch = e]
    /\ worker' = Idle /\ loop' = Idle
    /\ seen' = [g \in Goroutine |-> Unread]
    /\ UNCHANGED <<control, source, member, job, day, hour, row, range>>

-----------------------------------------------------------------------------
(* The published range.                                                     *)

RowsOf(rows) == {m \in Member : rows[m] # NoRow}

\* normalizeUsageFactPublishedRange, for rows that remain.
Bounds(rows, through) ==
    IF RowsOf(rows) = {} THEN [from |-> 0, through |-> 0]
    ELSE [from |-> Min({rows[m].floor : m \in RowsOf(rows)}), through |-> through]
Bounded(rows, through) == RowsOf(rows) # {} => \A m \in RowsOf(rows) :
    Min({rows[n].floor : n \in RowsOf(rows)}) < through

\* The rows after those of the members in gone were deleted, if the rest has a range.
Revoke(gone, rows) == [m \in Member |-> IF m \in gone THEN NoRow ELSE rows[m]]
Revoking(gone) ==
    IF \A m \in gone : row[m] = NoRow THEN UNCHANGED <<row, range>>
    ELSE /\ Bounded(Revoke(gone, row), range.through)
         /\ row' = Revoke(gone, row)
         /\ range' = Bounds(row', range.through)

\* A complete hour, read from the current source.
Proved(m, h) == hour[m][h].status = "complete" /\ hour[m][h].epoch = Epoch

Current(m, r) == control[m].on /\ r.rev = control[m].rev /\ r.epoch = Epoch

\* reconcileUsageFactPublishedMembersLocal.
DropStaleRows ==
    /\ \E m \in Member : row[m] # NoRow /\ ~Current(m, row[m])
    /\ Revoking({m \in Member : ~Current(m, row[m])})
    /\ UNCHANGED <<control, source, clock, member, job, day, hour, worker, loop, seen, faults>>

\* usageFactMemberFullHistoryReady and the job that brought the member there.
Ready(m) ==
    LET s == member[m]  j == job[m][control[m].rev]
    IN  /\ control[m].on
        /\ j.status = "complete" /\ j.through >= End /\ j.epoch = Epoch
        /\ s.active /\ s.rev = control[m].rev /\ s.epoch = Epoch
        /\ s.floor > 0 /\ s.checked = "fresh"
        /\ s.ready /\ s.cover >= Day(End) /\ s.tail >= End
        /\ s.complete /\ s.verified >= Day(End)
        /\ \/ s.history = "empty" /\ s.first = 0
           \/ s.history = "hot" /\ s.first >= s.floor

Signed(m) == [rev |-> member[m].rev, epoch |-> member[m].epoch, floor |-> member[m].floor, verified |-> member[m].verified]
Candidate == [m \in Member |->
    IF Ready(m) THEN Signed(m) ELSE IF row[m] # NoRow /\ Current(m, row[m]) THEN row[m] ELSE NoRow]

\* Every candidate has a signature of today and the hours since the old right edge.
Advances(candidate, from) ==
    /\ \A m \in RowsOf(candidate) : candidate[m].verified >= Day(End)
    /\ \A m \in RowsOf(candidate) :
          (Ready(m) /\ member[m].history = "empty") \/ \A h \in from .. End - 1 : Proved(m, h)

\* publishUsageFactFullHistorySnapshot.
Publish ==
    /\ LET usable == range.from > 0 /\ range.through > range.from /\ RowsOf(row) # {}
           old == IF usable THEN range.through ELSE 0
           from == IF old = 0 THEN Day(End) ELSE old
           through == IF from >= End \/ Advances(Candidate, from) THEN End ELSE old
       IN  \/ /\ RowsOf(Candidate) = {}
              /\ row' = Candidate /\ range' = Bounds(Candidate, 0)
           \/ /\ RowsOf(Candidate) # {} /\ through > 0 /\ Bounded(Candidate, through)
              /\ row' = Candidate /\ range' = Bounds(Candidate, through)
    /\ <<row, range>>' # <<row, range>>
    /\ UNCHANGED <<control, source, clock, member, job, day, hour, worker, loop, seen, faults>>

\* usageFactMemberPublishedCheckpointReady: what the readers trust without looking at the proofs again.
CheckpointReady(m) ==
    LET s == member[m]
    IN  /\ Current(m, row[m])
        /\ s.active /\ s.rev = control[m].rev /\ s.epoch = Epoch
        /\ s.floor > 0 /\ s.checked # "never"
        /\ s.floor = row[m].floor /\ s.tail >= range.through /\ s.verified >= row[m].verified
        /\ \/ s.history = "empty" /\ s.first = 0
           \/ s.history = "hot" /\ s.first >= s.floor

-----------------------------------------------------------------------------
(* Mirroring the tracked members: reconcileUsageFactHistoryJobs.             *)

Terminal(j) == j.status \in {"none", "complete", "cancelled"}
Cancelled(j) == IF Terminal(j) THEN j ELSE [j EXCEPT !.status = "cancelled"]

\* Mutant: what was imported before counts on.
Mirrored_KeepsProgress(s, rev) == [s EXCEPT !.active = TRUE, !.rev = rev, !.epoch = Epoch]

\* The state starts anew, except for the boundary that was signed before.
MustReset(s, rev) == s.rev # rev \/ s.epoch # Epoch
Mirrored(s, rev) ==
    IF MustReset(s, rev)
    THEN [Unknown EXCEPT !.active = TRUE, !.rev = rev, !.epoch = Epoch, !.floor = s.floor, !.first = s.first]
    ELSE [s EXCEPT !.active = TRUE, !.history = IF s.floor = 0 \/ s.checked = "never" THEN "open" ELSE @]

UpToDate(s) ==
    /\ s.ready /\ s.complete /\ s.checked = "fresh"
    /\ s.cover >= Day(End) /\ s.verified >= Day(End) /\ s.tail >= End

Rediscover(j) == [j EXCEPT !.kind = "discover", !.status = "queued"]
Created == [Rediscover(NoJob) EXCEPT !.epoch = Epoch, !.through = End]

\* A job grows with the clock, and one that was complete begins again.
Extended(j, s) ==
    IF End <= j.through THEN j
    ELSE IF j.status # "complete" THEN [j EXCEPT !.through = End]
    ELSE LET next == Larger(j.next, s.tail)
         IN  [j EXCEPT !.through = End, !.status = "queued", !.next = next,
                       !.kind = IF Day(next) = next /\ next < Day(End) THEN "backfill" ELSE "tail"]

Rescheduled(j, s, reset) ==
    LET renewed == IF reset \/ j.epoch # Epoch THEN [Created EXCEPT !.through = j.through] ELSE j
        looked == IF s.checked # "fresh" /\ renewed.status = "complete" THEN Rediscover(renewed) ELSE renewed
    IN  Extended(looked, s)

\* A goroutine mirrors the members between two of its tasks.
ReconcileRead(g) ==
    /\ seen[g] = Unread /\ (g = "worker" => worker = Idle) /\ (g = "loop" => loop = Idle)
    /\ seen' = [seen EXCEPT ![g] = control]
    /\ UNCHANGED <<control, source, clock, member, job, day, hour, row, range, worker, loop, faults>>

\* What becomes of one job, given what was read and the member's new state.
Reconciled(m, r, read, s) ==
    LET reset == read.on /\ MustReset(member[m], read.rev)
        j == IF job[m][r].epoch # Epoch THEN Cancelled(job[m][r]) ELSE job[m][r]
    IN  CASE ~read.on -> IF member[m].active THEN Cancelled(j) ELSE j
          [] read.on /\ r # read.rev -> IF reset /\ j.status # "none" THEN [j EXCEPT !.status = "cancelled"] ELSE Cancelled(j)
          [] OTHER -> IF UpToDate(s) THEN j
                      ELSE IF j.status = "none" THEN Created
                      ELSE Rescheduled(j, s, reset)

\* One transaction with what was read; that it was out of date is noticed afterwards.
ReconcileWrite(g) ==
    /\ seen[g] # Unread
    /\ LET read == seen[g]
       IN  /\ member' = [m \in Member |->
                  IF read[m].on THEN Mirrored(member[m], read[m].rev)
                  ELSE [member[m] EXCEPT !.active = FALSE, !.ready = @ /\ ~member[m].active]]
           /\ day' = [m \in Member |->
                  IF read[m].on /\ MustReset(member[m], read[m].rev)
                  THEN [d \in Days |-> IF day[m][d] = "complete" THEN "pending" ELSE day[m][d]] ELSE day[m]]
           /\ job' = [m \in Member |-> [r \in Revisions |-> Reconciled(m, r, read[m], member'[m])]]
    /\ seen' = [seen EXCEPT ![g] = Unread]
    /\ UNCHANGED <<control, source, clock, hour, row, range, worker, loop, faults>>

-----------------------------------------------------------------------------
(* Reading one hour: claimUsageFactHour, syncUsageFactHourWithOptions and    *)
(* failUsageFactHourClaim.                                                   *)

Reading(m, h) == \E g \in {worker, loop} : g.at = "reading" /\ g.m = m /\ g.h = h

ClaimHour(m, h) ==
    /\ ~Reading(m, h)
    /\ hour' = [hour EXCEPT ![m][h].status = "running"]

\* New activity of a member that had none makes the boundary void (invalidateNoHistoryAfterHourTx).
Invalidates(m, h) ==
    /\ hour[m][h].facts # (h \in source[m])
    /\ member[m].active /\ member[m].history = "empty"

CommitHour(m, h) ==
    /\ hour' = [hour EXCEPT ![m][h] = [status |-> "complete", epoch |-> Epoch, facts |-> h \in source[m]]]
    /\ IF Invalidates(m, h)
       THEN /\ job' = [job EXCEPT ![m][member[m].rev] = [Rediscover(@) EXCEPT !.attempts = 0]]
            /\ member' = [member EXCEPT ![m] = [@ EXCEPT !.checked = "never", !.history = "open",
                                                         !.ready = FALSE, !.complete = FALSE]]
            /\ Revoking({m})
       ELSE UNCHANGED <<job, member, row, range>>

HourFails(m, h) ==
    hour' = [hour EXCEPT ![m][h].status = IF @ # "running" THEN @ ELSE IF hour[m][h].epoch > 0 THEN "complete" ELSE "none"]

\* finalizeUsageFactHistoryDayFromHours: the day is complete if its hours are, and agree with the source.
DayAgrees(m, d) == \A h \in HoursOf(d) : Proved(m, h) /\ hour[m][h].facts = (h \in source[m])
Tracked(m, rev) == control[m].on /\ control[m].rev = rev /\ member[m].active /\ member[m].rev = rev
Finalize(m, d) == day' = [day EXCEPT ![m][d] = "complete"]
EndsDay(h) == Day(h + 1) = h + 1

-----------------------------------------------------------------------------
(* The usage-facts loop: syncUsageFactsTail.                                 *)

LoopClaims(m, h) ==
    /\ loop = Idle /\ seen["loop"] = Unread /\ control[m].on
    /\ End - Recent <= h /\ h < End
    /\ ClaimHour(m, h)
    /\ loop' = [at |-> "reading", m |-> m, h |-> h]
    /\ UNCHANGED <<control, source, clock, member, job, day, row, range, worker, seen, faults>>

LoopCommits ==
    /\ loop.at = "reading"
    /\ CommitHour(loop.m, loop.h)
    /\ loop' = IF EndsDay(loop.h) /\ ~Invalidates(loop.m, loop.h) THEN [loop EXCEPT !.at = "ending"] ELSE Idle
    /\ UNCHANGED <<control, source, clock, day, worker, seen, faults>>

LoopFails ==
    /\ loop.at = "reading" /\ faults < MaxFaults
    /\ HourFails(loop.m, loop.h)
    /\ loop' = Idle /\ faults' = faults + 1
    /\ UNCHANGED <<control, source, clock, member, job, day, row, range, worker, seen>>

\* maybeFinalizeUsageFactHistoryDayFromHours: what is not ready is left to the job.
LoopEndsDay ==
    /\ loop.at = "ending"
    /\ IF DayAgrees(loop.m, Day(loop.h)) /\ Tracked(loop.m, control[loop.m].rev)
       THEN Finalize(loop.m, Day(loop.h)) ELSE UNCHANGED day
    /\ loop' = Idle
    /\ UNCHANGED <<control, source, clock, member, job, hour, row, range, worker, seen, faults>>

-----------------------------------------------------------------------------
(* The worker: claims, and how they end.                                     *)

TheJob == job[worker.m][worker.rev]
Ours == TheJob.status = "running"
Put(j) == job' = [job EXCEPT ![worker.m][worker.rev] = j]
\* usageFactHistoryRevisionsCurrent; usageFactJobRevisionCurrent also looks at the mirror.
RevisionCurrent == control[worker.m].on /\ control[worker.m].rev = worker.rev
JobCurrent ==
    LET s == member[worker.m]
    IN  RevisionCurrent /\ worker.epoch = Epoch /\ s.active /\ s.rev = worker.rev /\ s.epoch = Epoch

\* claimUsageFactHistoryJobs; a lease that nobody uses any more has expired.
Claim(m, r) ==
    LET j == job[m][r]
        from == IF j.kind = "verify" THEN j.verify ELSE j.next
    IN  /\ worker = Idle /\ seen["worker"] = Unread
        /\ j.status \in {"queued", "running"}
        /\ job' = [job EXCEPT ![m][r].status = "running"]
        /\ \E chunk \in 1 .. MaxChunk :
              /\ chunk > 1 => j.kind = "backfill"
              /\ worker' = [at |-> j.kind, m |-> m, rev |-> r, epoch |-> j.epoch, h |-> from, target |-> j.through,
                            through |-> CASE j.kind = "backfill" -> Smaller(from + chunk * HoursPerDay, Day(j.through))
                                          [] j.kind = "tail" -> from + 1
                                          [] j.kind = "verify" -> Day(j.through)
                                          [] j.kind = "discover" -> 0]
        /\ UNCHANGED <<control, source, clock, member, day, hour, row, range, loop, seen, faults>>

Exhausted(attempts) == attempts >= MaxAttempts

\* releaseUsageFactHistoryClaim: an attempt is counted unless the source as a whole is to blame.
Released(counted) ==
    IF ~Ours THEN UNCHANGED <<job, member>>
    ELSE LET n == TheJob.attempts + IF counted THEN 1 ELSE 0
             paused == counted /\ Exhausted(n)
         IN  /\ Put([TheJob EXCEPT !.status = IF paused THEN "paused" ELSE "queued", !.attempts = n])
             /\ member' = IF paused /\ member[worker.m].rev = worker.rev
                          THEN [member EXCEPT ![worker.m].ready = FALSE] ELSE member

\* A query fails, a check finds another revision, or an empty range was claimed.
WorkerFails ==
    /\ worker.at \in {"discover", "backfill", "fetching", "checked", "tail", "ending"}
    /\ \/ faults < MaxFaults /\ faults' = faults + 1 /\ \E counted \in BOOLEAN : Released(counted)
       \/ /\ \/ worker.at \in {"discover", "backfill", "tail"} /\ ~JobCurrent
             \/ worker.at = "fetching" /\ ~Tracked(worker.m, worker.rev)
             \/ worker.at = "backfill" /\ worker.through <= worker.h
          /\ UNCHANGED faults /\ Released(TRUE)
    /\ worker' = Idle
    /\ UNCHANGED <<control, source, clock, day, hour, row, range, loop, seen>>

-----------------------------------------------------------------------------
(* Discovery: executeUsageFactHistoryDiscovery.                              *)

\* discoverUsageFactSourceBoundaries: the first day with logs, 0 when there are none.
ReadBoundary ==
    /\ worker.at = "discover" /\ JobCurrent
    /\ worker' = [worker EXCEPT !.at = "found", !.h = IF source[worker.m] = {} THEN 0 ELSE Day(Min(source[worker.m]))]
    /\ UNCHANGED <<control, source, clock, member, job, day, hour, row, range, loop, seen, faults>>

\* contiguousUsageFactHistoryCoverage.
Contiguous(m, from, through) ==
    IF from >= through THEN through
    ELSE Min({through} \cup {d \in Days : from <= d /\ d < through /\ day[m][d] # "complete"})

Floor(m) == LET known == {Day(Registered[m]), worker.h} \ {0} IN IF known = {} THEN 0 ELSE Min(known)
Regressed(s) == s.first # 0 /\ (worker.h = 0 \/ worker.h > s.first)

\* No boundary, or one that lost history: the member must not be served.
Rejected(s) ==
    /\ Put([TheJob EXCEPT !.status = "paused"])
    /\ member' = [member EXCEPT ![worker.m] = [s EXCEPT !.history = "open", !.ready = FALSE,
          !.checked = IF Floor(worker.m) = 0 THEN @ ELSE "fresh",
          !.complete = IF Floor(worker.m) = 0 THEN @ ELSE FALSE]]
    /\ Revoking({worker.m})

Accepted(s) ==
    LET m == worker.m
        first == worker.h
        floor == IF s.floor = 0 THEN Floor(m) ELSE Smaller(s.floor, Floor(m))
        earlier == s.first # 0 /\ first < s.first
        wider == s.floor # 0 /\ floor < s.floor
        through == TheJob.through
        next == IF first = 0 THEN through ELSE Smaller(through, Contiguous(m, Larger(first, floor), Day(through)))
        revoked == (s.history = "empty" /\ first # 0) \/ (first # 0 /\ earlier) \/ wider
        complete == s.complete /\ first # 0 /\ ~earlier /\ ~wider
        verify == IF first = 0 THEN floor ELSE IF complete /\ s.verified > first THEN s.verified ELSE first
    IN  /\ Put([TheJob EXCEPT !.status = "queued", !.epoch = Epoch, !.next = next, !.verify = verify,
                  !.kind = IF next >= through THEN "verify" ELSE IF next >= Day(through) THEN "tail" ELSE "backfill"])
        /\ member' = [member EXCEPT ![m] = [s EXCEPT !.epoch = Epoch, !.checked = "fresh", !.floor = floor,
                  !.first = first, !.history = IF first = 0 THEN "empty" ELSE "hot", !.complete = complete,
                  !.verified = IF first = 0 THEN 0 ELSE @, !.cover = Smaller(next, Day(through)),
                  !.tail = IF next >= through THEN through ELSE @, !.ready = @ /\ ~revoked /\ next < through]]
        /\ IF revoked THEN Revoking({m}) ELSE UNCHANGED <<row, range>>

Discover ==
    /\ worker.at = "found"
    /\ LET s == member[worker.m]
       IN  IF ~Ours \/ ~s.active \/ s.rev # worker.rev THEN UNCHANGED <<job, member, row, range>>
           ELSE IF Floor(worker.m) = 0 \/ Regressed(s) THEN Rejected(s) ELSE Accepted(s)
    /\ worker' = Idle
    /\ UNCHANGED <<control, source, clock, day, hour, loop, seen, faults>>

-----------------------------------------------------------------------------
(* Import of whole days: executeUsageFactHistoryBackfill.                    *)

Fetch ==
    /\ worker.at = "backfill" /\ worker.h < worker.through /\ JobCurrent
    /\ worker' = [worker EXCEPT !.at = "fetching"]
    /\ UNCHANGED <<control, source, clock, member, job, day, hour, row, range, loop, seen, faults>>

\* commitUsageFactHistoryRange checks the revision, and replaces the days in a transaction of its own.
CheckRevision ==
    /\ worker.at = "fetching" /\ Tracked(worker.m, worker.rev)
    /\ worker' = [worker EXCEPT !.at = "checked"]
    /\ UNCHANGED <<control, source, clock, member, job, day, hour, row, range, loop, seen, faults>>

Backfill ==
    /\ worker.at = "checked"
    /\ day' = [day EXCEPT ![worker.m] = [d \in Days |-> IF worker.h <= d /\ d < worker.through THEN "complete" ELSE @[d]]]
    /\ IF RevisionCurrent THEN worker' = [worker EXCEPT !.at = "imported"] /\ UNCHANGED <<job, member>>
       ELSE worker' = Idle /\ Released(TRUE)
    /\ UNCHANGED <<control, source, clock, hour, row, range, loop, seen, faults>>

MoveBackfill ==
    /\ worker.at = "imported"
    /\ IF ~Ours \/ TheJob.next # worker.h THEN UNCHANGED <<job, member>>
       ELSE LET done == worker.through >= TheJob.through
            IN  /\ Put([TheJob EXCEPT !.status = "queued", !.next = worker.through,
                          !.kind = IF done THEN "verify" ELSE IF worker.through >= Day(TheJob.through) THEN "tail" ELSE "backfill"])
                /\ LET s == member[worker.m]
                   IN  member' = IF ~s.active \/ s.rev # worker.rev THEN member
                                 ELSE [member EXCEPT ![worker.m] = [s EXCEPT !.cover = worker.through, !.ready = FALSE,
                                          !.tail = IF done THEN TheJob.through ELSE @]]
    /\ worker' = Idle
    /\ UNCHANGED <<control, source, clock, day, hour, row, range, loop, seen, faults>>

\* downgradeUsageFactHistoryClaimToHourly: a day that is too much for one query.
Downgrade ==
    /\ worker.at = "fetching" /\ faults < MaxFaults
    /\ worker.through = worker.h + HoursPerDay
    /\ IF ~Ours THEN UNCHANGED <<job, member>>
       ELSE /\ Put([TheJob EXCEPT !.status = "queued", !.kind = "tail", !.next = worker.h, !.attempts = 0])
            /\ LET s == member[worker.m]
               IN  member' = IF s.active /\ s.rev = worker.rev /\ s.epoch = TheJob.epoch
                             THEN [member EXCEPT ![worker.m].ready = FALSE] ELSE member
    /\ worker' = Idle /\ faults' = faults + 1
    /\ UNCHANGED <<control, source, clock, day, hour, row, range, loop, seen>>

-----------------------------------------------------------------------------
(* Hour by hour: executeUsageFactHistoryTail.                                *)

\* An hour that is complete under the current epoch is not read again.
TailClaims ==
    /\ worker.at = "tail" /\ JobCurrent /\ worker.h \in Hours
    /\ IF Proved(worker.m, worker.h)
       THEN worker' = [worker EXCEPT !.at = "ending"] /\ UNCHANGED hour
       ELSE ClaimHour(worker.m, worker.h) /\ worker' = [worker EXCEPT !.at = "reading"]
    /\ UNCHANGED <<control, source, clock, member, job, day, row, range, loop, seen, faults>>

\* The hour is being read by the loop: tried again later.
TailBusy ==
    /\ worker.at = "tail" /\ JobCurrent /\ worker.h \in Hours
    /\ Reading(worker.m, worker.h)
    /\ worker' = Idle /\ Released(FALSE)
    /\ UNCHANGED <<control, source, clock, day, hour, row, range, loop, seen, faults>>

TailReads ==
    /\ worker.at = "reading"
    /\ CommitHour(worker.m, worker.h)
    /\ worker' = IF Invalidates(worker.m, worker.h) THEN Idle ELSE [worker EXCEPT !.at = "ending"]
    /\ UNCHANGED <<control, source, clock, day, loop, seen, faults>>

TailFails ==
    /\ worker.at = "reading" /\ faults < MaxFaults
    /\ HourFails(worker.m, worker.h)
    /\ \E counted \in BOOLEAN : Released(counted)
    /\ worker' = Idle /\ faults' = faults + 1
    /\ UNCHANGED <<control, source, clock, day, row, range, loop, seen>>

\* The day of a last hour is finalized, or the claim is released.
TailEndsDay ==
    /\ worker.at = "ending"
    /\ IF ~EndsDay(worker.h) THEN worker' = [worker EXCEPT !.at = "read"] /\ UNCHANGED <<day, job, member>>
       ELSE IF DayAgrees(worker.m, Day(worker.h)) /\ Tracked(worker.m, worker.rev)
       THEN /\ Finalize(worker.m, Day(worker.h)) /\ worker' = [worker EXCEPT !.at = "read"]
            /\ UNCHANGED <<job, member>>
       ELSE worker' = Idle /\ Released(TRUE) /\ UNCHANGED day
    /\ UNCHANGED <<control, source, clock, hour, row, range, loop, seen, faults>>

MoveTail ==
    /\ worker.at = "read"
    /\ LET s == member[worker.m]
           through == TheJob.through
           next == Smaller(worker.h + 1, through)
           midnight == Day(next) = next /\ next > worker.h
           verified == IF midnight THEN Larger(s.verified, next) ELSE s.verified
           ended == next >= through
           signed == s.history = "empty" \/ (s.complete /\ s.verified >= Day(through))
       IN  IF ~Ours \/ TheJob.next # worker.h THEN UNCHANGED <<job, member>>
           ELSE /\ Put([TheJob EXCEPT !.next = next, !.verify = IF midnight THEN verified ELSE @,
                          !.status = IF ended /\ signed THEN "complete" ELSE "queued",
                          !.kind = IF ended /\ s.history # "empty" THEN "verify"
                                   ELSE IF midnight /\ next < Day(through) THEN "backfill" ELSE @])
                /\ member' = IF ~s.active \/ s.rev # worker.rev THEN member
                             ELSE [member EXCEPT ![worker.m] = [s EXCEPT !.tail = next, !.verified = verified,
                                      !.cover = IF midnight THEN next ELSE @,
                                      !.ready = IF ended THEN signed ELSE @, !.complete = IF ended THEN signed ELSE @]]
    /\ worker' = Idle
    /\ UNCHANGED <<control, source, clock, day, hour, row, range, loop, seen, faults>>

-----------------------------------------------------------------------------
(* Verification: executeUsageFactHistoryVerify, under the lock of the facts. *)

KnownEmpty(m, from, through) == \A h \in Hours : from <= h /\ h < through => ~hour[m][h].facts
HoursProved(m, from, through) == \A h \in Hours : from <= h /\ h < through => Proved(m, h)
DaysProved(m, from, through) == \A d \in Days : from <= d /\ d < through => day[m][d] = "complete"

Sound(s, m) ==
    /\ JobCurrent
    /\ IF s.history = "empty" THEN KnownEmpty(m, s.floor, worker.target)
       ELSE /\ s.first # 0 /\ (worker.h = s.first => KnownEmpty(m, s.floor, s.first))
            /\ DaysProved(m, Larger(worker.h, s.first), worker.through)
            /\ HoursProved(m, Day(worker.target), worker.target)

Verify ==
    /\ worker.at = "verify"
    /\ LET m == worker.m  s == member[m]
           next == Smaller(worker.through, Day(TheJob.through))
           done == next >= Day(TheJob.through) /\ s.tail >= TheJob.through
           owned == s.active /\ s.rev = worker.rev /\ s.epoch = Epoch
       IN  IF ~Ours THEN UNCHANGED <<job, member>>
           ELSE IF worker.h = 0 \/ worker.through < worker.h THEN Released(TRUE)
           ELSE IF Sound(s, m)
           THEN /\ Put([TheJob EXCEPT !.verify = next, !.attempts = 0, !.status = IF done THEN "complete" ELSE "queued"])
                /\ member' = [member EXCEPT ![m] = [s EXCEPT !.verified = next, !.complete = done, !.ready = done]]
           ELSE /\ Put([TheJob EXCEPT !.status = "paused", !.attempts = @ + 1])
                /\ member' = IF owned THEN [member EXCEPT ![m].ready = FALSE, ![m].complete = FALSE] ELSE member
    /\ worker' = Idle
    /\ UNCHANGED <<control, source, clock, day, hour, row, range, loop, seen, faults>>

\* retryUsageFactHistoryJobTarget: an operator resumes a paused job.
Retry(m) ==
    LET j == job[m][control[m].rev]
    IN  /\ control[m].on /\ j.status = "paused" /\ j.epoch = Epoch
        /\ job' = [job EXCEPT ![m][control[m].rev] = [j EXCEPT !.status = "queued", !.attempts = 0]]
        /\ member' = IF Tracked(m, control[m].rev) THEN [member EXCEPT ![m].ready = FALSE] ELSE member
        /\ UNCHANGED <<control, source, clock, day, hour, row, range, worker, loop, seen, faults>>

-----------------------------------------------------------------------------
Working ==
    \/ \E m \in Member, r \in Revisions : Claim(m, r)
    \/ WorkerFails \/ ReadBoundary \/ Discover
    \/ Fetch \/ CheckRevision \/ Backfill \/ MoveBackfill \/ Downgrade
    \/ TailClaims \/ TailBusy \/ TailReads \/ TailFails \/ TailEndsDay \/ MoveTail
    \/ Verify

Looping == (\E m \in Member, h \in Hours : LoopClaims(m, h)) \/ LoopCommits \/ LoopFails \/ LoopEndsDay

Next ==
    \/ \E m \in Member : AddMember(m) \/ RemoveMember(m) \/ Log(m) \/ Archive(m) \/ BoundaryAges(m) \/ Retry(m)
    \/ CloseHour \/ Restart
    \/ \E g \in Goroutine : ReconcileRead(g) \/ ReconcileWrite(g)
    \/ DropStaleRows \/ Publish
    \/ Working \/ Looping

Spec == Init /\ [][Next]_vars

-----------------------------------------------------------------------------
Job == [status : {"none", "queued", "running", "paused", "complete", "cancelled"},
        kind : {"discover", "backfill", "tail", "verify"}, epoch : 0 .. MaxEpoch,
        next : 0 .. Last, through : 0 .. Last, verify : 0 .. Last, attempts : 0 .. MaxAttempts]

\* Rows, cursors and proofs have the shape of their columns; a published range is not upside down
\* (normalizeUsageFactPublishedRange).
TypeOK ==
    /\ control \in [Member -> [on : BOOLEAN, rev : Revisions]]
    /\ source \in [Member -> SUBSET Hours]
    /\ clock \in [end : First .. Last, epoch : 1 .. MaxEpoch]
    /\ job \in [Member -> [Revisions -> Job]]
    /\ day \in [Member -> [Days -> {"none", "pending", "complete"}]]
    /\ hour \in [Member -> [Hours -> [status : {"none", "running", "complete"}, epoch : 0 .. MaxEpoch, facts : BOOLEAN]]]
    /\ RowsOf(row) # {} => range.from < range.through
    /\ faults \in 0 .. MaxFaults

\* What is published is proved, whatever was taken back meanwhile: a published member was verified up to the
\* day of the right edge, and of one whose checkpoint still covers the range every day since its first log
\* was imported as a whole or hour by hour, and every hour of the last day was read from the current source
\* (publishUsageFactFullHistorySnapshot and everything that takes proofs back).
PublishedIsProved ==
    \A m \in RowsOf(row) : LET s == member[m] IN
        /\ row[m].verified >= Day(range.through)
        /\ CheckpointReady(m) /\ s.history = "hot" =>
              /\ \A d \in Days : s.first <= d /\ d < Day(range.through) => day[m][d] = "complete"
              /\ \A h \in Hours : s.first <= h /\ Day(range.through) <= h /\ h < range.through =>
                    hour[m][h].epoch = Epoch \/ day[m][Day(h)] = "complete"

\* A job that is being verified has imported everything it is to verify: its end does not move
\* away under it (reconcileUsageFactHistoryJobs against executeUsageFactHistoryVerify).
VerifyHasItsHours ==
    \A m \in Member, r \in Revisions : LET j == job[m][r] IN
        j.kind = "verify" /\ j.status \in {"queued", "running"} /\ j.epoch = Epoch => j.next >= j.through
=============================================================================
