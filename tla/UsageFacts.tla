----------------------------- MODULE UsageFacts -----------------------------
(* The local usage facts of the monitor in rolling-window mode              *)
(* (monitor/usage_facts*.go).  The monitor copies the hourly usage of every *)
(* tracked member from the gateway's logs into SQLite.  One loop does all    *)
(* the copying, hour by hour: the tail re-reads the last closed hours, the   *)
(* backfill moves one cursor per member over its window, the reconciler      *)
(* re-reads the hours still retained.  A day whose hours are all proved is   *)
(* folded into a daily fact, hour rows older than the retention are pruned,  *)
(* and a complete candidate is published for the pages.  Operators add and   *)
(* remove members and request repairs at any time; logs may arrive late; the *)
(* process may crash while it owns an hour.                                  *)
(*                                                                           *)
(* Times are hours, counted from the left edge of the first window.  The     *)
(* content of an hour is a version: 0 is "no rows", and every closed hour    *)
(* has logs, of version 1 until a late log changes it.  A content hash is    *)
(* the version it was computed from.  Cache generations, metrics, errors,    *)
(* batching beyond one query and the pacing of the loop are left out.        *)
EXTENDS Integers, FiniteSets, FiniteSetsExt

CONSTANTS
  Members,          \* users of the gateway
  FirstMembers,     \* the members tracked at the start
  HoursPerDay,      \* 24
  WindowDays,       \* usageFactBackfillDays
  RetainedDays,     \* usageFactHourRetentionDays
  TailHours,        \* 3 in syncUsageFactsTail
  FirstEnd,         \* the finalized hour at the start
  LastEnd,          \* bound: the last finalized hour
  MaxLate,          \* bound on late logs
  MaxChanges,       \* bound on members added and removed
  MaxCrashes,       \* bound on crashes
  MaxFailures,      \* bound on failing source queries
  MaxRepairs        \* bound on repairs requested by operators

ASSUME CountsAssumption ==
  /\ {HoursPerDay, WindowDays, RetainedDays, TailHours, FirstEnd, LastEnd} \subseteq Nat \ {0}
  /\ {MaxLate, MaxChanges, MaxCrashes, MaxFailures, MaxRepairs} \subseteq Nat
  /\ RetainedDays <= WindowDays /\ LastEnd % HoursPerDay = 0
  /\ WindowDays * HoursPerDay <= FirstEnd /\ FirstEnd <= LastEnd
ASSUME MembersAssumption == FirstMembers \subseteq Members /\ IsFiniteSet(Members)

VARIABLES
  control,   \* main store: the lifecycle of each member (UsageMemberControl)
  source,    \* the gateway's logs: the version of each member's hour
  end,       \* usageFactFinalizedHour: the hours below it are closed
  fact,      \* UsageHourFact: the version of the rows of each member's hour
  proof,     \* UsageFactMemberHourState.ContentHash, 0 when there is none
  running,   \* the hours whose state row is "running"
  leased,    \* whether a lease that nobody will release is still live
  daily,     \* UsageDailyFact with its proof: the version folded in, by hour
  mirror,    \* UsageFactMemberState: active, revision and backfill cursor
  sync,      \* UsageFactSyncState, UsageFactPublishedMember and repair targets
  loop,      \* where the loop is, and what it remembers
  spent      \* how much of each bound has been used

stores == <<fact, proof, running, leased, daily>>
vars == <<control, source, end, stores, mirror, sync, loop, spent>>

Window == WindowDays * HoursPerDay
Hours == 0 .. LastEnd - 1
Versions == 0 .. MaxLate + 1
HoursOf(d) == d * HoursPerDay .. (d + 1) * HoursPerDay - 1
DayOf(h) == h \div HoursPerDay
\* usageFactDayStart, as the day that starts at or before h, or at or after it.
FloorDay(h) == h \div HoursPerDay
CeilDay(h) == (h + HoursPerDay - 1) \div HoursPerDay

Tracked == {m \in Members : control[m].active}
Mirrored == {m \in Members : mirror[m].active}
Published == {m \in Members : sync.served[m] > 0}
Larger(a, b) == IF a < b THEN b ELSE a

\* The hour state says "complete" and has a hash.
Complete(m, h) == proof[m][h] > 0 /\ <<m, h>> \notin running
\* The rows of the hour are those the state was computed from.
Verified(m, h) == Complete(m, h) /\ fact[m][h] = proof[m][h]
DayProven(m, d) == \A h \in HoursOf(d) : daily[m][h] > 0
\* Complete hours whose rows were pruned, vouched for by the daily fact.
DayVouches(m, d) == \A h \in HoursOf(d) : Complete(m, h) /\ daily[m][h] = proof[m][h]
\* usageFactPublishedMemberCompatible.
Compatible(m) == control[m].active /\ sync.served[m] = control[m].rev
\* The readers see a published member only under its current revision.
Readable(m) == sync.served[m] > 0 /\ Compatible(m)

Jobs == {"none", "boot", "tail", "backfill", "reconcile"}
At(place) == loop.at = place
NoHour == [m \in Members |-> 0]
Top == [at |-> "top", job |-> "none", end |-> 0, ids |-> {}, hour |-> 0,
        rows |-> NoHour, before |-> NoHour, seen |-> {}]
NoRepair == [active |-> FALSE, from |-> 0, through |-> 0, fp |-> {}, resume |-> NoHour]
Spend(what) == spent' = [spent EXCEPT ![what] = @ + 1]

\* How much of the bounds is used up is left to the instances.
Start(used) ==
  /\ control = [m \in Members |-> [active |-> m \in FirstMembers, left |-> 0,
                                   rev |-> IF m \in FirstMembers THEN 1 ELSE 0]]
  /\ source = [m \in Members |-> [h \in Hours |-> 1]]
  /\ end = FirstEnd
  /\ fact = [m \in Members |-> [h \in Hours |-> 0]]
  /\ proof = fact /\ daily = fact
  /\ running = {} /\ leased = FALSE
  /\ mirror = [m \in Members |-> [active |-> FALSE, rev |-> 0, cursor |-> 0]]
  /\ sync = [fp |-> {}, served |-> NoHour, from |-> 0, through |-> 0, repair |-> NoRepair,
             pruned |-> -HoursPerDay, reconcile |-> 0]
  /\ loop = [Top EXCEPT !.at = "start"]
  /\ spent = used

Init == Start([late |-> 0, changes |-> 0, crashes |-> 0, failures |-> 0, repairs |-> 0])

-----------------------------------------------------------------------------
(* The world around the loop.                                                *)

CloseHour ==
  /\ end < LastEnd /\ end' = end + 1
  /\ UNCHANGED <<control, source, stores, mirror, sync, loop, spent>>

LateLog(m, h) ==
  /\ h < end /\ spent.late < MaxLate /\ Spend("late")
  /\ source' = [source EXCEPT ![m][h] = @ + 1]
  /\ UNCHANGED <<control, end, stores, mirror, sync, loop>>

\* addUsageMember: a member that was removed comes back under a new revision.
AddMember(m) ==
  /\ ~control[m].active /\ spent.changes < MaxChanges /\ Spend("changes")
  /\ control' = [control EXCEPT ![m].active = TRUE, ![m].rev = @ + 1]
  /\ UNCHANGED <<source, end, stores, mirror, sync, loop>>

RemoveMember(m) ==
  /\ control[m].active /\ spent.changes < MaxChanges /\ Spend("changes")
  /\ control' = [control EXCEPT ![m] = [active |-> FALSE, rev |-> @.rev + 1, left |-> end]]
  /\ UNCHANGED <<source, end, stores, mirror, sync, loop>>

\* A crash keeps the running rows; their lease outlives the process.
Crash ==
  /\ spent.crashes < MaxCrashes /\ Spend("crashes")
  /\ loop' = [Top EXCEPT !.at = "start"] /\ leased' = (leased \/ running # {})
  /\ UNCHANGED <<control, source, end, fact, proof, running, daily, mirror, sync>>

LeaseExpires ==
  /\ leased /\ leased' = FALSE
  /\ UNCHANGED <<control, source, end, fact, proof, running, daily, mirror, sync, loop, spent>>

-----------------------------------------------------------------------------
(* The mirror of the member list, and repairs.                               *)

\* Where the backfill of member m resumes after ensureUsageFactMembershipAt.
Cursor(m, start) ==
  LET old == mirror[m] IN
  IF old.rev = 0 THEN start
  ELSE IF ~old.active \/ old.rev # control[m].rev
    THEN IF control[m].left > 0 /\ control[m].left < old.cursor THEN control[m].left ELSE old.cursor
    ELSE Larger(old.cursor, start)

\* ensureUsageFactMembershipAtContext, for the window that closes at hour e.
EnsuredMirror(e) == [m \in Members |->
  IF control[m].active
    THEN [active |-> TRUE, rev |-> control[m].rev, cursor |-> Cursor(m, e - Window)]
  ELSE IF mirror[m].active THEN [mirror[m] EXCEPT !.active = FALSE, !.rev = control[m].rev]
  ELSE mirror[m]]
EnsuredSync(e) ==
  IF sync.fp = Tracked THEN sync ELSE [sync EXCEPT !.fp = Tracked, !.reconcile = e - Window]
Ensure(e) == mirror' = EnsuredMirror(e) /\ sync' = EnsuredSync(e)

\* beginUsageFactRepairTx, for members ids over the days from .. through - 1.
BeginRepair(from, through, ids) ==
  LET range == from * HoursPerDay .. through * HoursPerDay - 1 IN
  /\ ids # {} /\ ids \subseteq Mirrored
  /\ sync' = [sync EXCEPT !.repair = [active |-> TRUE, from |-> from * HoursPerDay,
       through |-> through * HoursPerDay, fp |-> sync.fp,
       resume |-> [m \in Members |-> IF m \in ids THEN mirror[m].cursor ELSE 0]]]
  /\ proof' = [m \in Members |-> [h \in Hours |-> IF m \in ids /\ h \in range THEN 0 ELSE proof[m][h]]]
  /\ running' = running \ (ids \X range)
  /\ mirror' = [m \in Members |-> IF m \in ids /\ mirror[m].cursor > from * HoursPerDay
                                    THEN [mirror[m] EXCEPT !.cursor = from * HoursPerDay] ELSE mirror[m]]

\* requestUsageFactsRepair.
RequestRepair(from, through) ==
  /\ spent.repairs < MaxRepairs /\ Spend("repairs")
  /\ ~sync.repair.active /\ sync.through > sync.from
  /\ CeilDay(sync.from) <= from /\ from < through /\ through <= FloorDay(sync.through)
  /\ sync.fp = Published
  /\ \A m \in Mirrored : mirror[m].cursor >= sync.through
  /\ BeginRepair(from, through, Published)
  /\ UNCHANGED <<control, source, end, fact, leased, daily, loop>>

\* refreshUsageFactRepairProgressTx, on the cursors in cursors.
Targets == {m \in Members : sync.repair.resume[m] > 0}
Canceled == sync.repair.fp # sync.fp
Arrived(cursors) == Targets \subseteq Mirrored /\ \A m \in Targets : cursors[m] >= sync.repair.through
Progress(cursors) ==
  LET done == sync.repair.active /\ ~Canceled /\ Arrived(cursors)
      over == sync.repair.active /\ (Canceled \/ done) IN
  /\ mirror' = [m \in Members |-> [mirror[m] EXCEPT !.cursor =
                  IF done THEN Larger(cursors[m], sync.repair.resume[m]) ELSE cursors[m]]]
  /\ sync' = IF over THEN [sync EXCEPT !.repair = NoRepair] ELSE sync

-----------------------------------------------------------------------------
(* One hour: claimUsageFactHour with the source query, then the commit or    *)
(* the failure.  The query reads the source outside the lock.                *)

\* Mutant: the backfill moves its cursor although the hour was not imported.
AfterHour_Anyway(ok) ==
  CASE loop.job = "tail" /\ loop.hour + 1 < loop.end ->
         [Top EXCEPT !.at = "hour", !.job = "tail", !.end = loop.end, !.ids = loop.ids, !.hour = loop.hour + 1]
    [] loop.job = "tail" /\ loop.hour + 1 >= loop.end -> [Top EXCEPT !.at = "advance", !.end = loop.end]
    [] loop.job = "backfill" ->
         [Top EXCEPT !.at = "cursor", !.end = loop.end, !.ids = loop.ids, !.hour = loop.hour + 1]
    [] OTHER -> Top
\* What the loop does when it is done with an hour, successfully or not.
AfterHour(ok) ==
  CASE loop.job = "tail" /\ loop.hour + 1 < loop.end ->
         [Top EXCEPT !.at = "hour", !.job = "tail", !.end = loop.end, !.ids = loop.ids, !.hour = loop.hour + 1]
    [] loop.job = "tail" /\ loop.hour + 1 >= loop.end -> [Top EXCEPT !.at = "advance", !.end = loop.end]
    [] loop.job = "backfill" /\ ok ->
         [Top EXCEPT !.at = "cursor", !.end = loop.end, !.ids = loop.ids, !.hour = loop.hour + 1]
    [] OTHER -> Top

RetainedFrom(e) == Larger(e - RetainedDays * HoursPerDay, sync.from)
\* The reconciler moves on after an hour, unless the source was busy.
Reconciled ==
  LET start == RetainedFrom(loop.end)
      next == IF loop.hour + 1 >= loop.end - TailHours THEN start ELSE loop.hour + 1 IN
  sync' = IF loop.job = "reconcile" THEN [sync EXCEPT !.reconcile = next] ELSE sync

Held == loop.ids \X {loop.hour}
Busy == leased /\ Held \cap running # {}

Claim ==
  /\ At("hour") /\ ~Busy
  /\ running' = running \cup Held
  /\ loop' = [loop EXCEPT !.at = "claimed",
       !.rows = [m \in Members |-> IF m \in loop.ids THEN source[m][loop.hour] ELSE 0],
       !.before = [m \in Members |->
          IF m \notin loop.ids \/ (<<m, loop.hour>> \in running /\ fact[m][loop.hour] # proof[m][loop.hour])
            THEN 0 ELSE proof[m][loop.hour]]]
  /\ UNCHANGED <<control, source, end, fact, proof, leased, daily, mirror, sync, spent>>

ClaimBusy ==
  /\ At("hour") /\ Busy /\ loop' = AfterHour(FALSE) /\ Reconciled
  /\ UNCHANGED <<control, source, end, stores, mirror, spent>>

Owned == Held \subseteq running

\* rebuildUsageDailyFact: all or none of the members of the batch.
Rebuilt(facts, proofs, busy) ==
  LET hours == HoursOf(DayOf(loop.hour))
      ready == \A m \in loop.ids, h \in hours :
                 proofs[m][h] > 0 /\ <<m, h>> \notin busy /\ facts[m][h] = proofs[m][h] IN
  IF ready THEN [m \in Members |-> [h \in Hours |->
                   IF m \in loop.ids /\ h \in hours THEN facts[m][h] ELSE daily[m][h]]]
  ELSE daily

Commit ==
  LET put(f) == [m \in Members |-> IF m \in loop.ids THEN [f[m] EXCEPT ![loop.hour] = loop.rows[m]] ELSE f[m]] IN
  /\ At("claimed") /\ Owned
  /\ fact' = put(fact) /\ proof' = put(proof) /\ running' = running \ Held
  /\ daily' = Rebuilt(fact', proof', running')
  /\ loop' = AfterHour(TRUE) /\ Reconciled
  /\ UNCHANGED <<control, source, end, leased, mirror, spent>>

\* failUsageFactHourClaim: the source failed or gave way, or the lease ran out.
Fail ==
  /\ At("claimed") /\ Owned /\ spent.failures < MaxFailures /\ Spend("failures")
  /\ proof' = [m \in Members |->
                 IF m \in loop.ids THEN [proof[m] EXCEPT ![loop.hour] = loop.before[m]] ELSE proof[m]]
  /\ running' = running \ Held
  /\ loop' = AfterHour(FALSE) /\ (Reconciled \/ UNCHANGED sync)
  /\ UNCHANGED <<control, source, end, fact, leased, daily, mirror>>

\* A repair took state rows away: the commit fails, and so does its clean-up.
Lost ==
  /\ At("claimed") /\ ~Owned
  /\ leased' = (leased \/ Held \cap running # {})
  /\ loop' = AfterHour(FALSE) /\ Reconciled
  /\ UNCHANGED <<control, source, end, fact, proof, running, daily, mirror, spent>>

-----------------------------------------------------------------------------
(* The tail: syncUsageFactsTail.                                             *)

StartTail ==
  /\ At("top") /\ Tracked # {}
  /\ loop' = [Top EXCEPT !.at = "hour", !.job = "tail", !.end = end, !.ids = Tracked,
                         !.hour = Larger(end - TailHours, 0)]
  /\ Ensure(end)
  /\ UNCHANGED <<control, source, end, stores, spent>>

SkipTail ==
  /\ At("top") /\ loop' = [Top EXCEPT !.at = "backfill", !.end = end]
  /\ UNCHANGED <<control, source, end, stores, mirror, sync, spent>>

\* advanceUsageFactsPublishedTail.
Advances ==
  /\ sync.through > sync.from /\ loop.end > sync.through
  /\ \A m \in Published : Compatible(m)
  /\ \A m \in Published, h \in sync.through .. loop.end - 1 : Complete(m, h)
Advance ==
  /\ At("advance") /\ loop' = [loop EXCEPT !.at = "prune"]
  /\ sync' = IF Advances THEN [sync EXCEPT !.through = loop.end, !.from = loop.end - Window] ELSE sync
  /\ UNCHANGED <<control, source, end, stores, mirror, spent>>

\* pruneUsageFacts reads the sync state, then deletes, and saves what it read.
PruneReads ==
  /\ At("prune")
  /\ loop' = IF sync.pruned + HoursPerDay > loop.end THEN [Top EXCEPT !.at = "backfill", !.end = loop.end]
             ELSE [loop EXCEPT !.at = "pruning", !.seen = {sync}]
  /\ UNCHANGED <<control, source, end, stores, mirror, sync, spent>>
PruneWrites ==
  LET cutoff == HoursPerDay * FloorDay(Larger(loop.end - RetainedDays * HoursPerDay, 0)) IN
  /\ At("pruning")
  /\ fact' = [m \in Members |-> [h \in Hours |-> IF h < cutoff THEN 0 ELSE fact[m][h]]]
  /\ sync' \in {[s EXCEPT !.pruned = loop.end] : s \in loop.seen}
  /\ loop' = [Top EXCEPT !.at = "backfill", !.end = loop.end]
  /\ UNCHANGED <<control, source, end, proof, running, leased, daily, mirror, spent>>

-----------------------------------------------------------------------------
(* The backfill: syncNextUsageFactHour.                                      *)

StartBackfill ==
  /\ At("backfill") /\ Tracked # {}
  /\ loop' = [Top EXCEPT !.at = "pick", !.end = loop.end] /\ Ensure(loop.end)
  /\ UNCHANGED <<control, source, end, stores, spent>>
NoMembers ==
  /\ At("backfill") /\ Tracked = {} /\ loop' = Top
  /\ UNCHANGED <<control, source, end, stores, mirror, sync, spent>>

Pending == {m \in Mirrored : mirror[m].cursor < loop.end}
Lowest == Min({mirror[m].cursor : m \in Pending})
Batch == {m \in Pending : mirror[m].cursor = Lowest}
\* The hour to import: the batch's cursor, but none before the window.
StartHour == Larger(Lowest, loop.end - Window)
\* usageFactBatchRevisionCurrent.
RevisionCurrent(ids) == \A m \in ids : control[m].active /\ control[m].rev = mirror[m].rev

\* verifiedUsageFactMemberBackfillThrough.
Sound(m, h) == Verified(m, h) \/ (Complete(m, h) /\ DayVouches(m, DayOf(h)))
Through == Max({t \in StartHour .. loop.end : \A m \in Batch, h \in StartHour .. t - 1 : Sound(m, h)})

PickBatch ==
  /\ At("pick") /\ Pending # {}
  /\ loop' = IF ~RevisionCurrent(Batch) THEN Top
             ELSE IF Through > StartHour THEN [loop EXCEPT !.at = "cursor", !.ids = Batch, !.hour = Through]
             ELSE [loop EXCEPT !.at = "hour", !.job = "backfill", !.ids = Batch, !.hour = StartHour]
  /\ UNCHANGED <<control, source, end, stores, mirror, sync, spent>>

\* setUsageFactMemberBackfillCursor.
SetCursor ==
  /\ At("cursor") /\ loop' = Top
  /\ IF RevisionCurrent(loop.ids)
       THEN Progress([m \in Members |-> IF m \in loop.ids THEN Larger(mirror[m].cursor, loop.hour)
                                                           ELSE mirror[m].cursor])
       ELSE UNCHANGED <<mirror, sync>>
  /\ UNCHANGED <<control, source, end, stores, spent>>

\* findEarliestUsageFactMemberHourGap and rewindUsageFactMemberBackfillCursor.
Gaps(m) == {h \in loop.end - Window .. loop.end - 1 : ~Complete(m, h)}
Rewind ==
  /\ At("pick") /\ Pending = {}
  /\ \E m \in Mirrored :
       /\ Gaps(m) # {} /\ \A n \in Mirrored : Gaps(n) # {} => Min(Gaps(m)) <= Min(Gaps(n))
       /\ mirror' = [mirror EXCEPT ![m].cursor = Min(Gaps(m))]
  /\ loop' = Top
  /\ UNCHANGED <<control, source, end, stores, sync, spent>>

-----------------------------------------------------------------------------
(* Publication: refreshUsageFactsReadiness with publishUsageFactsSnapshot.   *)

NoGap == Pending = {} /\ \A m \in Mirrored : Gaps(m) = {}
\* refreshUsageFactsReadiness also runs once when the process starts.
Here == loop.at \in {"boot", "pick"} /\ (At("pick") => NoGap)
Onward == IF loop.job = "boot" THEN Top ELSE [Top EXCEPT !.at = "reconcile", !.end = loop.end]

Boot ==
  /\ At("start") /\ loop' = [Top EXCEPT !.at = "boot", !.job = "boot", !.end = end]
  /\ UNCHANGED <<control, source, end, stores, mirror, sync, spent>>
\* The gap audit is due at most once an hour.
AuditNotDue ==
  /\ At("pick") /\ Pending = {} /\ loop' = Onward
  /\ UNCHANGED <<control, source, end, stores, mirror, sync, spent>>

\* Mutants: cursors are not compared with the window, or the list as published.
Candidate_AnyCursor ==
  Tracked # {} /\ Mirrored = Tracked /\ sync.fp = Tracked /\ RevisionCurrent(Tracked)
Candidate_PublishedList ==
  /\ Tracked # {} /\ Mirrored = Tracked /\ sync.fp = Published /\ Pending = {}
  /\ RevisionCurrent(Tracked)
\* FactCoverageReady, and the tracked list under its current revisions.
Candidate ==
  /\ Tracked # {} /\ Mirrored = Tracked /\ sync.fp = Tracked /\ Pending = {}
  /\ RevisionCurrent(Tracked)
Same == /\ sync.from = loop.end - Window /\ sync.through = loop.end
        /\ Published = Tracked /\ \A m \in Tracked : Compatible(m)
\* auditUsageFactSnapshot: full days by their daily proof, the rest by hours.
BadDays == {d \in CeilDay(loop.end - Window) .. FloorDay(loop.end) - 1 : \E m \in Tracked : ~DayProven(m, d)}
TrailingSound == \A m \in Tracked, h \in HoursPerDay * FloorDay(loop.end) .. loop.end - 1 : Verified(m, h)
Publishable == Candidate /\ (Same \/ (BadDays = {} /\ TrailingSound))

Publish ==
  /\ Here /\ Publishable /\ loop' = Onward
  /\ sync' = IF Same THEN sync ELSE
       [sync EXCEPT !.served = [m \in Members |-> IF m \in Tracked THEN control[m].rev ELSE 0],
                    !.from = loop.end - Window, !.through = loop.end]
  /\ UNCHANGED <<control, source, end, stores, mirror, spent>>
PublishFails ==
  /\ Here /\ ~Publishable
  /\ loop' = IF Candidate /\ BadDays # {} THEN [loop EXCEPT !.at = "gap", !.hour = Min(BadDays)] ELSE Onward
  /\ UNCHANGED <<control, source, end, stores, mirror, sync, spent>>

\* requestUsageFactsCandidateGapRepair, for the bad day in loop.hour.
GapMembers == {m \in Tracked : ~DayProven(m, loop.hour)}
GapRepairable ==
  /\ ~sync.repair.active /\ sync.fp = Tracked /\ Pending = {}
  /\ GapMembers # {} /\ GapMembers \subseteq Mirrored
RepairGap ==
  /\ At("gap") /\ loop' = Onward
  /\ IF GapRepairable THEN BeginRepair(loop.hour, loop.hour + 1, GapMembers)
                      ELSE UNCHANGED <<mirror, sync, proof, running>>
  /\ UNCHANGED <<control, source, end, fact, leased, daily, spent>>

-----------------------------------------------------------------------------
(* Reconciliation: reconcileNextUsageFactHour.                               *)

\* Mutant: an hour too many is left to the tail.
ReconcileAllowed_LongTail ==
  /\ \A m \in Tracked : EnsuredMirror(loop.end)[m].cursor >= loop.end
  /\ sync.through > sync.from
  /\ RetainedFrom(loop.end) < loop.end - TailHours - 1
ReconcileAllowed ==
  /\ \A m \in Tracked : EnsuredMirror(loop.end)[m].cursor >= loop.end
  /\ sync.through > sync.from
  /\ RetainedFrom(loop.end) < loop.end - TailHours
ReconcileHour ==
  LET start == RetainedFrom(loop.end)
      next == EnsuredSync(loop.end).reconcile IN
  IF next < start \/ next >= loop.end - TailHours THEN start ELSE next
StartReconcile ==
  /\ At("reconcile") /\ Tracked # {} /\ Ensure(loop.end)
  /\ loop' = IF ReconcileAllowed
       THEN [loop EXCEPT !.at = "hour", !.job = "reconcile", !.ids = Tracked, !.hour = ReconcileHour]
       ELSE Top
  /\ UNCHANGED <<control, source, end, stores, spent>>
SkipReconcile ==
  /\ At("reconcile") /\ loop' = Top
  /\ UNCHANGED <<control, source, end, stores, mirror, sync, spent>>

-----------------------------------------------------------------------------
World ==
  \/ CloseHour
  \/ \E m \in Members, h \in Hours : LateLog(m, h)
  \/ \E m \in Members : AddMember(m) \/ RemoveMember(m)
  \/ \E from, through \in 0 .. LastEnd \div HoursPerDay : RequestRepair(from, through)
  \/ Crash
Turn ==
  \/ Boot \/ StartTail \/ SkipTail \/ Claim \/ ClaimBusy \/ Commit \/ Fail \/ Lost
  \/ Advance \/ PruneReads \/ PruneWrites
  \/ StartBackfill \/ NoMembers \/ PickBatch \/ SetCursor \/ Rewind \/ AuditNotDue
  \/ Publish \/ PublishFails \/ RepairGap \/ StartReconcile \/ SkipReconcile
Next == World \/ Turn \/ LeaseExpires
Spec == Init /\ [][Next]_vars

\* The loop keeps turning and its timers keep firing; a lease runs out.
Fairness ==
  /\ WF_vars(Turn) /\ WF_vars(LeaseExpires) /\ SF_vars(StartTail) /\ SF_vars(StartReconcile)
  /\ SF_vars(Publish \/ PublishFails) /\ SF_vars(Rewind)

-----------------------------------------------------------------------------
(* What must hold.                                                           *)

Places == {"start", "boot", "top", "hour", "claimed", "advance", "prune", "pruning",
           "backfill", "pick", "cursor", "gap", "reconcile"}
\* Every variable has the type of what it stands for; only the loop's own
\* hour is owned while the loop is alive, so a live lease is never overtaken.
TypeOK ==
  /\ control \in [Members -> [active : BOOLEAN, rev : 0 .. MaxChanges + 1, left : 0 .. LastEnd]]
  /\ source \in [Members -> [Hours -> Versions]] /\ end \in FirstEnd .. LastEnd
  /\ fact \in [Members -> [Hours -> Versions]] /\ proof \in [Members -> [Hours -> Versions]]
  /\ daily \in [Members -> [Hours -> Versions]]
  /\ running \subseteq Members \X Hours /\ leased \in BOOLEAN
  /\ mirror \in [Members -> [active : BOOLEAN, rev : 0 .. MaxChanges + 1, cursor : 0 .. LastEnd]]
  /\ sync.fp \subseteq Members /\ sync.served \in [Members -> 0 .. MaxChanges + 1]
  /\ {sync.from, sync.through, sync.reconcile} \subseteq 0 .. LastEnd
  /\ loop.at \in Places /\ loop.job \in Jobs /\ loop.end \in 0 .. LastEnd
  /\ loop.ids \subseteq Members /\ loop.hour \in 0 .. LastEnd

\* A member's backfill cursor stands for an unbroken run of imported hours:
\* usageFactsStatus takes coverage from the cursor alone, without counting the
\* hour proofs, and the publication rests on that.
CursorIsCompletePrefix ==
  \A m \in Mirrored, h \in Hours : end - Window <= h /\ h < mirror[m].cursor => proof[m][h] > 0

\* A member becomes visible to the readers only when every hour of the
\* published window has been imported, those it was away for included: a
\* snapshot of its former membership never passes for the new one.
BecomesReadableWhole ==
  \A m \in Members : ~Readable(m) /\ Readable(m)' =>
    \A h \in Hours : sync.from' <= h /\ h < sync.through' => proof'[m][h] > 0

\* The published watermark passes a full day only when the day of every
\* published member has the daily proof that the audit of the published
\* snapshot asks for.
PublishedDaysProven ==
  \A m \in Members, d \in CeilDay(sync.from) .. FloorDay(sync.through) - 1 :
    Readable(m) => DayProven(m, d)

\* Late logs reach the local facts while the hour is retained, in the hour and
\* in the daily fact built from it: it is again and again so that none is missing.
FactsConverge == []<> \A m \in Members, h \in Hours :
  source[m][h] > 1 =>
      \/ ~control[m].active
      \/ h < end - RetainedDays * HoursPerDay
      \/ /\ fact[m][h] = source[m][h]
         /\ CeilDay(end - Window) <= DayOf(h) => daily[m][h] \in {0, source[m][h]}

\* Whoever joins, leaves or crashes, again and again every tracked member is readable
\* through the last closed hour.
EveryMemberServed == []<> \A m \in Members : control[m].active => Readable(m) /\ sync.through = end
=============================================================================
