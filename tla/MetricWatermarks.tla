-------------------------- MODULE MetricWatermarks --------------------------
(***************************************************************************)
(* The request facts of src/monitor/sampler.go and the row that says which  *)
(* of them may be trusted (MetricFinalizeState): a loop samples the last    *)
(* minutes, reads each range again once it is final, replays the facts of   *)
(* an older FRT rule, and prunes; a backfill asked for by an operator reads *)
(* hours beside it and publishes what it covered.                           *)
(*                                                                         *)
(* Time is counted in minutes, and every minute had traffic.  An hour's row *)
(* is the set of minutes whose final facts it sums.  Token facts are left   *)
(* out (their failure is the failure of the read), and so are the columns   *)
(* that only show progress; a turn that waits for its retry does not come.  *)
(* Reading the row and writing what must be renewed in it is one step.      *)
(***************************************************************************)
EXTENDS Integers

CONSTANTS
    HourLen,        \* minutes of an hour
    Delay,          \* metricFinalizeDelaySec
    Slice,          \* metricFinalizeSliceSec
    Overlap,        \* metricFinalizeInitialOverlapSec
    Migrated,       \* metricMigrationLookbackSec
    Lookback,       \* minutes that a sample reads
    Retention,      \* RetentionDays
    HourRetention,  \* HourRetentionDays
    MaxHours,       \* bound: hours of a backfill
    Followed,       \* bound: the hours whose rows are followed; no step depends on them
    First, Last     \* bound: the clock

Minute == 0 .. Last
FloorHour(t) == t - (t % HourLen)
Hour == {h \in Minute : h % HourLen = 0}
MinutesOf(h) == h .. h + HourLen - 1

VARIABLES
    now,     \* the clock
    fact,    \* the facts of a minute, and by which rules they were read
    hour,    \* hour_samples
    mark,    \* MetricFinalizeState
    loop,    \* the loop, and what its turn remembers
    fill     \* the backfill, and how far it is

vars == <<now, fact, hour, mark, loop, fill>>

\* Of another traffic class, of another FRT rule, read while logs may still come, read when final.
Kinds == {"none", "old", "legacy", "live", "final"}
NoRow == [none |-> TRUE]
Row == [next : Nat, from : Nat, target : Nat, current : BOOLEAN,
        frtFrom : Nat, frtThrough : Nat, frtCurrent : BOOLEAN,
        hourFrom : Nat, hourTo : Nat, hourCurrent : BOOLEAN]

Resting == [pc |-> "rest"]
NoFill == [pc |-> "none"]

TypeOK ==
    /\ now \in First .. Last
    /\ fact \in [Minute -> Kinds]
    /\ \A h \in Followed : hour[h] \subseteq MinutesOf(h)
    /\ mark \in Row \cup {NoRow}
    /\ loop.pc \in {"rest", "sampled", "advance", "replay", "replayed", "maintain"}
    /\ loop.pc # "rest" => loop.time \in First .. now
    /\ loop.pc \in {"advance", "replayed"} => loop.from \in Minute /\ loop.to \in Minute
    /\ fill.pc \in {"none", "read", "roll", "tail", "load", "publish"}
    /\ fill.pc # "none" =>
         /\ fill.at \in Hour /\ fill.from <= fill.at /\ fill.at <= fill.until
         /\ fill.failed \in BOOLEAN

Larger(a, b) == IF a > b THEN a ELSE b
Smaller(a, b) == IF a < b THEN a ELSE b

\* metricFinalizeTarget: the minutes below it are final.
Target(t) == t - Delay
\* metricMinuteRetentionCutoff.
Cutoff(t) == Larger(Target(t) - Retention, 0)

-----------------------------------------------------------------------------
(* Facts.                                                                   *)

\* sampleRange replaces the minutes it reads.
Read(lo, hi) ==
    [m \in Minute |-> IF m < lo \/ m >= hi THEN fact[m]
                      ELSE IF m < Target(now) THEN "final" ELSE "live"]

Counted(f, m) == f[m] \notin {"none", "old"}
Whole(f, m) == f[m] \in {"legacy", "final"}

\* rollupHours: the hours that have minutes since then are replaced.
RollSince(f, since) ==
    [h \in Followed |->
       LET summed == {m \in MinutesOf(h) \cap Minute : m >= since /\ Counted(f, m)}
       IN  IF summed = {} THEN hour[h] ELSE {m \in summed : Whole(f, m)}]

\* rollupHourRange of one hour: its old row goes first.
RollHour(f, h) ==
    [x \in Followed |-> IF x = h THEN {m \in MinutesOf(h) : Whole(f, m)} ELSE hour[x]]

\* pruneOlderThan: what is deleted is no longer covered.
Drop(cutoff) == [m \in Minute |-> IF m < cutoff THEN "none" ELSE fact[m]]
Narrowed(r, cutoff) ==
    IF r = NoRow THEN r
    ELSE [r EXCEPT !.from = Larger(@, cutoff), !.next = Larger(@, cutoff),
                   !.frtFrom = IF @ > 0 THEN Larger(@, cutoff) ELSE 0,
                   !.frtThrough = IF r.frtFrom > 0 THEN Larger(@, cutoff) ELSE @]

-----------------------------------------------------------------------------
(* The row.                                                                 *)

\* metricFinalizeHasLegacyTTFTRows.
Legacy(lo, hi) == \E m \in lo .. hi - 1 : fact[m] = "legacy"

StartAt(t) ==
    Target(t) - (IF \E m \in Minute : fact[m] = "old" THEN Migrated ELSE Overlap)

\* Whole hours begin at the next full hour.
HourStart(t) == FloorHour(StartAt(t) + HourLen - 1)

NewRow(t) ==
    [next |-> StartAt(t), from |-> StartAt(t), target |-> Target(t), current |-> TRUE,
     frtFrom |-> StartAt(t), frtThrough |-> StartAt(t), frtCurrent |-> TRUE,
     hourFrom |-> HourStart(t), hourTo |-> HourStart(t), hourCurrent |-> TRUE]

\* Request facts of another class are read anew from the start.
Reclassified(r, t) ==
    IF r.current THEN r
    ELSE [r EXCEPT !.next = StartAt(t), !.from = StartAt(t), !.target = Target(t),
                   !.current = TRUE]

\* FRT facts are replayed from the retention's edge, unless that is under way.
Replaying(r, t) ==
    /\ r.frtCurrent /\ r.frtFrom > 0 /\ r.frtFrom <= Cutoff(t)
    /\ r.frtThrough >= Cutoff(t) /\ r.frtThrough < Target(t)
Outdated(r, t) ==
    \/ ~r.frtCurrent
    \/ /\ Legacy(Cutoff(t), Target(t))
       /\ ~Replaying(r, t) \/ Legacy(Cutoff(t), Smaller(Target(t), r.frtThrough))
FrtReset(r, t) ==
    IF ~Outdated(r, t) THEN r
    ELSE [r EXCEPT !.frtCurrent = TRUE, !.frtFrom = Cutoff(t), !.frtThrough = Cutoff(t)]

HoursReset(r, t) ==
    IF r.hourCurrent THEN r
    ELSE [r EXCEPT !.hourFrom = HourStart(t), !.hourTo = HourStart(t), !.hourCurrent = TRUE]

\* loadOrExtendMetricFinalizeState, by the time its caller knows.
Loaded(t) ==
    LET row == IF mark = NoRow THEN NewRow(t) ELSE mark
        renewed == HoursReset(FrtReset(Reclassified(row, t), t), t)
    IN  [renewed EXCEPT !.target = Larger(@, Target(t))]

\* Mutant: whatever lies between two ranges is taken for covered.
Joined_AcrossGaps(known, from, to, lo, hi) ==
    IF known /\ from > 0 /\ to > from
    THEN [from |-> Smaller(from, lo), to |-> Larger(to, hi)]
    ELSE [from |-> lo, to |-> hi]

\* publishMetricBackfillCoverage joins ranges that touch; of two that do not the newer stays.
Joined(known, from, to, lo, hi) ==
    CASE known /\ from > 0 /\ to > from /\ to >= lo /\ hi >= from ->
            [from |-> Smaller(from, lo), to |-> Larger(to, hi)]
      [] known /\ from > 0 /\ to > from /\ lo > to -> [from |-> lo, to |-> hi]
      [] known /\ from > 0 /\ to > from /\ hi < from -> [from |-> from, to |-> to]
      [] OTHER -> [from |-> lo, to |-> hi]

Published(r, lo, hi, hourLo, hourHi) ==
    LET minutes == Joined(r.current, r.from, r.next, lo, hi)
        frt == Joined(r.frtCurrent, r.frtFrom, r.frtThrough, lo, hi)
        hours == Joined(r.hourCurrent, r.hourFrom, r.hourTo, hourLo, hourHi)
        empty == ~(r.current /\ r.next > r.from)
    IN  [next |-> Larger(r.next, hi), target |-> Larger(r.target, hi), current |-> TRUE,
         from |-> IF empty /\ r.next > hi THEN r.next ELSE minutes.from,
         frtFrom |-> frt.from, frtThrough |-> frt.to, frtCurrent |-> TRUE,
         hourFrom |-> hours.from, hourTo |-> hours.to, hourCurrent |-> TRUE]

-----------------------------------------------------------------------------
(* A new store, one whose facts follow an older FRT rule, or one of another *)
(* traffic class.                                                           *)

Held == Cutoff(First) .. Target(First) - 1
Upgraded(current, frtCurrent) ==
    [next |-> Target(First), from |-> Cutoff(First), target |-> Target(First),
     current |-> current, frtCurrent |-> frtCurrent,
     frtFrom |-> IF frtCurrent THEN Cutoff(First) ELSE 0,
     frtThrough |-> IF frtCurrent THEN Target(First) ELSE 0,
     hourFrom |-> FloorHour(Cutoff(First) + HourLen - 1),
     hourTo |-> FloorHour(Target(First)), hourCurrent |-> current]
Store(kind, row) ==
    /\ fact = [m \in Minute |-> IF m \in Held THEN kind ELSE "none"]
    /\ hour = [h \in Followed |-> IF kind = "legacy" THEN MinutesOf(h) \cap Held ELSE {}]
    /\ mark = row

Init ==
    /\ now = First
    /\ \/ Store("none", NoRow)
       \/ Store("legacy", Upgraded(TRUE, FALSE))
       \/ Store("old", Upgraded(FALSE, TRUE))
    /\ loop = Resting
    /\ fill = NoFill

-----------------------------------------------------------------------------
(* One turn of the loop.                                                    *)

At(pc) == loop.pc = pc
GoTo(pc) == loop' = [pc |-> pc, time |-> loop.time]

\* Without its sample a turn does neither of what follows.
Sample ==
    /\ At("rest") /\ loop' = [pc |-> "sampled", time |-> now]
    /\ fact' = Read(now - Lookback, now)
    /\ UNCHANGED <<now, hour, mark, fill>>

\* runMetricFinalizeTurnWith up to its cursor: the range is read and the hours are summed.
Finalize ==
    /\ At("sampled")
    /\ mark' = Loaded(loop.time)
    /\ LET from == mark'.next
           to == Smaller(from + Slice, mark'.target)
       IN  IF from >= mark'.target THEN GoTo("replay") /\ UNCHANGED <<fact, hour>>
           ELSE /\ fact' = Read(from, to)
                /\ hour' = RollSince(fact', FloorHour(from))
                /\ loop' = [pc |-> "advance", time |-> loop.time, from |-> from, to |-> to,
                            row |-> mark']
    /\ UNCHANGED <<now, fill>>

\* A query fails; the rows of a slice that was read stay.
FinalizeFails ==
    /\ At("sampled") /\ GoTo("maintain")
    /\ mark' = Loaded(loop.time)
    /\ fact' \in {fact, Read(mark'.next, Smaller(mark'.next + Slice, mark'.target))}
    /\ UNCHANGED <<now, hour, fill>>

\* The FRT of the slice counts only where it continues what is known of FRT.
FrtAfter(r, from, to) ==
    IF r.frtCurrent /\ r.frtFrom > 0 /\ r.frtFrom <= from /\ r.frtThrough = from
    THEN [mark EXCEPT !.frtThrough = to] ELSE mark

Advance ==
    /\ At("advance")
    /\ IF mark.next # loop.from THEN GoTo("maintain") /\ UNCHANGED mark
       ELSE /\ mark' = [FrtAfter(loop.row, loop.from, loop.to) EXCEPT
                          !.next = loop.to, !.target = loop.row.target, !.frtCurrent = TRUE,
                          !.hourTo = IF FloorHour(loop.to) > loop.row.hourTo
                                     THEN FloorHour(loop.to) ELSE @]
            /\ GoTo("replay")
    /\ UNCHANGED <<now, fact, hour, fill>>

\* runMetricFRTReplayTurnWith.
ReplayEnd(r) == Smaller(r.next, r.target)
Replay ==
    /\ At("replay")
    /\ LET from == mark.frtThrough
           to == Smaller(from + Slice, ReplayEnd(mark))
       IN  IF ~mark.frtCurrent \/ mark.frtFrom <= 0 \/ from < mark.frtFrom
                \/ from >= ReplayEnd(mark)
           THEN GoTo("maintain") /\ UNCHANGED <<fact, hour>>
           ELSE /\ fact' = Read(from, to)
                /\ hour' = RollSince(fact', FloorHour(from))
                /\ loop' = [pc |-> "replayed", time |-> loop.time, from |-> from, to |-> to]
    /\ UNCHANGED <<now, mark, fill>>

ReplaySaves ==
    /\ At("replayed") /\ GoTo("maintain")
    /\ IF mark.frtThrough = loop.from /\ mark.frtCurrent
       THEN mark' = [mark EXCEPT !.frtThrough = loop.to]
       ELSE UNCHANGED mark
    /\ UNCHANGED <<now, fact, hour, fill>>

\* A turn is not always due, and a write or a query of its replay may fail.
Skip ==
    /\ loop.pc \in {"sampled", "advance", "replay", "replayed"} /\ GoTo("maintain")
    /\ UNCHANGED <<now, fact, hour, mark, fill>>

\* Hours first, then the minutes they were summed from.
PruneHours(h) == [x \in Followed |-> IF x < now - HourRetention THEN {} ELSE h[x]]
Maintain ==
    /\ At("maintain") /\ loop' = Resting
    /\ \/ UNCHANGED <<fact, hour, mark>>
       \/ /\ hour' = PruneHours(RollSince(fact, Cutoff(loop.time)))
          /\ \/ fact' = Drop(Cutoff(loop.time)) /\ mark' = Narrowed(mark, Cutoff(loop.time))
             \/ UNCHANGED <<fact, mark>>
    /\ UNCHANGED <<now, fill>>

-----------------------------------------------------------------------------
(* The backfill.                                                            *)

Fills(pc) == fill.pc = pc

\* Whole hours up to the last that is final.
Start ==
    /\ Fills("none")
    /\ \E n \in 1 .. MaxHours :
          LET until == FloorHour(Target(now)) IN
          /\ until - n * HourLen >= 0
          /\ fill' = [pc |-> "read", from |-> until - n * HourLen, at |-> until - n * HourLen,
                      until |-> until, time |-> now, failed |-> FALSE]
    /\ UNCHANGED <<now, fact, hour, mark, loop>>

NextHour(failed) ==
    LET at == fill.at + HourLen IN
    fill' = [fill EXCEPT !.at = at, !.failed = @ \/ failed,
                         !.pc = IF at < fill.until THEN "read" ELSE "tail"]

FillReads ==
    /\ Fills("read")
    /\ fact' = Read(fill.at, fill.at + HourLen)
    /\ fill' = [fill EXCEPT !.pc = "roll"]
    /\ UNCHANGED <<now, hour, mark, loop>>

\* Minutes that are not kept are deleted once the hour has them.
FillRolls ==
    /\ Fills("roll")
    /\ hour' = RollHour(fact, fill.at)
    /\ fact' = IF fill.at + HourLen > Cutoff(fill.time) THEN fact
               ELSE [m \in Minute |-> IF m \in MinutesOf(fill.at) THEN "none" ELSE fact[m]]
    /\ NextHour(FALSE)
    /\ UNCHANGED <<now, mark, loop>>

\* A query or the sum fails: what was read stays, and the next hour is tried.
FillFails ==
    /\ Fills("read") \/ Fills("roll")
    /\ NextHour(TRUE)
    /\ UNCHANGED <<now, fact, hour, mark, loop>>

\* The minutes behind the last whole hour; without a failure the ranges are published.
FillTail ==
    /\ Fills("tail")
    /\ \/ /\ fact' = Read(fill.until, Target(fill.time))
          /\ fill' = IF fill.failed THEN NoFill ELSE [fill EXCEPT !.pc = "load"]
       \/ UNCHANGED fact /\ fill' = NoFill
    /\ UNCHANGED <<now, hour, mark, loop>>

FillLoads ==
    /\ Fills("load")
    /\ mark' = Loaded(fill.time)
    /\ fill' = [fill EXCEPT !.pc = "publish"]
    /\ UNCHANGED <<now, fact, hour, loop>>

FillPublishes ==
    /\ Fills("publish")
    /\ mark' = Published(mark, Larger(fill.from, Cutoff(fill.time)), Target(fill.time),
                         fill.from, fill.until)
    /\ fill' = NoFill
    /\ UNCHANGED <<now, fact, hour, loop>>

-----------------------------------------------------------------------------
\* The process ends; a new one may read the last minutes and sums the hours.
Restart ==
    /\ loop' = Resting /\ fill' = NoFill
    /\ \/ UNCHANGED <<fact, hour>>
       \/ /\ fact' \in {fact, Read(now - Lookback, now)}
          /\ hour' = RollSince(fact', Cutoff(now))
    /\ UNCHANGED <<now, mark>>

\* Nothing need happen in a minute.
Tick ==
    /\ now < Last /\ now' = now + 1
    /\ UNCHANGED <<fact, hour, mark, loop, fill>>

Next ==
    \/ Sample \/ Finalize \/ FinalizeFails \/ Advance \/ Replay \/ ReplaySaves \/ Skip \/ Maintain
    \/ Start \/ FillReads \/ FillRolls \/ FillFails \/ FillTail \/ FillLoads \/ FillPublishes
    \/ Restart \/ Tick

Spec == Init /\ [][Next]_vars
-----------------------------------------------------------------------------
(* What the row says of the facts.                                          *)

Requests(m) == mark.current /\ mark.from <= m /\ m < mark.next
Frt(m) == mark.frtCurrent /\ mark.frtFrom > 0 /\ mark.frtFrom <= m /\ m < mark.frtThrough

\* A minute that is covered was read when it was final, and as far as FRT is covered too, by the
\* current rule; minutes that the retention no longer keeps aside (metricWindowCoverage).
CoverageIsHeld ==
    mark # NoRow =>
      \A m \in Minute : Requests(m) /\ m >= Cutoff(now) =>
         Whole(fact, m) /\ (Frt(m) => fact[m] = "final")

\* "long-term data is not lost" (src/monitor/store.go, rollupHours): an hour that is covered
\* (metricHourWindowCoverage) and within its own retention sums all its minutes.
CoveredHourIsWhole ==
    mark # NoRow /\ mark.hourCurrent =>
      \A h \in Followed : mark.hourFrom <= h /\ h + HourLen <= mark.hourTo /\ h >= now - HourRetention
         => hour[h] = MinutesOf(h)
=============================================================================
