------------------------------ MODULE MCBooks ------------------------------
(***************************************************************************)
(* Small instances of the parts that read books elsewhere and keep what     *)
(* they read, for one run of TLC: a behaviour is one of one part.  x1 to     *)
(* x13 are the variables of that part, and a property speaks of the         *)
(* behaviours of its part.                                                  *)
(***************************************************************************)
EXTENDS Integers

CONSTANTS m1, m2

VARIABLES part, x1, x2, x3, x4, x5, x6, x7, x8, x9, x10, x11, x12, x13
rest == <<x9, x10, x11, x12, x13>>
vars == <<part, x1, x2, x3, x4, x5, x6, x7, x8, x9, x10, x11, x12, x13>>

-----------------------------------------------------------------------------
(* Every instance is one of all the proved parts, which share names; a      *)
(* behaviour is of one part under the values of one instance.               *)

RegisteredAt == [m \in {m1} |-> 2]

\* Window: a member that leaves and returns, with a crash.  Days of two hours, a window and a retention
\* of one day, a tail of one hour.
\* Stability: one job over hours of which the first leaves the retention and the second had traffic.
\* Marks: three minutes of a clock over hours of two, beside a backfill of one hour.
\* Rejoin: a member of the full history that leaves and returns at the turn of a day.
Books == INSTANCE BooksParts_proofs WITH
    Members <- {m1}, FirstMembers <- {m1}, HoursPerDay <- 2, WindowDays <- 1, RetainedDays <- 1,
    TailHours <- 1, FirstEnd <- 2, LastEnd <- 4, MaxLate <- 0, MaxChanges <- 2, MaxCrashes <- 1,
    MaxFailures <- 0, MaxRepairs <- 0,
    control <- x1, source <- x2, upto <- x3, copied <- x4, proof <- x5, running <- x6, leased <- x7,
    daily <- x8, mirror <- x9, sync <- x10, turn <- x11, spent <- x12,
    Job <- {m1}, Retained <- 2, Batches <- {1, 2}, MaxAttempts <- 2, Busy <- {1}, First <- 2,
    Last <- 3,
    end <- x1, minutes <- x2, hour <- x3, job <- x4, worker <- x5, epoch <- x6,
    HourLen <- 2, Delay <- 1, Slice <- 2, Overlap <- 1, Migrated <- 2, Lookback <- 1,
    Retention <- 3, HourRetention <- 8, MaxHours <- 1, Followed <- {}, FirstMinute <- 8,
    LastMinute <- 10,
    now <- x1, fact <- x2, hours <- x3, mark <- x4, fill <- x5, loop <- x6,
    Member <- {m1}, Registered <- RegisteredAt, Recent <- 1, MaxChunk <- 2, MaxTries <- 1, Lag <- 0,
    FirstHour <- 3, LastHour <- 4, MaxRev <- 2, MaxEpoch <- 1, MaxFaults <- 0,
    clock <- x7, member <- x8, day <- x9, row <- x10, range <- x11, seen <- x12, faults <- x13

\* Pair: two members of the window of which one comes or goes.
\* Faulty: a failure, a crash or a newly signed source of the full history.
Pair == INSTANCE BooksParts_proofs WITH
    Members <- {m1, m2}, FirstMembers <- {m1}, HoursPerDay <- 2, WindowDays <- 1, RetainedDays <- 1,
    TailHours <- 1, FirstEnd <- 2, LastEnd <- 4, MaxLate <- 0, MaxChanges <- 1, MaxCrashes <- 0,
    MaxFailures <- 0, MaxRepairs <- 0,
    control <- x1, source <- x2, upto <- x3, copied <- x4, proof <- x5, running <- x6, leased <- x7,
    daily <- x8, mirror <- x9, sync <- x10, turn <- x11, spent <- x12,
    Job <- {m1}, Retained <- 2, Batches <- {1, 2}, MaxAttempts <- 2, Busy <- {1}, First <- 2,
    Last <- 3,
    end <- x1, minutes <- x2, hour <- x3, job <- x4, worker <- x5, epoch <- x6,
    HourLen <- 2, Delay <- 1, Slice <- 2, Overlap <- 1, Migrated <- 2, Lookback <- 1,
    Retention <- 3, HourRetention <- 8, MaxHours <- 1, Followed <- {}, FirstMinute <- 8,
    LastMinute <- 10,
    now <- x1, fact <- x2, hours <- x3, mark <- x4, fill <- x5, loop <- x6,
    Member <- {m1}, Registered <- RegisteredAt, Recent <- 1, MaxChunk <- 2, MaxTries <- 2, Lag <- 0,
    FirstHour <- 4, LastHour <- 5, MaxRev <- 1, MaxEpoch <- 2, MaxFaults <- 1,
    clock <- x7, member <- x8, day <- x9, row <- x10, range <- x11, seen <- x12, faults <- x13

\* Tardy: late logs of the full history, which come after their hour was read.
Tardy == INSTANCE BooksParts_proofs WITH
    Members <- {m1, m2}, FirstMembers <- {m1}, HoursPerDay <- 2, WindowDays <- 1, RetainedDays <- 1,
    TailHours <- 1, FirstEnd <- 2, LastEnd <- 4, MaxLate <- 0, MaxChanges <- 1, MaxCrashes <- 0,
    MaxFailures <- 0, MaxRepairs <- 0,
    control <- x1, source <- x2, upto <- x3, copied <- x4, proof <- x5, running <- x6, leased <- x7,
    daily <- x8, mirror <- x9, sync <- x10, turn <- x11, spent <- x12,
    Job <- {m1}, Retained <- 2, Batches <- {1, 2}, MaxAttempts <- 2, Busy <- {1}, First <- 2,
    Last <- 3,
    end <- x1, minutes <- x2, hour <- x3, job <- x4, worker <- x5, epoch <- x6,
    HourLen <- 2, Delay <- 1, Slice <- 2, Overlap <- 1, Migrated <- 2, Lookback <- 1,
    Retention <- 3, HourRetention <- 8, MaxHours <- 1, Followed <- {}, FirstMinute <- 8,
    LastMinute <- 10,
    now <- x1, fact <- x2, hours <- x3, mark <- x4, fill <- x5, loop <- x6,
    Member <- {m1}, Registered <- RegisteredAt, Recent <- 1, MaxChunk <- 2, MaxTries <- 2, Lag <- 1,
    FirstHour <- 4, LastHour <- 5, MaxRev <- 1, MaxEpoch <- 2, MaxFaults <- 0,
    clock <- x7, member <- x8, day <- x9, row <- x10, range <- x11, seen <- x12, faults <- x13

\* An hour without logs and three logs of two hours, of which the second may be late, and a job of an
\* earlier version in the middle of the first day.
HourOfLog == <<3, 3, 4>>
Pages == INSTANCE RawPages WITH
    Logs <- 3, HourOf <- HourOfLog, Late <- {2}, PageSize <- 2, PagesPerTurn <- 1, Spans <- {1, 2},
    HoursPerDay <- 2, Lookback <- 2, RecentDays <- 1, Floor <- 2, Parked <- {3}, Target <- 5,
    log <- x1, facts <- x2, row <- x3, proof <- x4, day <- x5, live <- x6, recent <- x7, job <- x8,
    lane <- x9

-----------------------------------------------------------------------------
Init ==
    \/ part = "window" /\ Books!Usage!Init /\ x13 = {}
    \/ part = "pair" /\ Pair!Usage!Init /\ x13 = {}
    \/ part = "rejoin" /\ Books!History!Init
    \/ part = "faulty" /\ Pair!History!Init
    \/ part = "tardy" /\ Tardy!History!Init
    \/ part = "pages" /\ Pages!Init /\ x10 = {} /\ x11 = {} /\ x12 = {} /\ x13 = {}
    \/ /\ \/ part = "stability" /\ Books!Stability!Init
          \/ part = "marks" /\ Books!Marks!Init
       /\ x7 = {} /\ x8 = {} /\ x9 = {} /\ x10 = {} /\ x11 = {} /\ x12 = {} /\ x13 = {}

Next ==
    \/ part = "window" /\ Books!Usage!Next /\ UNCHANGED <<part, x13>>
    \/ part = "pair" /\ Pair!Usage!Next /\ UNCHANGED <<part, x13>>
    \/ part = "rejoin" /\ Books!History!Next /\ UNCHANGED part
    \/ part = "faulty" /\ Pair!History!Next /\ UNCHANGED part
    \/ part = "tardy" /\ Tardy!History!Next /\ UNCHANGED part
    \/ part = "pages" /\ Pages!Next /\ UNCHANGED <<part, x10, x11, x12, x13>>
    \/ part = "stability" /\ Books!Stability!Next /\ UNCHANGED <<part, x7, x8, rest>>
    \/ part = "marks" /\ Books!Marks!Next /\ UNCHANGED <<part, x7, x8, rest>>

Spec == Init /\ [][Next]_vars
-----------------------------------------------------------------------------
(* The properties of the parts, as they state them, each with the shape of  *)
(* the part's rows, cursors, proofs and claims.                             *)

\* A backfill cursor stands for an unbroken run of imported hours (usageFactsStatus).
CursorIsCompletePrefix ==
    /\ part = "window" => Books!Usage!TypeOK /\ Books!Usage!CursorIsCompletePrefix
    /\ part = "pair" => Pair!Usage!TypeOK /\ Pair!Usage!CursorIsCompletePrefix

\* A member becomes readable only with every hour of the window (publishUsageFactsSnapshot).
BecomesReadableWhole ==
    [][/\ part = "window" => Books!Usage!BecomesReadableWhole
       /\ part = "pair" => Pair!Usage!BecomesReadableWhole]_vars

\* Every published hour is proved, whatever is taken back meanwhile
\* (publishUsageFactFullHistorySnapshot).
PublishedIsProved ==
    /\ part = "rejoin" => Books!History!TypeOK /\ Books!History!PublishedIsProved
    /\ part = "faulty" => Pair!History!TypeOK /\ Pair!History!PublishedIsProved
    /\ part = "tardy" => Tardy!History!TypeOK /\ Tardy!History!PublishedIsProved

\* A job that has ended accounts for every hour of its range (runStabilityBackfill).
HoursAccounted == part = "stability" => Books!Stability!TypeOK /\ Books!Stability!HoursAccounted

\* An hour is proved and a day signed with every log counted once, whatever two lanes import
\* (finalizeUsageFactRawPageVerification).
SignedIsExact == part = "pages" => Pages!TypeOK /\ Pages!SignedIsExact

\* What the metric watermarks cover was read when it was final (metricWindowCoverage).
CoverageIsHeld == part = "marks" => Books!Marks!TypeOK /\ Books!Marks!CoverageIsHeld
=============================================================================
