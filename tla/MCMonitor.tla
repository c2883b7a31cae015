----------------------------- MODULE MCMonitor -----------------------------
(***************************************************************************)
(* Small instances of the parts of the system that share no state with each *)
(* other, for one run of TLC: a behaviour is one of one part.  x1 to x13 are *)
(* the variables of that part (those it does not need stay empty), and a    *)
(* property speaks of the behaviours of its part.  Names that a part tells  *)
(* apart only by identity are taken from Two, Three and Others, in which every part *)
(* is symmetric.                                                            *)
(***************************************************************************)
EXTENDS Naturals, TLC

CONSTANTS a1, a2, b1, b2, b3, c1, c2, none, seal, root, absent, host1, t1, t2, t3

\* Nothing stands for two things.
ASSUME Distinct == /\ none \notin {a1, a2, b1, b2, b3, c1, c2, host1} /\ host1 \notin {b1, b2, b3}
                   /\ "none" \notin {a1, a2, b1, b2, b3, host1} /\ "monitor" \notin {a1, a2, none}
                   /\ {seal, root, absent} \cap {a1, a2} = {}
                   /\ seal # root /\ absent \notin {seal, root}

Two == {a1, a2}
Three == {b1, b2, b3}
Others == {c1, c2}
Symmetric == Permutations(Two) \cup Permutations(Three) \cup Permutations(Others)

VARIABLES part, x1, x2, x3, x4, x5, x6, x7, x8, x9, x10, x11, x12, x13
vars == <<part, x1, x2, x3, x4, x5, x6, x7, x8, x9, x10, x11, x12, x13>>

\* What a part does not need.
from12 == <<x12, x13>>
from11 == <<x11, from12>>
from9 == <<x9, x10, from11>>
from6 == <<x6, x7, x8, from9>>
Empty12 == x12 = {} /\ x13 = {}
Empty11 == x11 = {} /\ Empty12
Empty9 == x9 = {} /\ x10 = {} /\ Empty11
Empty6 == x6 = {} /\ x7 = {} /\ x8 = {} /\ Empty9

-----------------------------------------------------------------------------
\* The small components, each under the names it knows.
Parts == INSTANCE MonitorParts_proofs WITH
    \* Cache: three requests and a deletion for one key, and two changes of the source.
    Reader <- Three, Deleter <- {host1}, MaxVersion <- 3, Nobody <- none,
    source <- x1, entry <- x2, fresh <- x3, gate <- x4, flight <- x5, pc <- x6, kind <- x7,
    value <- x8, dpc <- x9, from <- x10, floor <- x11,
    \* Account: two operations on an upstream account, and two tokens.
    Op <- Two, NoOp <- none, MaxToken <- 2,
    valid <- x1, issued <- x2, stored <- x3, isolated <- x4, holder <- x5, op <- x6, wanted <- x7,
    harm <- x8,
    \* Guard: two requests to one host.
    Host <- {host1}, Req <- Others, host <- [r \in Others |-> host1], NoReq <- none,
    Concurrency <- 2, Threshold <- 2, OpenDurations <- <<1, 2>>, RetryAfters <- {2}, MaxTime <- 4,
    now <- x1, globalNext <- x2, nextStart <- x3, circuit <- x4, loaded <- x7, saved <- x8,
    asked <- x9, forgotten <- x10,
    \* Sessions: two processes, three sessions, and a base directory that holds two.
    Proc <- Two, Session <- Three, MaxEntries <- 2,
    guard <- x1, parts <- x2, flock <- x3, used <- x4, step <- x5, own <- x6, todo <- x7, at <- x8,
    \* Restoring: two restore commands and a Monitor.
    Restore <- Two,
    dir <- x1, disk <- x2, rstage <- x3, run <- x4, early <- x5,
    \* Logs: two investigations of one operator.
    Owner <- {host1}, Id <- Two, NoTask <- none,
    owner <- x1, status <- x2, claims <- x3, stage <- x4, draft <- x5, canceling <- x6,
    active <- x7, cache <- x8, missed <- x9, closing <- x10,
    \* Migration: two plans after the stores of an older image; four snapshots, of which one is
    \* retained.
    MaxPlan <- 2, MaxSnapshots <- 4, MaxWrites <- 1, Retention <- 1,
    plan <- x1, present <- x2, mark <- x3, data <- x5, copy <- x6, snaps <- x7, made <- x8,
    ref <- x9, had <- x10, column <- x11, filled <- x12, born <- x13,
    \* Chain: two batches, two requests and a journal of three entries.
    Batch <- Two, Seal <- seal, Root <- root, Absent <- absent, JournalLimit <- 3,
    agent <- x1, journal <- x2, previous <- x3, head <- x5, carried <- x6, closer <- x7,
    sent <- x8, bucket <- x9, acked <- x10, receipt <- x11,
    \* Source: two processes with one goroutine in an epoch.
    Process <- Two, MaxWorkers <- 1,
    lock <- x1, link <- x2, sup <- x3, next <- x4, workers <- x5, handler <- x6,
    timedOut <- x7, ending <- x8,
    \* Reports: four reports for two places in the queue, and a history of three.
    Key <- Two \cup Others, Capacity <- 2, History <- 3, RaceLimit <- 2,
    jobs <- x1, pending <- x2, worker <- x3, current <- x4, shutting <- x5

\* Two processes publish two drafts of one month, which can be audited in three ways, at the first
\* attempt; and a single draft with a second one.
Publication == INSTANCE MonthlyPublication_proofs WITH
    Task <- Two, Month <- {host1}, MonthOf <- [t \in Two |-> host1], Proc <- Others, Digest <- Three,
    MaxAttempts <- 1, MaxRows <- 2,
    life <- x1, chosen <- x2, past <- x3, hot <- x4, job <- x5, bill <- x6, withdrawn <- x7,
    proc <- x8, maint <- x9, issued <- x10
Again == INSTANCE MonthlyPublication_proofs WITH
    Task <- {host1}, Month <- {host1}, MonthOf <- [t \in {host1} |-> host1], Proc <- Others, Digest <- Three,
    MaxAttempts <- 2, MaxRows <- 1,
    life <- x1, chosen <- x2, past <- x3, hot <- x4, job <- x5, bill <- x6, withdrawn <- x7,
    proc <- x8, maint <- x9, issued <- x10

\* One rotation, delayed and repeated requests, ranges of different lengths.
Nginx == INSTANCE NginxSourceV2_proofs WITH
    MaxFiles <- 2, MaxSize <- 2, MaxRange <- 2, Payload <- Two, Turns <- 2, MaxFaults <- 1,
    MaxStale <- 1, Deletable <- {1}, CarefulRotation <- FALSE,
    dir <- x1, srv <- x2, net <- x3, disk <- x4, pc <- x5, w <- x6, job <- x7, await <- x8,
    reply <- x9, faults <- x10

\* Two tasks of one organization and one of another, one worker, and a clock that may be stepped back.
Clock == INSTANCE MonthlyTasks WITH
    Task <- {t1, t2, t3}, Group <- {host1, none}, Worker <- {host1},
    GroupOf <- (t1 :> host1) @@ (t2 :> host1) @@ (t3 :> none),
    MaxTasks <- 2, MaxActive <- 2, MaxAttempts <- 2, LeaseTime <- 2, AttemptLimit <- 3,
    RetryDelay <- 1, MaxTime <- 3, ClockRegresses <- TRUE,
    rec <- x1, held <- x2, issued <- x3, now <- x4

-----------------------------------------------------------------------------
Init ==
    \/ part = "source" /\ Parts!Source!Init /\ Empty9
    \/ part = "investigation" /\ Parts!Logs!Init /\ Empty11
    \/ part = "guard" /\ Parts!Guard!Init /\ Empty11
    \/ part = "cache" /\ Parts!Cache!Init /\ Empty12
    \/ part = "account" /\ Parts!Account!Init /\ Empty9
    \/ part = "migration" /\ Parts!Migration!Init
    \/ part = "restore" /\ Parts!Restoring!Init /\ Empty6
    \/ part = "sessions" /\ Parts!Sessions!Init /\ Empty9
    \/ part = "archive" /\ Parts!Chain!Init /\ Empty12
    \/ part = "publication" /\ Publication!Init /\ Empty11
    \/ part = "again" /\ Again!Init /\ Empty11
    \/ part = "nginx" /\ Nginx!Init /\ Empty11
    \/ part = "clock" /\ Clock!Init /\ x5 = {} /\ Empty6
    \/ part = "reports" /\ Parts!Reports!Init /\ Empty6

Next ==
    \/ part = "source" /\ Parts!Source!Next /\ UNCHANGED <<part, from9>>
    \/ part = "investigation" /\ Parts!Logs!Next /\ UNCHANGED <<part, from11>>
    \/ part = "guard" /\ Parts!Guard!Next /\ UNCHANGED <<part, from11>>
    \/ part = "cache" /\ Parts!Cache!Next /\ UNCHANGED <<part, from12>>
    \/ part = "account" /\ Parts!Account!Next /\ UNCHANGED <<part, from9>>
    \/ part = "migration" /\ Parts!Migration!Next /\ UNCHANGED part
    \/ part = "restore" /\ Parts!Restoring!Next /\ UNCHANGED <<part, from6>>
    \/ part = "sessions" /\ Parts!Sessions!Next /\ UNCHANGED <<part, from9>>
    \/ part = "archive" /\ Parts!Chain!Next /\ UNCHANGED <<part, from12>>
    \/ part = "publication" /\ Publication!Next /\ UNCHANGED <<part, from11>>
    \/ part = "again" /\ Again!Next /\ UNCHANGED <<part, from11>>
    \/ part = "nginx" /\ Nginx!Next /\ UNCHANGED <<part, from11>>
    \/ part = "clock" /\ Clock!Next /\ UNCHANGED <<part, x5, from6>>
    \/ part = "reports" /\ Parts!Reports!Next /\ UNCHANGED <<part, from6>>

Spec == Init /\ [][Next]_vars
-----------------------------------------------------------------------------
(* The properties of the parts, as they state them; with the first of a     *)
(* part, that its rows, locks, slots and files have the shape the code      *)
(* knows.                                                                   *)

\* Workers of an epoch run only under the advisory lock, and Close gives up the source only when
\* the last of them is gone (superviseSource, stopAndWaitSource).
Fenced == part = "source" => Parts!Source!TypeOK /\ Parts!Source!Fenced /\ Parts!Source!ClosedIsDrained

\* A result claims no audit row that was not written, and Close waits for every investigation
\* (appendInvestigationAudit, investigationWG).
NoAuditOverclaimed ==
    part = "investigation" =>
        /\ Parts!Logs!TypeOK /\ Parts!Logs!NoAuditOverclaimed
        /\ Parts!Logs!ReleasedIsQuiet

\* A canceled investigation never shows a result (cancelLogChainInvestigation).
CancelledStays == [][part = "investigation" => Parts!Logs!StaysCancelled]_vars

\* No request is sent before the cooldown of its host is over (loadCircuit, persistCircuit).
CooldownKept == [][part = "guard" => Parts!Guard!TypeOK /\ Parts!Guard!StartsAfterCooldown]_vars

\* Nothing stale is stored after a deletion or a newer fill (usageResultCache.Delete).
NeverStale == part = "cache" => Parts!Cache!TypeOK /\ Parts!Cache!NeverStale

\* An upstream account keeps a valid token (syncStoredUpstreamUsageWithPriority).
AccountKept == part = "account" => Parts!Account!TypeOK /\ Parts!Account!AccountKept

\* A migrated store has its way back (createPreMigrationSnapshot).
RollbackPoint == part = "migration" => Parts!Migration!TypeOK /\ Parts!Migration!RollbackPoint

\* A Monitor runs on both halves of a restored pair (preflightStoreRestoreActivation).
RunsOnPair == part = "restore" => Parts!Restoring!TypeOK /\ Parts!Restoring!RunsOnPair

\* A recovery leaves the sessions of living managers alone (Recover).
LiveSessionKept == part = "sessions" => Parts!Sessions!TypeOK /\ Parts!Sessions!LiveSessionKept

\* A closed chain is complete, and the stored one neither forks nor loops (checkArchiveClosure,
\* freezeArchiveEnvelope).
ClosureCoversAcks ==
    part = "archive" => Parts!Chain!TypeOK /\ Parts!Chain!ClosureCoversAcks /\ Parts!Chain!NoFork

\* Every accepted line is counted once (applyNginxSourceRangeV2).
CountedOnce == part = "nginx" => Nginx!TypeOK /\ Nginx!CountedOnce

\* A restarted collector can be given the proof it needs.
Recoverable == part = "nginx" => Nginx!Recoverable

\* Both sides agree on the files whenever a cycle passes its start (ensureSourceProtocolV2).
SidesAgree == part = "nginx" => Nginx!SidesAgree

\* The lane implements ByteDelivery.
DeliverySpec ==
    /\ part = "nginx" => Nginx!Delivery!Init
    /\ [][part = "nginx" => Nginx!Delivery!Next \/ UNCHANGED Nginx!Delivery!vars]_vars

\* A worker that passes its own check is not refused, though the clock is stepped back.
FencedNeverRefused == part = "clock" => Clock!TypeOK /\ Clock!FencedNeverRefused

\* Bills, journal rows and leases tell one story (claim, bind, finish).
BillsAgree ==
    /\ part = "publication" => Publication!TypeOK /\ Publication!BillsAgree
    /\ part = "again" => Again!TypeOK /\ Again!BillsAgree

\* A draft that may still be published keeps its payload (ChangePublishedGenerationPayload).
PendingKeepsPayload ==
    /\ part = "publication" => Publication!PendingKeepsPayload
    /\ part = "again" => Again!PendingKeepsPayload

\* What an operator took away comes back only by the holder of the lease (WithdrawMonthlyBill).
ReissuedOnlyByHolder ==
    [][/\ part = "publication" => Publication!ReissuedOnlyByHolder
       /\ part = "again" => Again!ReissuedOnlyByHolder]_vars

\* Every report that is queued has its place and a worker (submit, drain, shutdown).
ReportsServed == part = "reports" => Parts!Reports!TypeOK /\ Parts!Reports!ReportsServed
=============================================================================
