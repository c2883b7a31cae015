------------------------------ MODULE RawPages ------------------------------
(***************************************************************************)
(* The import of one member's usage logs page by page                       *)
(* (src/monitor/usage_facts_page_import.go).  Two goroutines take turns at   *)
(* it: the loop's live lane, which follows the newest hours, and the        *)
(* history worker, which bridges the recent days and then reads the past    *)
(* from its floor up.  A turn imports a shard of hours: pages are added to   *)
(* the hour facts under a cursor kept in the row of the shard's first hour, *)
(* a second pass reads the shard again, and only a shard whose passes and   *)
(* facts agree becomes proofs of hours and, with its day complete, a signed *)
(* day.  The shards of the two lanes may overlap.                           *)
(*                                                                         *)
(* Logs are numbered in the order of the cursor and all carry the same      *)
(* amounts, so that sums tell only how many there are; a rolling hash is    *)
(* the sequence of the pages it was computed from and a content hash is how *)
(* often each log is counted.  The member stays, its source epoch too, it   *)
(* has history, and the hour up to which logs are final stands still.       *)
(***************************************************************************)
EXTENDS Integers, Sequences, FiniteSets, FiniteSetsExt

CONSTANTS
    Logs,          \* bound: how many logs the member has
    HourOf,        \* the hour of each
    Late,          \* the logs that may be written after their hour was final
    PageSize,      \* usageFactRawPageSize
    PagesPerTurn,  \* usageFactRawPagesPerTurn
    Spans,         \* widths of a shard: 1, usageFactRawShardMediumHours ...
    HoursPerDay,
    Lookback,      \* usageFactRawLiveInitialLookbackHours
    RecentDays,    \* usageFactRecentServiceDays
    Floor,         \* SourceFloorHour
    Parked,        \* bound: where the job may stand, left there by a worker of an earlier version
    Target         \* usageFactFinalizedHour

Log == 1 .. Logs
Hour == Floor .. Target - 1
DayStart(h) == h - (h % HoursPerDay)
Day == {DayStart(h) : h \in Hour}
Lane == {"live", "worker"}

VARIABLES
    log,      \* the source's logs of the member
    facts,    \* UsageHourFact: how often each log is counted
    row,      \* UsageFactPageIngestState of each hour
    proof,    \* UsageFactMemberHourState: the content it was given for
    day,      \* UsageFactMemberDayState with its daily facts
    live,     \* the live cursor of the member state
    recent,   \* the bridge's cursor
    job,      \* the history job and the coverage it has reached
    lane      \* the turn of each lane

vars == <<log, facts, row, proof, day, live, recent, job, lane>>

None == [none |-> TRUE]
Resting == [pc |-> "rest"]
Turn(task, pc, a, b) ==
    [pc |-> pc, task |-> task, at |-> a, to |-> b, seen |-> None, page |-> {}, left |-> 0,
     next |-> 0, days |-> {}, control |-> 0]

\* What is counted in the hours a to b - 1 (loadUsageFactRange).
Held(a, b) == [e \in Log |-> IF HourOf[e] \in a .. b - 1 THEN facts[e] ELSE 0]

\* Rows of facts are counted, not the records summed in them.
Total_Rows(bag) == Cardinality({e \in Log : bag[e] > 0})

\* How many records that is (usageFactRawRecordCount).
Total(bag) == MapThenSumSet(LAMBDA e : bag[e], Log)

\* A pass: the pages it has read, the log its cursor stands at, and how many logs it has read.
Cursor(pages) == IF pages = <<>> THEN 0 ELSE Max(pages[Len(pages)])
Count(pages) == MapThenSumSet(LAMBDA i : Cardinality(pages[i]), DOMAIN pages)

\* The next page of logs of the hours a to b - 1 after log c (fetchUsageFactRawPage).
PageAfter(a, b, c) ==
    LET found == {e \in log : HourOf[e] \in a .. b - 1 /\ e > c}
    IN  {e \in found : Cardinality({d \in found : d < e}) < PageSize}

FreshRow(b) == [through |-> b, status |-> "running", pages |-> 0, rows |-> 0, raw |-> <<>>,
                vraw |-> <<>>, content |-> None]

TypeOK ==
    /\ log \subseteq Log
    /\ facts \in [Log -> Nat]
    /\ \A h \in Hour : row[h] # None =>
          /\ row[h].status \in {"running", "verifying", "complete", "repair"}
          /\ row[h].through \in h + 1 .. Target
    /\ \A h \in Hour : proof[h] # None => proof[h] \in [Log -> Nat]
    /\ \A d \in Day : day[d] # None => day[d] \in [Log -> Nat]
    /\ Floor <= live.from /\ live.from <= live.through /\ live.through <= Target
    /\ recent.through <= recent.target
    /\ job.next \in Floor .. Target /\ job.kind \in {"backfill", "tail", "verify"}
    /\ \A l \in Lane : lane[l] # Resting =>
          lane[l].task \in {"live", "bridge", "tail", "backfill"} /\ lane[l].at < lane[l].to

\* prepareUsageFactRawLiveTargets of a new member, and the job that discovery leaves, or the one
\* of an earlier version with the hours it has read and proved without pages.
LiveFrom == Max({Target - Lookback, Floor})
Init ==
    /\ log = Log \ Late
    /\ job \in {[next |-> h, kind |-> "backfill", span |-> Max(Spans), coverage |-> h] :
                 h \in {Floor} \cup Parked}
    /\ facts = [e \in Log |-> IF e \in log /\ HourOf[e] < job.next THEN 1 ELSE 0]
    /\ row = [h \in Hour |-> None]
    /\ proof = [h \in Hour |-> IF h < job.next THEN Held(h, h + 1) ELSE None]
    /\ day = [d \in Day |-> None]
    /\ live = [from |-> LiveFrom, through |-> LiveFrom, span |-> Max(Spans)]
    /\ recent = [from |-> 0, through |-> 0, target |-> 0, span |-> Max(Spans)]
    /\ lane = [l \in Lane |-> Resting]

\* A log of a final hour is written late.
Arrive(e) ==
    /\ e \in Late \ log
    /\ log' = log \cup {e}
    /\ UNCHANGED <<facts, row, proof, day, live, recent, job, lane>>

-----------------------------------------------------------------------------
(* The width of shards.                                                     *)

Normal(s) == IF s \in Spans THEN s ELSE 1
Narrower(s) == IF Normal(s) = 1 THEN 1 ELSE Max({t \in Spans : t < s})
Wider(s) == IF Normal(s) = Max(Spans) THEN s ELSE Min({t \in Spans : t > Normal(s)})
Adapted(s, rows, pages) ==
    CASE rows >= PageSize \/ pages >= PagesPerTurn -> 1
      [] 4 * rows < PageSize /\ pages <= 1 -> Wider(s)
      [] OTHER -> Normal(s)

\* A row that is there keeps its range, and its range must be the lane's.
ShardEnd(a, span, limit) == IF row[a] # None THEN row[a].through ELSE Min({a + Normal(span), limit})

-----------------------------------------------------------------------------
(* The turns.                                                               *)

Goto(l, pc) == lane' = [lane EXCEPT ![l].pc = pc]
Leave(l) == lane' = [lane EXCEPT ![l] = Resting]

\* The live lane is served (nextUsageFactRawLiveMember, usageFactRawLiveShardRange).
StartLive ==
    LET to == ShardEnd(live.through, live.span, Target)
    IN  /\ lane["live"] = Resting
        /\ live.through < Target
        /\ lane' = [lane EXCEPT !["live"] = Turn("live", "open", live.through, to)]
        /\ UNCHANGED <<log, facts, row, proof, day, live, recent, job>>

\* Once it is ready, the recent days before it become the bridge's (prepareUsageFactRawRecentTargets).
Desired == Max({DayStart(Target) - RecentDays * HoursPerDay, Floor})
PrepareRecent ==
    LET kept == recent.from = Desired /\ recent.target = live.from
        base == IF kept THEN recent.through ELSE Desired
        reached == IF job.coverage > base THEN Min({job.coverage, live.from}) ELSE base
    IN  /\ lane["live"] = Resting
        /\ live.through = Target
        /\ Desired < live.from
        /\ recent' = [from |-> Desired, through |-> reached, target |-> live.from,
                      span |-> IF kept THEN recent.span ELSE Max(Spans)]
        /\ live' = IF reached >= live.from THEN [live EXCEPT !.from = Desired] ELSE live
        /\ UNCHANGED <<log, facts, row, proof, day, job, lane>>

\* advanceUsageFactRawRecentCursor.
Bridged(next, span) ==
    /\ recent' = [recent EXCEPT !.through = next, !.span = Normal(span)]
    /\ live' = IF next >= recent.target THEN [live EXCEPT !.from = recent.from] ELSE live

\* The worker's turns come in this order (syncNextUsageFactHistoryWork): the bridge, which first
\* takes over what the job has covered ...
Bridging == recent.through < recent.target
StartBridge ==
    LET to == ShardEnd(recent.through, recent.span, recent.target)
    IN  /\ lane["worker"] = Resting
        /\ Bridging
        /\ IF job.coverage > recent.through
             THEN Bridged(Min({job.coverage, recent.target}), recent.span) /\ UNCHANGED lane
             ELSE /\ to <= recent.target
                  /\ lane' = [lane EXCEPT !["worker"] = Turn("bridge", "open", recent.through, to)]
                  /\ UNCHANGED <<live, recent>>
        /\ UNCHANGED <<log, facts, row, proof, day, job>>

\* ... and the job, whose cursor returns to the start of its day when an hour before it is no
\* longer proved by its row, its proof and its facts (realignUsageFactRawPageClaim).
HourReady(h) ==
    /\ row[h] # None /\ row[h].status = "complete" /\ proof[h] # None
    /\ Total(Held(h, h + 1)) = row[h].rows
    /\ Held(h, h + 1) = row[h].content
    /\ Held(h, h + 1) = proof[h]
StartJob ==
    LET a == job.next
        back == Max({DayStart(a), Floor})
        dayEnd == DayStart(a) + HoursPerDay
        to == IF job.kind = "tail" THEN a + 1 ELSE ShardEnd(a, job.span, Min({dayEnd, Target}))
    IN  /\ lane["worker"] = Resting
        /\ ~Bridging
        /\ job.kind # "verify"
        /\ IF \A h \in back .. a - 1 : HourReady(h)
             THEN /\ job.kind = "backfill" => to <= dayEnd
                  /\ lane' = [lane EXCEPT !["worker"] = Turn(job.kind, "open", a, to)]
                  /\ UNCHANGED job
             ELSE /\ job' = [job EXCEPT !.next = back, !.coverage = Min({@, back})]
                  /\ UNCHANGED lane
        /\ UNCHANGED <<log, facts, row, proof, day, live, recent>>

\* A query, a write or the process fails: nothing of the turn is remembered but what it stored.
Abandon(l) ==
    /\ lane[l] # Resting
    /\ Leave(l)
    /\ UNCHANGED <<log, facts, row, proof, day, live, recent, job>>

-----------------------------------------------------------------------------
(* importUsageFactRawShardPages: a row is found or made ...                 *)

Cleared(a, b) ==
    /\ facts' = [e \in Log |-> IF HourOf[e] \in a .. b - 1 THEN 0 ELSE facts[e]]
    /\ proof' = [h \in Hour |-> IF h \in a .. b - 1 THEN None ELSE proof[h]]

After(status) ==
    CASE status = "complete" -> "check" [] status = "repair" -> "reset" [] OTHER -> "phase"

Open(l) ==
    LET a == lane[l].at  b == lane[l].to
    IN  /\ lane[l].pc = "open"
        /\ \/ /\ row[a] = None
              /\ Cleared(a, b)
              /\ row' = [row EXCEPT ![a] = FreshRow(b)]
              /\ Goto(l, "phase")
           \/ /\ row[a] # None /\ row[a].through = b
              /\ lane' = [lane EXCEPT ![l].pc = After(row[a].status),
                                      ![l].seen = IF row[a].status = "complete" THEN row[a] ELSE @]
              /\ UNCHANGED <<facts, proof, row>>
           \/ /\ row[a] # None /\ row[a].through # b
              /\ Leave(l)
              /\ UNCHANGED <<facts, proof, row>>
        /\ UNCHANGED <<log, day, live, recent, job>>

\* ... a complete one is compared with the facts ...
Matches(r, a, b) == Total(Held(a, b)) = r.rows /\ Held(a, b) = r.content
Check(l) ==
    LET t == lane[l]
    IN  /\ t.pc = "check"
        /\ lane' = [lane EXCEPT ![l].pc = IF Matches(t.seen, t.at, t.to) THEN "prove" ELSE "demote",
                                ![l].seen = None]
        /\ UNCHANGED <<log, facts, row, proof, day, live, recent, job>>

Demote(l) ==
    LET a == lane[l].at
    IN  /\ lane[l].pc = "demote"
        /\ row' = IF row[a] # None /\ row[a].status = "complete"
                    THEN [row EXCEPT ![a].status = "repair"] ELSE row
        /\ Goto(l, "reset")
        /\ UNCHANGED <<log, facts, proof, day, live, recent, job>>

\* ... and one to be repaired starts over, with its range cleared.
Reset(l) ==
    LET a == lane[l].at
    IN  /\ lane[l].pc = "reset"
        /\ Cleared(a, lane[l].to)
        /\ row' = IF row[a] # None /\ row[a].status = "repair"
                    THEN [row EXCEPT ![a] = FreshRow(row[a].through)] ELSE row
        /\ Goto(l, "phase")
        /\ UNCHANGED <<log, day, live, recent, job>>

Phase(l) ==
    LET r == row[lane[l].at]
    IN  /\ lane[l].pc = "phase"
        /\ IF r = None THEN Leave(l)
           ELSE lane' = [lane EXCEPT ![l].pc = IF r.status = "verifying" THEN "reload" ELSE "load",
                                     ![l].seen = IF r.status = "verifying" THEN r ELSE None,
                                     ![l].left = PagesPerTurn]
        /\ UNCHANGED <<log, facts, row, proof, day, live, recent, job>>

-----------------------------------------------------------------------------
(* The first pass.                                                          *)

Load(l) ==
    LET r == row[lane[l].at]
    IN  /\ lane[l].pc = "load"
        /\ IF r = None THEN Leave(l)
           ELSE IF r.status = "complete" THEN Goto(l, "prove")
           ELSE lane' = [lane EXCEPT ![l].pc = "fetch", ![l].seen = r]
        /\ UNCHANGED <<log, facts, row, proof, day, live, recent, job>>

\* An empty page ends the pass; a full first page of several hours asks for fewer.
Fetch(l) ==
    LET t == lane[l]
        page == PageAfter(t.at, t.to, Cursor(t.seen.raw))
        dense == t.seen.pages = 0 /\ t.to - t.at > 1 /\ Cardinality(page) = PageSize
    IN  /\ t.pc = "fetch"
        /\ lane' = [lane EXCEPT ![l].pc = IF page = {} THEN "turn" ELSE IF dense THEN "thin" ELSE "write",
                                ![l].page = page]
        /\ UNCHANGED <<log, facts, row, proof, day, live, recent, job>>

TurnOver(l) ==
    LET a == lane[l].at
    IN  /\ lane[l].pc = "turn"
        /\ row' = IF row[a] = None THEN row
                  ELSE [row EXCEPT ![a].status = "verifying", ![a].vraw = <<>>]
        /\ Leave(l)
        /\ UNCHANGED <<log, facts, proof, day, live, recent, job>>

\* The row goes and the lane's next shard is narrower.
Thin(l) ==
    LET t == lane[l]
        span == Narrower(t.to - t.at)
    IN  /\ t.pc = "thin"
        /\ row' = IF row[t.at] # None /\ row[t.at].pages = 0 /\ row[t.at].raw = <<>>
                    THEN [row EXCEPT ![t.at] = None] ELSE row
        /\ live' = IF t.task = "live" /\ live.through = t.at THEN [live EXCEPT !.span = span] ELSE live
        /\ recent' = IF t.task = "bridge" /\ recent.through = t.at
                       THEN [recent EXCEPT !.span = span] ELSE recent
        /\ job' = IF t.task = "backfill" THEN [job EXCEPT !.span = span] ELSE job
        /\ Leave(l)
        /\ UNCHANGED <<log, facts, proof, day>>

\* A lane whose page is written goes on while it has pages left.
More(l, pc) ==
    IF lane[l].left > 1
      THEN lane' = [lane EXCEPT ![l].pc = pc, ![l].left = @ - 1, ![l].page = {}]
      ELSE Leave(l)

\* The page, its counts and the cursor are one transaction; who finds the cursor moved is superseded.
Current(r, seen) == r # None /\ Cursor(r.raw) = Cursor(seen.raw) /\ r.status # "complete"
Write(l) ==
    LET t == lane[l]  r == row[t.at]
        last == Cardinality(t.page) < PageSize
    IN  /\ t.pc = "write"
        /\ IF Current(r, t.seen)
             THEN /\ facts' = [e \in Log |-> facts[e] + (IF e \in t.page THEN 1 ELSE 0)]
                  /\ row' = [row EXCEPT ![t.at].raw = Append(@, t.page), ![t.at].pages = @ + 1,
                                        ![t.at].rows = @ + Cardinality(t.page),
                                        ![t.at].status = IF last THEN "verifying" ELSE "running",
                                        ![t.at].vraw = IF last THEN <<>> ELSE @]
                  /\ IF last THEN Leave(l) ELSE More(l, "load")
             ELSE Leave(l) /\ UNCHANGED <<facts, row>>
        /\ UNCHANGED <<log, proof, day, live, recent, job>>

-----------------------------------------------------------------------------
(* The second pass (verifyUsageFactRawShardPages).                          *)

Reload(l) ==
    LET t == lane[l]  r == row[t.at]
    IN  /\ t.pc = "reload"
        /\ IF r # None /\ r.status = "complete" THEN Goto(l, "prove")
           ELSE IF r # None /\ r.status = "verifying" /\ r.through = t.seen.through
                  THEN lane' = [lane EXCEPT ![l].pc = "refetch", ![l].seen = r]
                  ELSE Leave(l)
        /\ UNCHANGED <<log, facts, row, proof, day, live, recent, job>>

Refetch(l) ==
    LET t == lane[l]
        page == PageAfter(t.at, t.seen.through, Cursor(t.seen.vraw))
    IN  /\ t.pc = "refetch"
        /\ lane' = [lane EXCEPT ![l].pc = IF page = {} THEN "final" ELSE "rewrite", ![l].page = page,
                                ![l].seen = IF page = {} THEN None ELSE @]
        /\ UNCHANGED <<log, facts, row, proof, day, live, recent, job>>

Rewrite(l) ==
    LET t == lane[l]  r == row[t.at]
    IN  /\ t.pc = "rewrite"
        /\ IF r # None /\ r.status = "verifying" /\ Cursor(r.vraw) = Cursor(t.seen.vraw)
             THEN /\ row' = [row EXCEPT ![t.at].vraw = Append(@, t.page)]
                  /\ IF Cardinality(t.page) < PageSize
                       THEN lane' = [lane EXCEPT ![l].pc = "final", ![l].seen = None, ![l].page = {}]
                       ELSE More(l, "reload")
             ELSE Leave(l) /\ UNCHANGED row
        /\ UNCHANGED <<log, facts, proof, day, live, recent, job>>

\* Both passes and the facts agree, or the shard starts over (finalizeUsageFactRawPageVerification).
Agreed(r, a) ==
    /\ r.status = "verifying"
    /\ r.rows = Count(r.vraw)
    /\ r.rows = 0 \/ (r.raw # <<>> /\ r.raw = r.vraw)
    /\ Total(Held(a, r.through)) = r.rows
Final(l) ==
    LET a == lane[l].at  r == row[a]
        agreed == r # None /\ Agreed(r, a)
    IN  /\ lane[l].pc = "final"
        /\ row' = IF r = None THEN row
                  ELSE IF agreed THEN [row EXCEPT ![a].status = "complete",
                                                  ![a].content = Held(a, r.through)]
                  ELSE [row EXCEPT ![a].status = "repair"]
        /\ IF agreed THEN Goto(l, "prove") ELSE Leave(l)
        /\ UNCHANGED <<log, facts, proof, day, live, recent, job>>

-----------------------------------------------------------------------------
(* The days that a shard may complete: live looks at the days it ends, the  *)
(* bridge at all it touches, the job at the one it ends with.               *)

DaysOf(task, a, b) ==
    CASE task = "live" -> {DayStart(h) : h \in {g \in a .. b - 1 : DayStart(g + 1) = g + 1}}
      [] task = "bridge" -> {DayStart(h) : h \in a .. b - 1}
      [] OTHER -> IF DayStart(b) = b THEN {DayStart(b - 1)} ELSE {}

\* A complete row whose facts are still its own becomes a row and a proof of each of its hours
\* (commitUsageFactRawPageShardProof).
HourRow(h, a, r) ==
    [through |-> h + 1, status |-> "complete", pages |-> IF h = a THEN r.pages ELSE 0,
     rows |-> Total(Held(h, h + 1)), raw |-> <<>>, vraw |-> <<>>, content |-> Held(h, h + 1)]
Prove(l) ==
    LET t == lane[l]  r == row[t.at]
        whole == /\ r # None /\ r.through = t.to /\ r.status = "complete"
                 /\ Matches(r, t.at, t.to)
        span == Adapted(t.to - t.at, r.rows, r.pages)
    IN  /\ t.pc = "prove"
        /\ IF whole
             THEN /\ row' = [h \in Hour |-> IF h \in t.at .. t.to - 1 THEN HourRow(h, t.at, r)
                                            ELSE row[h]]
                  /\ proof' = [h \in Hour |-> IF h \in t.at .. t.to - 1 THEN Held(h, h + 1)
                                              ELSE proof[h]]
                  /\ job' = [job EXCEPT !.span = span]
                  /\ lane' = [lane EXCEPT ![l] = [Turn(t.task, "judge", t.at, t.to) EXCEPT
                                !.next = span, !.days = DaysOf(t.task, t.at, t.to)]]
             ELSE Leave(l) /\ UNCHANGED <<row, proof, job>>
        /\ UNCHANGED <<log, facts, day, live, recent>>

\* A day is ready when the facts of all its hours are those of their proofs; its control is the
\* sum of its hours' rows (usageFactDayHourReadiness, usageFactRawPageDayControls).
HoursOf(d) == d .. d + HoursPerDay - 1
DayReady(d) == \A h \in HoursOf(d) : h \in Hour /\ proof[h] # None /\ proof[h] = Held(h, h + 1)
Controlled(d) == \A h \in HoursOf(d) : row[h] # None /\ row[h].status = "complete"
Judge(l) ==
    LET t == lane[l]  d == Min(t.days)
        strict == t.task \in {"tail", "backfill"}
    IN  /\ t.pc = "judge"
        /\ IF t.days = {} THEN Goto(l, "advance")
           ELSE IF ~DayReady(d)
             THEN IF strict THEN Leave(l) ELSE lane' = [lane EXCEPT ![l].days = @ \ {d}]
           ELSE IF Controlled(d)
             THEN lane' = [lane EXCEPT ![l].pc = "sign",
                             ![l].control = MapThenSumSet(LAMBDA h : row[h].rows, HoursOf(d))]
             ELSE Leave(l)
        /\ UNCHANGED <<log, facts, row, proof, day, live, recent, job>>

\* finalizeUsageFactHistoryDayFromHours.
Sign(l) ==
    LET t == lane[l]  d == Min(t.days)
    IN  /\ t.pc = "sign"
        /\ IF DayReady(d) /\ Total(Held(d, d + HoursPerDay)) = t.control
             THEN /\ day' = [day EXCEPT ![d] = Held(d, d + HoursPerDay)]
                  /\ lane' = [lane EXCEPT ![l].pc = "judge", ![l].days = @ \ {d}, ![l].control = 0]
             ELSE Leave(l) /\ UNCHANGED day
        /\ UNCHANGED <<log, facts, row, proof, live, recent, job>>

\* The cursor of the turn moves past its shard, if it still stands before it.
LiveAdvances(t) ==
    /\ live' = IF live.through = t.at THEN [live EXCEPT !.through = t.to, !.span = t.next] ELSE live
    /\ UNCHANGED <<recent, job>>
BridgeAdvances(t) ==
    /\ IF recent.through = t.at THEN Bridged(t.to, t.next) ELSE UNCHANGED <<live, recent>>
    /\ UNCHANGED job
BackfillAdvances(t) ==
    /\ job' = [job EXCEPT !.next = t.to, !.coverage = t.to,
                 !.kind = IF t.to >= Target THEN "verify"
                          ELSE IF t.to >= DayStart(Target) THEN "tail" ELSE "backfill"]
    /\ UNCHANGED <<live, recent>>
TailAdvances(t) ==
    LET turn == DayStart(t.to) = t.to
    IN  /\ job' = [job EXCEPT !.next = t.to, !.coverage = IF turn THEN t.to ELSE @,
                     !.kind = IF t.to >= Target THEN "verify"
                              ELSE IF turn /\ t.to < DayStart(Target) THEN "backfill" ELSE @]
        /\ UNCHANGED <<live, recent>>
Advance(l) ==
    LET t == lane[l]
    IN  /\ t.pc = "advance"
        /\ \/ t.task = "live" /\ LiveAdvances(t)
           \/ t.task = "bridge" /\ BridgeAdvances(t)
           \/ t.task = "backfill" /\ BackfillAdvances(t)
           \/ t.task = "tail" /\ TailAdvances(t)
        /\ Leave(l)
        /\ UNCHANGED <<log, facts, row, proof, day>>

-----------------------------------------------------------------------------
Import(l) == \/ Open(l) \/ Check(l) \/ Demote(l) \/ Reset(l) \/ Phase(l)
             \/ Load(l) \/ Fetch(l) \/ TurnOver(l) \/ Thin(l) \/ Write(l)
             \/ Reload(l) \/ Refetch(l) \/ Rewrite(l) \/ Final(l)
             \/ Prove(l) \/ Judge(l) \/ Sign(l) \/ Advance(l) \/ Abandon(l)

Next == \/ StartLive \/ PrepareRecent \/ StartBridge \/ StartJob
        \/ \E e \in Log : Arrive(e)
        \/ \E l \in Lane : Import(l)

Spec == Init /\ [][Next]_vars

-----------------------------------------------------------------------------
Once(content, h) ==
    \A e \in Log : HourOf[e] = h => content[e] <= 1 /\ (e \notin Late => content[e] = 1)

(***************************************************************************)
(* Whatever the lanes do to each other's shards, an hour is proved and a    *)
(* day signed only for facts that count every log that was there exactly    *)
(* once, and no late one twice (finalizeUsageFactRawPageVerification,       *)
(* commitUsageFactRawPageShardProof, finalizeUsageFactHistoryDayFromHours). *)
(***************************************************************************)
SignedIsExact ==
    /\ \A h \in Hour : proof[h] # None => Once(proof[h], h)
    /\ \A d \in Day : day[d] # None => \A h \in HoursOf(d) : Once(day[d], h)
=============================================================================
