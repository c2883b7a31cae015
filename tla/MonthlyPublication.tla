------------------------- MODULE MonthlyPublication -------------------------
(***************************************************************************)
(* From a ready draft to the bill a customer sees (internal/monthlydraft). *)
(*                                                                         *)
(* Three stores that no transaction spans: the receiver database with the  *)
(* draft tasks (by their contract, DraftLifecycle), the selections, the    *)
(* retained payloads and the publication journal; the main database with   *)
(* the bills and the withdrawal audit; and the memory of the processes     *)
(* that run a LocalWorker. A process picks a draft, claims its journal     *)
(* row, audits its sources, binds the digest of the evidence, publishes    *)
(* and finishes the row, each in a step of its own; between any two it may *)
(* crash, stall past its lease, or be overtaken by another process, by an  *)
(* operator who changes the selection or withdraws the bill, or by the     *)
(* maintenance that releases payloads.                                     *)
(*                                                                         *)
(* Time is what the code asks of it: whether a lease has expired, a retry  *)
(* is due, a finalizer's context is past its deadline. A lease is taken    *)
(* before the finalizer starts and is longer than its deadline, so it      *)
(* expires later.                                                          *)
(***************************************************************************)
EXTENDS Integers, FiniteSets

CONSTANTS
    Task, Month,          \* draft tasks; the (organization, month) pairs
    MonthOf,              \* in [Task -> Month]
    Proc,                 \* the processes that run a worker
    Digest,               \* what an audit of the sources can hash to
    MaxAttempts,          \* publicationAttempts
    MaxRows               \* 256 retained journal rows

VARIABLES
    life,       \* the draft tasks, as their readers see them
    chosen,     \* [Month -> the selected task, or NoTask]: the head of the selections
    past,       \* [Month -> the tasks ever selected]
    hot,        \* [Task -> whether the receiver retains the payload]
    job,        \* [Task -> the journal row, or NoRow]
    bill,       \* [Month -> the customer-visible bill, or NoBill]
    withdrawn,  \* the append-only audit of withdrawn bills
    proc,       \* the memory of each process
    maint,      \* the task whose published archive the maintenance has audited
    issued      \* lease tokens drawn so far

vars == <<life, chosen, past, hot, job, bill, withdrawn, proc, maint, issued>>

Drafts == INSTANCE DraftLifecycle WITH Result <- {"draft"}

NoTask == "none"
NoDigest == "none"
NoRow  == [state |-> "absent"]
NoBill == [task |-> NoTask, digest |-> NoDigest]
Idle   == [pc |-> "idle", task |-> NoTask, token |-> 0, attempt |-> 0,
           digest |-> NoDigest, err |-> "none", late |-> FALSE]

IsReady(t) == Drafts!IsReady(t)
Current(t) == chosen[MonthOf[t]] = t

\* publicationEligible: an expired lease or a retry that is due.
Eligible(t) == job[t].state \in {"running", "retry"} /\ job[t].due

Init ==
    /\ Drafts!Init
    /\ chosen = [m \in Month |-> NoTask]
    /\ past = [m \in Month |-> {}]
    /\ hot = [t \in Task |-> FALSE]
    /\ job = [t \in Task |-> NoRow]
    /\ bill = [m \in Month |-> NoBill]
    /\ withdrawn = {}
    /\ proc = [p \in Proc |-> Idle]
    /\ maint = NoTask
    /\ issued = 0

(***************************************************************************)
(* Selections and drafts.                                                  *)
(***************************************************************************)

\* changeGenerationSelection refuses a version that was ever selected before.
NeverSelected(m, t) == t \notin past[m]

Select(t) ==
    LET m == MonthOf[t] IN
    /\ NeverSelected(m, t)
    /\ chosen' = [chosen EXCEPT ![m] = t]
    /\ past' = [past EXCEPT ![m] = @ \cup {t}]
    /\ UNCHANGED <<life, hot, job, bill, withdrawn, proc, maint, issued>>

WithdrawSelection(m) ==
    /\ chosen[m] # NoTask
    /\ chosen' = [chosen EXCEPT ![m] = NoTask]
    /\ UNCHANGED <<life, past, hot, job, bill, withdrawn, proc, maint, issued>>

\* Generation.Submit: the task and its retained input in one transaction.
SubmitDraft(t) ==
    /\ Current(t)
    /\ Drafts!Admit(t)
    /\ hot' = [hot EXCEPT ![t] = TRUE]
    /\ UNCHANGED <<chosen, past, job, bill, withdrawn, proc, maint, issued>>

\* Generation.Run completes the draft (MonthlyTasks).
DraftDone(t) ==
    /\ Drafts!Finish(t, "draft")
    /\ UNCHANGED <<chosen, past, hot, job, bill, withdrawn, proc, maint, issued>>

\* currentTask of any reader finds the selection changed and invalidates the task.
Invalidated(t) == ~Current(t) /\ Drafts!Revoke(t)
InvalidateStale(t) ==
    /\ Invalidated(t)
    /\ UNCHANGED <<chosen, past, hot, job, bill, withdrawn, proc, maint, issued>>

(***************************************************************************)
(* One step of a LocalWorker, from the candidate to the finished row.      *)
(***************************************************************************)
Set(p, r) == proc' = [proc EXCEPT ![p] = r]
Goto(p, pc) == Set(p, [proc[p] EXCEPT !.pc = pc])
Failed(p, err) == Set(p, [proc[p] EXCEPT !.pc = "finish", !.err = err])

\* The candidate is a ready draft whose row is absent or eligible, and current.
Pick(p, t) ==
    /\ proc[p].pc = "idle"
    /\ IsReady(t) /\ Current(t)
    /\ job[t] = NoRow \/ Eligible(t)
    /\ Set(p, [Idle EXCEPT !.pc = "claim", !.task = t])
    /\ UNCHANGED <<life, chosen, past, hot, job, bill, withdrawn, maint, issued>>

RoomForRow == Cardinality({t \in Task : job[t] # NoRow}) < MaxRows

\* The claim transaction finds the draft and its payload as the worker read them.
Claimable(t) == IsReady(t) /\ hot[t]

\* The row written by a successful claim; the digest bound before is kept.
Claimed(t) ==
    [state |-> "running",
     attempts |-> IF job[t] = NoRow THEN 1 ELSE job[t].attempts + 1,
     due |-> FALSE, token |-> issued + 1,
     digest |-> IF job[t] = NoRow THEN NoDigest ELSE job[t].digest]

BudgetLeft(t) == job[t].attempts < MaxAttempts

\* claim: a first attempt, or one more while the budget lasts.
Claim(p) ==
    LET t == proc[p].task IN
    /\ proc[p].pc = "claim"
    /\ Claimable(t)
    /\ \/ job[t] = NoRow /\ RoomForRow
       \/ job[t] # NoRow /\ Eligible(t) /\ BudgetLeft(t)
    /\ job' = [job EXCEPT ![t] = Claimed(t)]
    /\ issued' = issued + 1
    /\ Set(p, [proc[p] EXCEPT !.pc = "audit", !.token = issued + 1,
                              !.attempt = Claimed(t).attempts])
    /\ UNCHANGED <<life, chosen, past, hot, bill, withdrawn, maint>>

\* claim of an expired last attempt: the budget is used up and the row pauses.
ClaimPauses(p) ==
    LET t == proc[p].task IN
    /\ proc[p].pc = "claim"
    /\ Claimable(t)
    /\ job[t] # NoRow /\ Eligible(t) /\ ~BudgetLeft(t)
    /\ job' = [job EXCEPT ![t].state = "paused", ![t].due = FALSE, ![t].token = 0]
    /\ Set(p, Idle)
    /\ UNCHANGED <<life, chosen, past, hot, bill, withdrawn, maint, issued>>

\* claim refused: overtaken, invalidated, released, or the journal is full.
ClaimRefused(p) ==
    LET t == proc[p].task IN
    /\ proc[p].pc = "claim"
    /\ ~(Claimable(t) /\ IF job[t] = NoRow THEN RoomForRow ELSE Eligible(t))
    /\ Set(p, Idle)
    /\ UNCHANGED <<life, chosen, past, hot, job, bill, withdrawn, maint, issued>>

\* automaticBillEvidence: the sources are re-audited and the task checked again
\* afterwards; a changed selection invalidates the task.
Audit(p) ==
    /\ proc[p].pc = "audit"
    /\ \/ /\ Current(proc[p].task) /\ ~proc[p].late
          /\ \E d \in Digest : Set(p, [proc[p] EXCEPT !.pc = "bind", !.digest = d])
          /\ UNCHANGED life
       \/ /\ Invalidated(proc[p].task)
          /\ Failed(p, "stop")
       \/ /\ \E err \in {"retry", "stop"} : Failed(p, err)
          /\ UNCHANGED life
    /\ UNCHANGED <<chosen, past, hot, job, bill, withdrawn, maint, issued>>

\* withLease: the row still carries this process's lease and the draft is there.
Fenced_ByToken(p) == job[proc[p].task] # NoRow /\ job[proc[p].task].token = proc[p].token
Fenced(p) ==
    LET r == job[proc[p].task] IN
    /\ proc[p].token # 0
    /\ IsReady(proc[p].task)
    /\ r.state = "running" /\ r.token = proc[p].token /\ r.attempts = proc[p].attempt
    /\ ~r.due

\* bind: the digest of the evidence is frozen once, and any other one refused.
Frozen_Latest(p) == TRUE
Frozen(p) == job[proc[p].task].digest \in {NoDigest, proc[p].digest}

Bind(p) ==
    /\ proc[p].pc = "bind"
    /\ ~proc[p].late
    /\ Fenced(p) /\ Frozen(p)
    /\ job' = [job EXCEPT ![proc[p].task].digest = proc[p].digest]
    /\ Goto(p, "publish")
    /\ UNCHANGED <<life, chosen, past, hot, bill, withdrawn, maint, issued>>

BindRefused(p) ==
    /\ proc[p].pc = "bind"
    /\ \/ (proc[p].late \/ ~Fenced(p)) /\ Failed(p, "retry")
       \/ ~proc[p].late /\ Fenced(p) /\ ~Frozen(p) /\ Failed(p, "stop")
    /\ UNCHANGED <<life, chosen, past, hot, job, bill, withdrawn, maint, issued>>

\* importMonthlyBill: an issued bill with other evidence is never overwritten.
Importable_Overwrite(m, b) == TRUE
Importable(m, b) == bill[m] \in {NoBill, b}

\* The publisher's transaction in the main database, with the finalizer's
\* deadline; the commit may succeed and its answer be lost.
Publish(p) ==
    LET t == proc[p].task
        b == [task |-> t, digest |-> proc[p].digest] IN
    /\ proc[p].pc = "publish"
    /\ ~proc[p].late
    /\ Importable(MonthOf[t], b)
    /\ bill' = [bill EXCEPT ![MonthOf[t]] = b]
    /\ Goto(p, "finish") \/ Failed(p, "retry")
    /\ UNCHANGED <<life, chosen, past, hot, job, withdrawn, maint, issued>>

\* Refused (authorization, continuity, another bill) or past the deadline.
PublishFails(p) ==
    /\ proc[p].pc = "publish"
    /\ Failed(p, "retry")
    /\ UNCHANGED <<life, chosen, past, hot, job, bill, withdrawn, maint, issued>>

\* finish: the row after this attempt.
Outcome(p, r) ==
    IF proc[p].err = "none" THEN "saved"
    ELSE IF proc[p].err = "stop" \/ r.attempts >= MaxAttempts
         THEN "paused" ELSE "retry"

Finish(p) ==
    LET t == proc[p].task IN
    /\ proc[p].pc = "finish"
    /\ Fenced(p)
    /\ job' = [job EXCEPT ![t].state = Outcome(p, job[t]), ![t].token = 0]
    /\ Set(p, Idle)
    /\ UNCHANGED <<life, chosen, past, hot, bill, withdrawn, maint, issued>>

\* finish refused (the lease is lost or the draft void): the row stays as it is.
FinishRefused(p) ==
    /\ proc[p].pc = "finish"
    /\ ~Fenced(p)
    /\ Set(p, Idle)
    /\ UNCHANGED <<life, chosen, past, hot, job, bill, withdrawn, maint, issued>>

Crash(p) ==
    /\ proc[p].pc # "idle"
    /\ Set(p, Idle)
    /\ UNCHANGED <<life, chosen, past, hot, job, bill, withdrawn, maint, issued>>

(***************************************************************************)
(* Operators and maintenance.                                              *)
(***************************************************************************)

\* WithdrawMonthlyBill: the bill moves to the audit table in one transaction.
WithdrawBill(m) ==
    /\ bill[m] # NoBill
    /\ withdrawn' = withdrawn \cup {bill[m]}
    /\ bill' = [bill EXCEPT ![m] = NoBill]
    /\ UNCHANGED <<life, chosen, past, hot, job, proc, maint, issued>>

\* auditPublishedArchive: the current draft's bill is visible and is its own.
Published(t) == bill[MonthOf[t]] = [task |-> t, digest |-> job[t].digest]

\* inspectPublishedTask, in the audit and again in the release transaction.
Settled_Pending(t) == IsReady(t) /\ job[t] # NoRow
Settled(t) == IsReady(t) /\ job[t].state = "saved"

AuditArchive(t) ==
    /\ maint = NoTask
    /\ Settled(t) /\ Published(t) /\ Current(t)
    /\ maint' = t
    /\ UNCHANGED <<life, chosen, past, hot, job, bill, withdrawn, proc, issued>>

\* ChangePublishedGenerationPayload: release or restore one payload.
ReleasePayload ==
    /\ maint # NoTask
    /\ IF Settled(maint) THEN \E keep \in BOOLEAN : hot' = [hot EXCEPT ![maint] = keep]
                         ELSE UNCHANGED hot
    /\ maint' = NoTask
    /\ UNCHANGED <<life, chosen, past, job, bill, withdrawn, proc, issued>>

(***************************************************************************)
(* The passing of time.                                                    *)
(***************************************************************************)

\* The finalizer's context of two minutes ends.
Late(p) ==
    /\ proc[p].pc \in {"audit", "bind", "publish"} /\ ~proc[p].late
    /\ Set(p, [proc[p] EXCEPT !.late = TRUE])
    /\ UNCHANGED <<life, chosen, past, hot, job, bill, withdrawn, maint, issued>>

Overdue_Early(t) == TRUE
Overdue(t) ==
    job[t].state = "running" =>
        \A p \in Proc : proc[p].pc \in {"audit", "bind", "publish"} /\ proc[p].token = job[t].token
                            => proc[p].late

\* A lease of 150 seconds expires, or a retry becomes due.
ComesDue(t) ==
    /\ job[t].state \in {"running", "retry"} /\ ~job[t].due
    /\ Overdue(t)
    /\ job' = [job EXCEPT ![t].due = TRUE]
    /\ UNCHANGED <<life, chosen, past, hot, bill, withdrawn, proc, maint, issued>>

Time == (\E p \in Proc : Late(p)) \/ (\E t \in Task : ComesDue(t))

Work(p) ==
    \/ Claim(p) \/ ClaimPauses(p) \/ ClaimRefused(p)
    \/ Audit(p) \/ Bind(p) \/ BindRefused(p)
    \/ Publish(p) \/ PublishFails(p)
    \/ Finish(p) \/ FinishRefused(p)

Operate ==
    \/ \E t \in Task : \/ Select(t) \/ SubmitDraft(t) \/ DraftDone(t)
                       \/ InvalidateStale(t) \/ AuditArchive(t)
    \/ \E m \in Month : WithdrawSelection(m) \/ WithdrawBill(m)
    \/ ReleasePayload

Next ==
    \/ \E p \in Proc : Work(p) \/ Crash(p) \/ \E t \in Task : Pick(p, t)
    \/ Operate
    \/ Time

Spec == Init /\ [][Next]_vars

(***************************************************************************)
(* Properties.                                                             *)
(***************************************************************************)
Row == [state : {"running", "retry", "paused", "saved"}, attempts : 1..MaxAttempts,
        due : BOOLEAN, token : Nat, digest : Digest \cup {NoDigest}]
Bill == [task : Task, digest : Digest]
Memory == [pc : {"idle", "claim", "audit", "bind", "publish", "finish"},
           task : Task \cup {NoTask}, token : Nat, attempt : 0..MaxAttempts,
           digest : Digest \cup {NoDigest}, err : {"none", "retry", "stop"}, late : BOOLEAN]

TypeOK ==
    /\ life \in [Task -> Drafts!Life]
    /\ chosen \in [Month -> Task \cup {NoTask}]
    /\ past \in [Month -> SUBSET Task]
    /\ hot \in [Task -> BOOLEAN]
    /\ job \in [Task -> {NoRow} \cup Row]
    /\ bill \in [Month -> {NoBill} \cup Bill]
    /\ withdrawn \subseteq Bill
    /\ proc \in [Proc -> Memory]
    /\ maint \in Task \cup {NoTask}
    /\ issued \in Nat

\* "Different metadata on a retry must not silently produce a different customer
\* bill" (bind): every bill a task ever had, withdrawn or not, carries the one
\* digest its journal row froze, whichever attempt of whichever process issued it.
OneBillPerTask ==
    \A b \in (withdrawn \cup {bill[m] : m \in Month}) \ {NoBill} :
        job[b.task] # NoRow /\ job[b.task].digest = b.digest

\* A row is saved only if its bill was really issued: a lost answer, a crash or
\* a refused import never turns into success.
SavedWasIssued ==
    \A t \in Task : job[t].state = "saved" =>
        [task |-> t, digest |-> job[t].digest] \in withdrawn \cup {bill[MonthOf[t]]}

\* The attempts the journal has counted.
CountedAttempts == {x \in [task : Task, attempt : 1 .. MaxAttempts] :
                        job[x.task] # NoRow /\ x.attempt <= job[x.task].attempts}

\* "A crash consumes an attempt; restart cannot reset the budget": every lease
\* ever drawn is one counted attempt of some row.
LeasesAreAttempts == issued = Cardinality(CountedAttempts)

\* At most one process is past the fence with time left on its finalizer.
OnePublisher ==
    \A p, q \in Proc :
        /\ proc[p].pc = "publish" /\ ~proc[p].late
        /\ proc[q].pc = "publish" /\ ~proc[q].late
        /\ proc[p].task = proc[q].task
        => p = q

\* Bills, journal and leases tell one story: each bill the one its row froze, each saved row a
\* bill, each lease a counted attempt, one publisher of a task at a time (claim, bind, finish).
BillsAgree == OneBillPerTask /\ SavedWasIssued /\ LeasesAreAttempts /\ OnePublisher

\* A draft that may still be published keeps its payload, however the audit and
\* the release of the maintenance interleave with the workers.
PendingKeepsPayload ==
    \A t \in Task : IsReady(t) /\ ~hot[t] => job[t].state = "saved"

\* A bill appears, for the first time or after a withdrawal, only through the attempt that
\* holds the lease of its row, with the evidence that this attempt audited and the row froze:
\* never by a process that was overtaken, never on a saved, paused or waiting row. It does
\* not say that a withdrawn bill stays down: importMonthlyBill never reads the withdrawal
\* audit, so the retry of a publication whose answer was lost issues the bill again.
IssuedByHolder(t) ==
    bill[MonthOf[t]].task # t /\ bill'[MonthOf[t]].task = t =>
        \E p \in Proc :
            /\ proc[p].pc = "publish" /\ proc[p].task = t
            /\ job[t].state = "running" /\ ~job[t].due
            /\ job[t].token = proc[p].token /\ job[t].attempts = proc[p].attempt
            /\ bill'[MonthOf[t]].digest = proc[p].digest
            /\ job[t].digest = proc[p].digest

\* A selection that was replaced or withdrawn never becomes current again, so
\* tasks nobody read in between cannot come back.
SelectionStaysPast(t) == t \in past[MonthOf[t]] /\ ~Current(t) => ~Current(t)'

\* What an operator took away comes back only by a full attempt: a bill by the holder of
\* its row's lease (withLease, bind, WithdrawMonthlyBill), a selection not at all
\* (changeGenerationSelection).
ReissuedOnlyByHolder == \A t \in Task : IssuedByHolder(t) /\ SelectionStaysPast(t)
=============================================================================
