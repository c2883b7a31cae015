---------------------------- MODULE MonthlyTasks ----------------------------
(***************************************************************************)
(* The durable table of monthly draft tasks (internal/monthlytasks).       *)
(*                                                                         *)
(* Every operation of the store is one SQLite transaction that takes the   *)
(* write reservation before its first read (transaction.go, WriteReceiver) *)
(* and reads the wall clock after it got the reservation, so an operation  *)
(* is one action here and a failed operation (rollback) is a stutter.      *)
(* What is concurrent is the rest: workers of several processes that keep  *)
(* a lease while they compute, stall, crash, and answer late; operators    *)
(* that submit, retry and invalidate; and a clock that, with               *)
(* ClockRegresses, may be stepped back by the host.                        *)
(***************************************************************************)
EXTENDS Integers, FiniteSets

CONSTANTS
    Task,            \* the immutable descriptors that can be submitted (task_key)
    Group,           \* the organizations
    GroupOf,         \* [Task -> Group]
    Worker,          \* the processes that claim, renew and finish
    MaxTasks,        \* maxTasks: rows the table retains
    MaxActive,       \* maxActive: queued or running rows
    MaxAttempts,     \* maxAttempts
    LeaseTime,       \* leaseDuration
    AttemptLimit,    \* attemptLimit
    RetryDelay,      \* retryDelay
    MaxTime,         \* bound on the clock
    ClockRegresses   \* whether the host's wall clock may be stepped back

ASSUME SortAssumption == GroupOf \in [Task -> Group] /\ IsFiniteSet(Task)
ASSUME LimitAssumption ==
    /\ MaxTasks \in Nat /\ MaxActive \in Nat
    /\ MaxAttempts \in Nat \ {0}
    /\ LeaseTime \in Nat \ {0}
    /\ AttemptLimit \in Nat \ {0}
    /\ RetryDelay \in Nat
    /\ MaxTime \in Nat \ {0}
    /\ ClockRegresses \in BOOLEAN

VARIABLES
    rec,     \* the table: [Task -> a row, or NoRow]
    held,    \* the lease each worker process keeps in memory, or NoLease
    issued,  \* how many lease tokens randomID has produced: the next is fresh
    now      \* the wall clock, in milliseconds since the epoch

vars == <<rec, held, issued, now>>

Transient == {"source_unavailable", "internal_failure"}
Evidence  == {"evidence_incomplete", "reconciliation_failed"}
Failure   == Transient \cup Evidence

\* A draft is named by the attempt that computed it (ResultSHA256).
Draft(t, a) == [task |-> t, attempt |-> a]
NoDraft == [task |-> "none", attempt |-> 0]
NoToken == 0
NoLease == [task |-> "none", token |-> NoToken, attempt |-> 0]
NoRow   == [state |-> "absent"]

Exists(t)  == rec[t].state # "absent"
Active     == {t \in Task : rec[t].state \in {"queued", "running"}}
Live(t)    == rec[t].state = "running" /\ rec[t].until > now

(***************************************************************************)
(* validRecord: load refuses a row and save refuses to write one that does *)
(* not satisfy it (ErrCorrupt), after which no operation on that task      *)
(* works again.                                                            *)
(***************************************************************************)
ValidRow(t, r) ==
    /\ r.created > 0 /\ r.updated >= r.created
    /\ r.attempts \in 0..MaxAttempts
    /\ IF r.state = "running"
       THEN /\ r.attempts > 0 /\ r.started >= r.created /\ r.updated >= r.started
            /\ r.until > r.updated /\ r.until <= r.started + AttemptLimit
            /\ r.token # NoToken /\ r.retryAt = 0 /\ r.draft = NoDraft /\ r.code = ""
       ELSE /\ r.token = NoToken /\ r.started = 0 /\ r.until = 0
            /\ \/ /\ r.state = "queued" /\ r.attempts < MaxAttempts
                  /\ r.retryAt = 0 /\ r.draft = NoDraft /\ r.code = ""
               \/ /\ r.state = "draft_ready" /\ r.attempts > 0
                  /\ r.retryAt = 0 /\ r.draft # NoDraft /\ r.code = ""
               \/ /\ r.state = "failed" /\ r.attempts > 0 /\ r.draft = NoDraft
                  /\ \/ r.code \in Failure /\ r.retryAt = r.updated + RetryDelay
                     \/ r.code = "attempts_exhausted" /\ r.attempts = MaxAttempts /\ r.retryAt = 0
               \/ /\ r.state = "invalidated" /\ r.retryAt = 0
                  /\ r.draft = NoDraft /\ r.code = "inputs_changed"

\* load: the operation finds a well-formed row, or has no effect.
Loaded(t) == Exists(t) /\ ValidRow(t, rec[t])

\* save: writes the row r, or rolls the transaction back.
Save(t, r) == ValidRow(t, r) /\ rec' = [rec EXCEPT ![t] = r]

\* finishRecord: leave the row in a state without lease, draft or cool-down.
Finish_FreshBudget(r, state, code, draft) ==
    [r EXCEPT !.state = state, !.code = code, !.draft = draft, !.updated = now,
              !.attempts = IF state = "queued" THEN 0 ELSE @,
              !.token = NoToken, !.started = 0, !.until = 0, !.retryAt = 0]
Finish(r, state, code, draft) ==
    [r EXCEPT !.state = state, !.code = code, !.draft = draft, !.updated = now,
              !.token = NoToken, !.started = 0, !.until = 0, !.retryAt = 0]

\* activeCapacity
RoomToActivate(t) ==
    /\ Cardinality(Active) < MaxActive
    /\ \A u \in Active : GroupOf[u] # GroupOf[t]

Init ==
    /\ rec = [t \in Task |-> NoRow]
    /\ held = [w \in Worker |-> NoLease]
    /\ issued = 0
    /\ now = 1

(***************************************************************************)
(* Operations of the operators and of the schedulers.                      *)
(***************************************************************************)

\* The lookup of submit: a row with this key is returned as it is (or, when it
\* was invalidated, refused with ErrStale); only an unknown key is inserted.
Unknown_OrStale(t) == ~Exists(t) \/ rec[t].state = "invalidated"
Unknown(t) == ~Exists(t)

\* Submit of an unknown descriptor.
Submit(t) ==
    /\ Unknown(t)
    /\ Cardinality({u \in Task : Exists(u)}) < MaxTasks
    /\ RoomToActivate(t)
    /\ rec' = [rec EXCEPT ![t] =
                 [state |-> "queued", attempts |-> 0, created |-> now, updated |-> now,
                  started |-> 0, until |-> 0, token |-> NoToken, retryAt |-> 0,
                  draft |-> NoDraft, code |-> ""]]
    /\ UNCHANGED <<held, issued, now>>

\* Retry (any failure) and RetryTransient (a transient failure only).
Retry(t, transientOnly) ==
    /\ Loaded(t) /\ now >= rec[t].updated
    /\ rec[t].state = "failed"
    /\ transientOnly => rec[t].code \in Transient
    /\ rec[t].attempts < MaxAttempts
    /\ now >= rec[t].retryAt
    /\ RoomToActivate(t)
    /\ Save(t, Finish(rec[t], "queued", "", NoDraft))
    /\ UNCHANGED <<held, issued, now>>

Invalidate(t) ==
    /\ Loaded(t) /\ now >= rec[t].updated
    /\ rec[t].state # "invalidated"
    /\ Save(t, Finish(rec[t], "invalidated", "inputs_changed", NoDraft))
    /\ UNCHANGED <<held, issued, now>>

(***************************************************************************)
(* Operations of a worker.                                                 *)
(***************************************************************************)

\* The guards of Claim that every outcome shares.
Claimable_Queued(t) ==
    /\ Loaded(t) /\ now >= rec[t].updated
    /\ rec[t].state = "queued"
Claimable(t) ==
    /\ Loaded(t) /\ now >= rec[t].updated
    /\ rec[t].state \in {"queued", "running"}
    /\ ~Live(t)

\* The COUNT of unexpired leases over the whole table is zero.
NobodyRuns_Unchecked == TRUE
NobodyRuns == \A u \in Task : ~Live(u)

\* The capability handed to the worker that claims t.
NextLease(t) == [task |-> t, token |-> issued + 1, attempt |-> rec[t].attempts + 1]

\* Claim: a fresh token, one more attempt, and no other unexpired lease.
Claim(w, t) ==
    /\ held[w] = NoLease
    /\ Claimable(t)
    /\ rec[t].attempts < MaxAttempts
    /\ NobodyRuns
    /\ Save(t, [rec[t] EXCEPT !.state = "running", !.token = issued + 1, !.started = now,
                              !.until = now + LeaseTime, !.attempts = @ + 1,
                              !.updated = now, !.retryAt = 0, !.code = ""])
    /\ held' = [held EXCEPT ![w] = NextLease(t)]
    /\ issued' = issued + 1
    /\ UNCHANGED now

\* Claim of a task whose attempts are used up: it settles as failed (ErrExhausted).
ClaimExhausted(t) ==
    /\ Claimable(t)
    /\ rec[t].attempts >= MaxAttempts
    /\ Save(t, Finish(rec[t], "failed", "attempts_exhausted", NoDraft))
    /\ UNCHANGED <<held, issued, now>>

\* withLease: the row still carries the worker's token and the lease is unexpired.
Fenced_ByExpiryOnly(w) ==
    /\ held[w] # NoLease
    /\ Loaded(held[w].task)
    /\ Live(held[w].task) /\ now >= rec[held[w].task].updated
Fenced(w) ==
    LET l == held[w] IN
    /\ l # NoLease
    /\ Loaded(l.task)
    /\ LET r == rec[l.task] IN
       /\ r.state = "running" /\ r.token = l.token /\ r.attempts = l.attempt
       /\ r.until > now /\ now >= r.updated
       /\ now < r.started + AttemptLimit

Earlier(a, b) == IF a <= b THEN a ELSE b

Renewed_Uncapped(r) == [r EXCEPT !.until = now + LeaseTime, !.updated = now]
Renewed(r) ==
    [r EXCEPT !.until = Earlier(now + LeaseTime, r.started + AttemptLimit), !.updated = now]

Renew(w) ==
    /\ Fenced(w)
    /\ LET t == held[w].task IN Save(t, Renewed(rec[t]))
    /\ UNCHANGED <<held, issued, now>>

\* Complete: the worker offers the draft that its own attempt computed.
Complete(w) ==
    /\ Fenced(w)
    /\ LET l == held[w] IN
       /\ Save(l.task, Finish(rec[l.task], "draft_ready", "", Draft(l.task, l.attempt)))
       /\ held' = [held EXCEPT ![w] = NoLease]
    /\ UNCHANGED <<issued, now>>

Fail(w, code) ==
    /\ Fenced(w)
    /\ LET t == held[w].task IN
       Save(t, [Finish(rec[t], "failed", code, NoDraft) EXCEPT !.retryAt = now + RetryDelay])
    /\ held' = [held EXCEPT ![w] = NoLease]
    /\ UNCHANGED <<issued, now>>

\* The worker stops: it crashed, or an operation told it the lease is lost.
Drop(w) ==
    /\ held[w] # NoLease
    /\ held' = [held EXCEPT ![w] = NoLease]
    /\ UNCHANGED <<rec, issued, now>>

(***************************************************************************)
(* The wall clock.                                                         *)
(***************************************************************************)
Tick ==
    /\ now < MaxTime
    /\ now' = now + 1
    /\ UNCHANGED <<rec, held, issued>>

StepBack ==
    /\ ClockRegresses /\ now > 1
    /\ now' = now - 1
    /\ UNCHANGED <<rec, held, issued>>

WorkerStep(w) ==
    \/ \E t \in Task : Claim(w, t)
    \/ Renew(w)
    \/ Complete(w)
    \/ \E code \in Failure : Fail(w, code)
    \/ Drop(w)

TaskStep(t) ==
    \/ Submit(t)
    \/ \E transientOnly \in BOOLEAN : Retry(t, transientOnly)
    \/ Invalidate(t)
    \/ ClaimExhausted(t)

Next ==
    \/ \E w \in Worker : WorkerStep(w)
    \/ \E t \in Task : TaskStep(t)
    \/ Tick
    \/ StepBack

Spec == Init /\ [][Next]_vars

(***************************************************************************)
(* What the table promises.                                                *)
(***************************************************************************)
Drafts == {NoDraft} \cup [task : Task, attempt : 1..MaxAttempts]
Codes == Failure \cup {"", "attempts_exhausted", "inputs_changed"}
States == {"queued", "running", "draft_ready", "failed", "invalidated"}
Row == [state : States, attempts : 0..MaxAttempts, created : Nat \ {0}, updated : Nat,
        started : Nat, until : Nat, token : Nat, retryAt : Nat, draft : Drafts, code : Codes]
Lease == {NoLease} \cup [task : Task, token : Nat \ {NoToken}, attempt : 1..MaxAttempts]

\* The shape of the table (schema of store.go, Init) and of the leases.
TypeOK ==
    /\ rec \in [Task -> {NoRow} \cup Row]
    /\ held \in [Worker -> Lease]
    /\ issued \in Nat
    /\ now \in Nat \ {0}

\* At any moment at most one process is able to write a result or prolong a
\* lease, over all tasks and processes, however late the others answer: the
\* check of Claim and the fence of withLease together.
SingleHolder == \A v, w \in Worker : Fenced(v) /\ Fenced(w) => v = w

\* The comment of Claim: "Only one unexpired worker can run in this database."
OneUnexpired == \A t, u \in Task : Live(t) /\ Live(u) => t = u

\* A ready draft is the one computed by the attempt counted last; a worker whose
\* lease was taken over cannot leave an older draft behind.
DraftOfLastAttempt ==
    \A t \in Task : rec[t].state = "draft_ready" => rec[t].draft = Draft(t, rec[t].attempts)

\* An operation whose guards pass never fails as corrupt in save: the worker
\* that passes the fence can prolong its lease up to the last millisecond of
\* the attempt limit, and finish, even after the clock was stepped back.
FencedNeverRefused ==
    \A w \in Worker : Fenced(w) =>
        /\ ENABLED Renew(w)
        /\ ENABLED Complete(w)
        /\ \A code \in Failure : ENABLED Fail(w, code)

\* The attempts the rows have counted.
CountedAttempts ==
    {x \in [task : Task, attempt : 1 .. MaxAttempts] :
        Exists(x.task) /\ x.attempt <= rec[x.task].attempts}

\* Nothing gives attempts back: every token ever handed out is one counted
\* attempt of some row, so no retry, expired lease, invalidation or restart
\* makes a task computed more than MaxAttempts times in its life.
TokensAreAttempts == issued = Cardinality(CountedAttempts)

\* The table keeps its shape and gives no attempt back (record, Claim).
Consistent == TypeOK /\ TokensAreAttempts

(***************************************************************************)
(* The table implements the contract its readers rely on.                  *)
(***************************************************************************)
LifeOf(r) ==
    IF r.state = "absent" THEN [state |-> "absent"]
    ELSE IF r.state = "draft_ready" THEN [state |-> "ready", draft |-> r.draft]
    ELSE IF r.state = "invalidated" THEN [state |-> "void"]
    ELSE [state |-> "working"]

Lifecycle == INSTANCE DraftLifecycle
    WITH Result <- Drafts, life <- [t \in Task |-> LifeOf(rec[t])]

\* Whatever workers, operators and the clock do, a reader of the table sees one
\* draft per task that never changes, and a void task never comes back.
LifecycleSpec == Lifecycle!Spec
=============================================================================
