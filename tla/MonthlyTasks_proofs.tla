------------------------ MODULE MonthlyTasks_proofs ------------------------
(***************************************************************************)
(* Safety of the task table for every set of tasks and processes and all   *)
(* limits.                                                                 *)
(***************************************************************************)
EXTENDS MonthlyTasks, FiniteSetTheorems, TLAPS

USE DEF NoToken

\* What the rows a step writes look like.
LEMMA FinishedRow ==
    ASSUME TypeOK, NEW r \in Row,
           NEW s \in States, NEW c \in Codes, NEW d \in Drafts
    PROVE  /\ Finish(r, s, c, d) \in Row
           /\ [Finish(r, s, c, d) EXCEPT !.retryAt = now + RetryDelay] \in Row
  <1>1. now \in Nat \ {0} /\ RetryDelay \in Nat
    BY LimitAssumption DEF TypeOK
  <1>2. Finish(r, s, c, d) \in Row
    BY <1>1 DEF Row, Finish
  <1>3. ASSUME NEW q \in Row PROVE [q EXCEPT !.retryAt = now + RetryDelay] \in Row
    BY <1>1 DEF Row
  <1> QED
    BY <1>2, <1>3

LEMMA ClaimedRow ==
    ASSUME NEW r \in Row, NEW k \in Nat, NEW m \in Nat, NEW u \in Nat,
           r.attempts < MaxAttempts, MaxAttempts \in Nat
    PROVE  [r EXCEPT !.state = "running", !.token = k, !.started = m, !.until = u,
                     !.attempts = @ + 1, !.updated = m, !.retryAt = 0, !.code = ""] \in Row
  <1>1. r.attempts + 1 \in 0..MaxAttempts
    BY DEF Row
  <1>2. ASSUME NEW a \in 0..MaxAttempts
        PROVE [r EXCEPT !.state = "running", !.token = k, !.started = m, !.until = u,
                        !.attempts = a, !.updated = m, !.retryAt = 0, !.code = ""] \in Row
    <2>1. "running" \in States /\ "" \in Codes
      BY DEF States, Codes
    <2> QED
      BY <2>1 DEF Row
  <1> QED
    BY <1>1, <1>2

LEMMA RenewedRow ==
    ASSUME TypeOK, NEW r \in Row
    PROVE  Renewed(r) \in Row
  <1>1. now \in Nat /\ Earlier(now + LeaseTime, r.started + AttemptLimit) \in Nat
    BY LimitAssumption DEF TypeOK, Row, Earlier
  <1> QED
    BY <1>1 DEF Renewed, Row

\* A row the operation found is a row, not the absence of one.
LEMMA LoadedRow ==
    ASSUME TypeOK, NEW t \in Task, Loaded(t)
    PROVE  rec[t] \in Row
  BY DEF TypeOK, Loaded, Exists, NoRow

LEMMA FencedLease ==
    ASSUME TypeOK, NEW w \in Worker, Fenced(w)
    PROVE  /\ held[w].task \in Task /\ held[w].token \in Nat \ {NoToken}
           /\ held[w].attempt \in 1..MaxAttempts
           /\ rec[held[w].task] \in Row
  <1>1. held[w] \in [task : Task, token : Nat \ {NoToken}, attempt : 1..MaxAttempts]
    BY DEF TypeOK, Lease, Fenced
  <1>2. held[w].task \in Task
    BY <1>1
  <1>3. Loaded(held[w].task)
    BY DEF Fenced
  <1> QED
    BY <1>1, <1>2, <1>3, LoadedRow

\* The type invariant of the table and of the leases in the workers' memory:
\* every row the operations of tasks.go write fits the schema of store.go.
THEOREM TypeCorrect == Spec => []TypeOK
<1>1. Init => TypeOK
  BY LimitAssumption DEF Init, TypeOK, Lease
<1>2. TypeOK /\ [Next]_vars => TypeOK'
  <2> SUFFICES ASSUME TypeOK, [Next]_vars PROVE TypeOK'
    OBVIOUS
  <2> USE LimitAssumption
  <2>1. ASSUME NEW t \in Task, Submit(t) PROVE TypeOK'
    <3>1. [state |-> "queued", attempts |-> 0, created |-> now, updated |-> now,
           started |-> 0, until |-> 0, token |-> NoToken, retryAt |-> 0,
           draft |-> NoDraft, code |-> ""] \in Row
      <4>1. 0 \in 0..MaxAttempts /\ now \in Nat \ {0}
        BY DEF TypeOK
      <4>2. "queued" \in States /\ NoDraft \in Drafts /\ "" \in Codes
        BY DEF States, Drafts, Codes
      <4> QED
        BY <4>1, <4>2 DEF Row
    <3> QED
      BY <2>1, <3>1 DEF Submit, TypeOK
  <2>2. ASSUME NEW t \in Task, NEW b \in BOOLEAN, Retry(t, b) PROVE TypeOK'
    <3>1. rec' = [rec EXCEPT ![t] = Finish(rec[t], "queued", "", NoDraft)]
      BY <2>2 DEF Retry, Save
    <3>2. Finish(rec[t], "queued", "", NoDraft) \in Row
      BY <2>2, LoadedRow, FinishedRow DEF Retry, States, Codes, Drafts
    <3> QED
      BY <2>2, <3>1, <3>2 DEF Retry, TypeOK
  <2>3. ASSUME NEW t \in Task, Invalidate(t) PROVE TypeOK'
    <3>1. rec' = [rec EXCEPT ![t] = Finish(rec[t], "invalidated", "inputs_changed", NoDraft)]
      BY <2>3 DEF Invalidate, Save
    <3>2. Finish(rec[t], "invalidated", "inputs_changed", NoDraft) \in Row
      BY <2>3, LoadedRow, FinishedRow DEF Invalidate, States, Codes, Drafts
    <3> QED
      BY <2>3, <3>1, <3>2 DEF Invalidate, TypeOK
  <2>4. ASSUME NEW t \in Task, ClaimExhausted(t) PROVE TypeOK'
    <3>1. rec' = [rec EXCEPT ![t] = Finish(rec[t], "failed", "attempts_exhausted", NoDraft)]
      BY <2>4 DEF ClaimExhausted, Save
    <3>2. Finish(rec[t], "failed", "attempts_exhausted", NoDraft) \in Row
      BY <2>4, LoadedRow, FinishedRow DEF ClaimExhausted, Claimable, States, Codes, Drafts
    <3> QED
      BY <2>4, <3>1, <3>2 DEF ClaimExhausted, TypeOK
  <2>5. ASSUME NEW w \in Worker, NEW t \in Task, Claim(w, t) PROVE TypeOK'
    <3>1. rec[t] \in Row /\ rec[t].attempts + 1 \in 1..MaxAttempts
      BY <2>5, LoadedRow DEF Claim, Claimable, Row
    <3>2. NextLease(t) \in Lease
      BY <3>1 DEF NextLease, Lease, TypeOK
    <3>3. [rec[t] EXCEPT !.state = "running", !.token = issued + 1, !.started = now,
                         !.until = now + LeaseTime, !.attempts = @ + 1,
                         !.updated = now, !.retryAt = 0, !.code = ""] \in Row
      <4>1. rec[t].attempts < MaxAttempts /\ issued + 1 \in Nat
            /\ now \in Nat /\ now + LeaseTime \in Nat /\ MaxAttempts \in Nat
        BY <2>5 DEF Claim, TypeOK
      <4> QED
        BY <3>1, <4>1, ClaimedRow
    <3> QED
      BY <2>5, <3>2, <3>3 DEF Claim, Save, TypeOK
  <2>6. ASSUME NEW w \in Worker, Renew(w) PROVE TypeOK'
    <3>1. rec[held[w].task] \in Row /\ held[w].task \in Task
      BY <2>6, FencedLease DEF Renew
    <3>2. Renewed(rec[held[w].task]) \in Row
      BY <3>1, RenewedRow
    <3> QED
      BY <2>6, <3>1, <3>2 DEF Renew, Save, TypeOK
  <2>7. ASSUME NEW w \in Worker, Complete(w) PROVE TypeOK'
    <3>1. /\ rec[held[w].task] \in Row /\ held[w].task \in Task
          /\ held[w].attempt \in 1..MaxAttempts
      BY <2>7, FencedLease DEF Complete
    <3>2. Finish(rec[held[w].task], "draft_ready", "", Draft(held[w].task, held[w].attempt)) \in Row
      BY <3>1, FinishedRow DEF Draft, States, Codes, Drafts
    <3> QED
      BY <2>7, <3>1, <3>2 DEF Complete, Save, TypeOK, Lease
  <2>8. ASSUME NEW w \in Worker, NEW code \in Failure, Fail(w, code) PROVE TypeOK'
    <3>1. rec[held[w].task] \in Row /\ held[w].task \in Task
      BY <2>8, FencedLease DEF Fail
    <3>2. [Finish(rec[held[w].task], "failed", code, NoDraft) EXCEPT !.retryAt = now + RetryDelay] \in Row
      BY <3>1, FinishedRow DEF States, Codes, Drafts
    <3> QED
      BY <2>8, <3>1, <3>2 DEF Fail, Save, TypeOK, Lease
  <2>9. ASSUME NEW w \in Worker, Drop(w) PROVE TypeOK'
    BY <2>9 DEF Drop, TypeOK, Lease
  <2>10. CASE Tick
    BY <2>10 DEF Tick, TypeOK
  <2>11. CASE StepBack
    BY <2>11 DEF StepBack, TypeOK
  <2>12. CASE UNCHANGED vars
    BY <2>12 DEF vars, TypeOK
  <2> QED
    BY <2>1, <2>2, <2>3, <2>4, <2>5, <2>6, <2>7, <2>8, <2>9, <2>10, <2>11, <2>12
    DEF Next, WorkerStep, TaskStep
<1> QED
  BY <1>1, <1>2, PTL DEF Spec

(***************************************************************************)
(* Exclusion. Two leases never carry the same token, and with a clock that *)
(* does not regress the table never holds two unexpired leases; a process  *)
(* that passes the fence holds the token of an unexpired row.              *)
(***************************************************************************)
LeasesDistinct ==
    \A v, w \in Worker :
        /\ held[w] # NoLease => held[w].token <= issued
        /\ held[v] # NoLease /\ held[v].token = held[w].token => v = w

\* A step that neither claims nor turns the clock back makes no lease unexpired.
LEMMA NoNewLive ==
    ASSUME TypeOK, OneUnexpired, \A t \in Task : Live(t)' => Live(t)
    PROVE  OneUnexpired'
  BY DEF OneUnexpired

\* A step that leaves every other row alone and t without a lease.
LEMMA LiveAfterFinish ==
    ASSUME now' = now, NEW t \in Task, rec'[t].state # "running",
           \A u \in Task \ {t} : rec'[u] = rec[u]
    PROVE  \A u \in Task : Live(u)' => Live(u)
  BY DEF Live

\* The operations that finish a row without a draft.
LEMMA SettlingStep ==
    ASSUME TypeOK, NEW t \in Task,
           \/ \E b \in BOOLEAN : Retry(t, b)
           \/ Invalidate(t)
           \/ ClaimExhausted(t)
    PROVE  /\ rec'[t].state \in {"queued", "failed", "invalidated"}
           /\ \A u \in Task \ {t} : rec'[u] = rec[u]
           /\ now' = now
  <1>1. rec[t] \in Row
    BY LoadedRow DEF Retry, Invalidate, ClaimExhausted, Claimable
  <1>2. \A s, c, d : Finish(rec[t], s, c, d).state = s
    BY <1>1 DEF Finish, Row
  <1>3. CASE \E b \in BOOLEAN : Retry(t, b)
    <2>1. rec' = [rec EXCEPT ![t] = Finish(rec[t], "queued", "", NoDraft)] /\ now' = now
      BY <1>3 DEF Retry, Save
    <2> QED
      BY <1>2, <2>1 DEF TypeOK
  <1>4. CASE Invalidate(t)
    BY <1>2, <1>4 DEF Invalidate, Save, TypeOK
  <1>5. CASE ClaimExhausted(t)
    BY <1>2, <1>5 DEF ClaimExhausted, Save, TypeOK
  <1> QED
    BY <1>3, <1>4, <1>5

LEMMA LeasesStayDistinct == TypeOK /\ LeasesDistinct /\ [Next]_vars => LeasesDistinct'
<1> SUFFICES ASSUME TypeOK, LeasesDistinct, [Next]_vars PROVE LeasesDistinct'
  OBVIOUS
<1>1. ASSUME NEW w \in Worker, NEW t \in Task, Claim(w, t) PROVE LeasesDistinct'
  <2>1. /\ held' = [held EXCEPT ![w] = NextLease(t)] /\ issued' = issued + 1
        /\ NextLease(t).token = issued + 1 /\ issued \in Nat
    BY <1>1 DEF Claim, NextLease, TypeOK
  <2>2. \A v \in Worker : held[v] \in Lease /\ (held[v] # NoLease => held[v].token \in Nat \ {0})
    BY DEF TypeOK, Lease
  <2>3. \A v \in Worker : v # w => held'[v] = held[v]
    BY <2>1 DEF TypeOK
  <2>4. held'[w] = NextLease(t)
    BY <2>1 DEF TypeOK
  <2>5. NoLease.token = 0
    BY DEF NoLease
  <2> QED
    BY <2>1, <2>2, <2>3, <2>4, <2>5 DEF LeasesDistinct
<1>2. ASSUME issued' = issued,
             \/ held' = held
             \/ \E w \in Worker : held' = [held EXCEPT ![w] = NoLease]
      PROVE LeasesDistinct'
  <2>1. \A v \in Worker : held'[v] = held[v] \/ held'[v] = NoLease
    BY <1>2 DEF TypeOK
  <2>2. \A v \in Worker : held[v] # NoLease => held[v].token \in Nat \ {0}
    BY DEF TypeOK, Lease
  <2>3. NoLease.token = 0
    BY DEF NoLease
  <2> QED
    BY <1>2, <2>1, <2>2, <2>3 DEF LeasesDistinct
<1>3. CASE \E w \in Worker : WorkerStep(w)
  BY <1>1, <1>2, <1>3 DEF WorkerStep, Renew, Complete, Fail, Drop
<1>4. CASE \E t \in Task : TaskStep(t)
  BY <1>2, <1>4 DEF TaskStep, Submit, Retry, Invalidate, ClaimExhausted
<1>5. CASE Tick \/ StepBack \/ UNCHANGED vars
  BY <1>2, <1>5 DEF Tick, StepBack, vars
<1> QED
  BY <1>3, <1>4, <1>5 DEF Next

\* Only a claim creates an unexpired lease, and it does so in a table without one.
LEMMA OneUnexpiredStep ==
    ASSUME ~ClockRegresses
    PROVE  TypeOK /\ OneUnexpired /\ [Next]_vars => OneUnexpired'
<1> SUFFICES ASSUME TypeOK, OneUnexpired, [Next]_vars PROVE OneUnexpired'
  OBVIOUS
<1>1. ASSUME NEW w \in Worker, NEW t \in Task, Claim(w, t) PROVE OneUnexpired'
  <2>1. \A u \in Task : u # t => rec'[u] = rec[u]
    BY <1>1 DEF Claim, Save, TypeOK
  <2>2. \A u \in Task : u # t => ~Live(u)'
    BY <1>1, <2>1 DEF Claim, NobodyRuns, Live
  <2> QED
    BY <2>2 DEF OneUnexpired
<1>2. ASSUME NEW w \in Worker, Renew(w) PROVE OneUnexpired'
  <2>1. Live(held[w].task)
    BY <1>2 DEF Renew, Fenced, Live
  <2>2. \A u \in Task : u # held[w].task => rec'[u] = rec[u]
    BY <1>2 DEF Renew, Save, TypeOK
  <2>3. \A u \in Task : Live(u)' => Live(u)
    BY <1>2, <2>1, <2>2 DEF Renew, Live
  <2> QED
    BY <2>3, NoNewLive
<1>3. ASSUME NEW w \in Worker,
             Complete(w) \/ (\E code \in Failure : Fail(w, code))
      PROVE OneUnexpired'
  <2>1. held[w].task \in Task /\ rec[held[w].task] \in Row
    BY <1>3, FencedLease DEF Complete, Fail
  <2>2. \A s, c, d : /\ Finish(rec[held[w].task], s, c, d).state = s
                     /\ [Finish(rec[held[w].task], s, c, d) EXCEPT !.retryAt = now + RetryDelay].state = s
    BY <2>1 DEF Finish, Row
  <2>3. rec'[held[w].task].state # "running"
    <3>1. CASE Complete(w)
      <4>1. rec' = [rec EXCEPT ![held[w].task] =
                      Finish(rec[held[w].task], "draft_ready", "", Draft(held[w].task, held[w].attempt))]
        BY <3>1 DEF Complete, Save
      <4>2. Finish(rec[held[w].task], "draft_ready", "", Draft(held[w].task, held[w].attempt)).state
              = "draft_ready"
        BY <2>1 DEF Finish, Row
      <4> QED
        BY <2>1, <4>1, <4>2 DEF TypeOK
    <3>2. ASSUME NEW code \in Failure, Fail(w, code) PROVE rec'[held[w].task].state # "running"
      BY <2>1, <2>2, <3>2 DEF Fail, Save, TypeOK
    <3> QED
      BY <1>3, <3>1, <3>2
  <2>4. \A u \in Task \ {held[w].task} : rec'[u] = rec[u]
    BY <1>3 DEF Complete, Fail, Save, TypeOK
  <2> QED
    BY <1>3, <2>1, <2>3, <2>4, LiveAfterFinish, NoNewLive DEF Complete, Fail
<1>4. ASSUME NEW t \in Task, Submit(t) PROVE OneUnexpired'
  <2>1. rec'[t].state # "running" /\ \A u \in Task \ {t} : rec'[u] = rec[u]
    BY <1>4 DEF Submit, TypeOK
  <2> QED
    BY <1>4, <2>1, LiveAfterFinish, NoNewLive DEF Submit
<1>5. ASSUME NEW t \in Task,
             \/ \E b \in BOOLEAN : Retry(t, b)
             \/ Invalidate(t)
             \/ ClaimExhausted(t)
      PROVE OneUnexpired'
  BY <1>5, SettlingStep, LiveAfterFinish, NoNewLive
<1>6. CASE Tick
  <2>1. \A u \in Task : Live(u)' => Live(u)
    <3>1. \A u \in Task : rec[u].state = "running" => rec[u].until \in Nat
      BY DEF TypeOK, Row, NoRow
    <3> QED
      BY <1>6, <3>1 DEF Tick, Live, TypeOK
  <2> QED
    BY <2>1, NoNewLive
<1>7. ASSUME NEW w \in Worker, Drop(w) PROVE OneUnexpired'
  BY <1>7 DEF Drop, OneUnexpired, Live
<1>8. CASE UNCHANGED vars
  BY <1>8 DEF vars, OneUnexpired, Live
<1>9. ~StepBack
  BY DEF StepBack
<1> QED
  BY <1>1, <1>2, <1>3, <1>4, <1>5, <1>6, <1>7, <1>8, <1>9 DEF Next, WorkerStep, TaskStep

\* With a clock that never regresses, at most one process at a time can write a
\* result or prolong a lease (Claim's check and withLease's fence together).
THEOREM SingleHolderAlways ==
    ASSUME ~ClockRegresses
    PROVE  Spec => []SingleHolder
<1>1. Init => LeasesDistinct /\ OneUnexpired
  BY DEF Init, LeasesDistinct, OneUnexpired, Live, NoRow, NoLease
<1>2. TypeOK /\ LeasesDistinct /\ OneUnexpired => SingleHolder
  <2> SUFFICES ASSUME TypeOK, LeasesDistinct, OneUnexpired,
                      NEW v \in Worker, NEW w \in Worker, Fenced(v), Fenced(w)
               PROVE  v = w
    BY DEF SingleHolder
  <2>1. held[v].task \in Task /\ held[w].task \in Task
    BY FencedLease
  <2>2. Live(held[v].task) /\ Live(held[w].task)
    BY DEF Fenced, Live
  <2>3. held[v].task = held[w].task
    BY <2>1, <2>2 DEF OneUnexpired
  <2>4. held[v].token = held[w].token /\ held[v] # NoLease
    BY <2>3 DEF Fenced
  <2> QED
    BY <2>4 DEF LeasesDistinct
<1> QED
  BY <1>1, <1>2, LeasesStayDistinct, OneUnexpiredStep, TypeCorrect, PTL DEF Spec

\* A ready draft is the one the last counted attempt computed: the fence compares
\* the attempt, so a worker that was replaced cannot leave its older draft.
THEOREM DraftIsOfLastAttempt == Spec => []DraftOfLastAttempt
<1>1. Init => DraftOfLastAttempt
  BY DEF Init, DraftOfLastAttempt, NoRow
<1>2. TypeOK /\ DraftOfLastAttempt /\ [Next]_vars => DraftOfLastAttempt'
  <2> SUFFICES ASSUME TypeOK, DraftOfLastAttempt, [Next]_vars PROVE DraftOfLastAttempt'
    OBVIOUS
  <2>1. ASSUME NEW t \in Task, NEW r, rec' = [rec EXCEPT ![t] = r],
               r.state = "draft_ready" => r.draft = Draft(t, r.attempts)
        PROVE  DraftOfLastAttempt'
    BY <2>1 DEF DraftOfLastAttempt, TypeOK
  <2>2. ASSUME NEW w \in Worker, NEW t \in Task, Claim(w, t) PROVE DraftOfLastAttempt'
    <3>1. rec[t] \in Row
      BY <2>2, LoadedRow DEF Claim, Claimable
    <3>2. \E r : r.state = "running" /\ rec' = [rec EXCEPT ![t] = r]
      BY <2>2, <3>1 DEF Claim, Save, Row
    <3> QED
      BY <2>1, <3>2
  <2>3. ASSUME NEW w \in Worker, Renew(w) PROVE DraftOfLastAttempt'
    <3>1. held[w].task \in Task /\ rec[held[w].task] \in Row
      BY <2>3, FencedLease DEF Renew
    <3>2. Renewed(rec[held[w].task]).state = "running"
      BY <2>3, <3>1 DEF Renew, Fenced, Renewed, Row
    <3> QED
      BY <2>1, <2>3, <3>1, <3>2 DEF Renew, Save
  <2>4. ASSUME NEW w \in Worker, Complete(w) PROVE DraftOfLastAttempt'
    <3>1. held[w].task \in Task /\ rec[held[w].task] \in Row
      BY <2>4, FencedLease DEF Complete
    <3> DEFINE r == Finish(rec[held[w].task], "draft_ready", "", Draft(held[w].task, held[w].attempt))
    <3>2. r.draft = Draft(held[w].task, held[w].attempt) /\ r.attempts = rec[held[w].task].attempts
      BY <3>1 DEF Finish, Row
    <3>3. rec[held[w].task].attempts = held[w].attempt
      BY <2>4 DEF Complete, Fenced
    <3>4. rec' = [rec EXCEPT ![held[w].task] = r]
      BY <2>4 DEF Complete, Save
    <3> HIDE DEF r
    <3> QED
      BY <2>1, <3>1, <3>2, <3>3, <3>4
  <2>5. ASSUME NEW w \in Worker, NEW code \in Failure, Fail(w, code) PROVE DraftOfLastAttempt'
    <3>1. held[w].task \in Task /\ rec[held[w].task] \in Row
      BY <2>5, FencedLease DEF Fail
    <3>2. [Finish(rec[held[w].task], "failed", code, NoDraft) EXCEPT !.retryAt = now + RetryDelay].state = "failed"
      BY <3>1 DEF Finish, Row
    <3> QED
      BY <2>1, <2>5, <3>1, <3>2 DEF Fail, Save
  <2>6. ASSUME NEW t \in Task, Submit(t) PROVE DraftOfLastAttempt'
    BY <2>1, <2>6 DEF Submit
  <2>7. ASSUME NEW t \in Task,
               \/ \E b \in BOOLEAN : Retry(t, b)
               \/ Invalidate(t)
               \/ ClaimExhausted(t)
        PROVE DraftOfLastAttempt'
    BY <2>7, SettlingStep DEF DraftOfLastAttempt
  <2>8. CASE Tick \/ StepBack \/ UNCHANGED vars \/ \E w \in Worker : Drop(w)
    BY <2>8 DEF Tick, StepBack, vars, Drop, DraftOfLastAttempt
  <2> QED
    BY <2>2, <2>3, <2>4, <2>5, <2>6, <2>7, <2>8 DEF Next, WorkerStep, TaskStep
<1> QED
  BY <1>1, <1>2, TypeCorrect, PTL DEF Spec

(***************************************************************************)
(* Tokens and attempts: a claim draws one and counts one, nothing else     *)
(* changes either.                                                         *)
(***************************************************************************)
Counted(t, n) == Exists(t) /\ n <= rec[t].attempts

TokensCounted == IsFiniteSet(CountedAttempts) /\ TokensAreAttempts

\* A step after which every row has counted what it had.
LEMMA CountsStay ==
    ASSUME TokensCounted, issued' = issued,
           \A t \in Task, n \in 1 .. MaxAttempts : Counted(t, n)' <=> Counted(t, n)
    PROVE  TokensCounted'
  <1>1. CountedAttempts' = CountedAttempts
    BY DEF CountedAttempts, Counted
  <1> QED
    BY <1>1 DEF TokensCounted, TokensAreAttempts

\* An operation writes one row, with the attempts of the one before it.
LEMMA SameAttempts ==
    ASSUME TypeOK, TokensCounted, issued' = issued, NEW t \in Task, NEW r \in Row,
           rec' = [rec EXCEPT ![t] = r], rec[t] \in Row, r.attempts = rec[t].attempts,
           r.state \in States
    PROVE  TokensCounted'
  <1>1. Exists(t) /\ rec'[t].state # "absent"
    BY DEF TypeOK, Exists, Row, States
  <1>2. \A u \in Task, n \in 1 .. MaxAttempts : Counted(u, n)' <=> Counted(u, n)
    BY <1>1 DEF TypeOK, Counted, Exists
  <1> QED
    BY <1>2, CountsStay

LEMMA ClaimCounts ==
    ASSUME TypeOK, TokensCounted, NEW t \in Task, NEW r \in Row, rec[t] \in Row,
           rec' = [rec EXCEPT ![t] = r], r.attempts = rec[t].attempts + 1, issued' = issued + 1
    PROVE  TokensCounted'
  <1> DEFINE x == [task |-> t, attempt |-> r.attempts]
  <1>1. /\ MaxAttempts \in Nat /\ rec[t].attempts \in 0 .. MaxAttempts
        /\ r.attempts \in 1 .. MaxAttempts
    BY LimitAssumption DEF Row
  <1>2. Exists(t) /\ rec'[t].state # "absent"
    BY DEF TypeOK, Exists, Row, States
  <1>3. rec'[t] = r /\ \A u \in Task : u # t => rec'[u] = rec[u]
    BY DEF TypeOK
  <1>4. CountedAttempts' = CountedAttempts \cup {x}
    <2> SUFFICES ASSUME NEW y \in [task : Task, attempt : 1 .. MaxAttempts]
                 PROVE  y \in CountedAttempts' <=> y \in CountedAttempts \/ y = x
      BY <1>1 DEF CountedAttempts
    <2>1. CASE y.task # t
      BY <1>3, <2>1 DEF CountedAttempts, Exists
    <2>2. CASE y.task = t
      <3>1. y = x <=> y.attempt = r.attempts
        BY <1>1, <2>2
      <3> QED
        BY <1>1, <1>2, <1>3, <2>2, <3>1 DEF CountedAttempts, Exists
    <2> QED
      BY <2>1, <2>2
  <1>5. x \notin CountedAttempts
    BY <1>1 DEF CountedAttempts
  <1>6. IsFiniteSet(CountedAttempts) /\ issued = Cardinality(CountedAttempts)
    BY DEF TokensCounted, TokensAreAttempts
  <1> QED
    BY <1>4, <1>5, <1>6, FS_AddElement DEF TokensCounted, TokensAreAttempts

\* What an operation leaves of a row has the attempts it found.
LEMMA AttemptsKept ==
    ASSUME NEW r \in Row, NEW s, NEW c, NEW d
    PROVE  /\ Finish(r, s, c, d).attempts = r.attempts
           /\ [Finish(r, s, c, d) EXCEPT !.retryAt = now + RetryDelay].attempts = r.attempts
           /\ Renewed(r).attempts = r.attempts
  BY DEF Finish, Renewed, Row

LEMMA TokensStep == TypeOK /\ TokensCounted /\ [Next]_vars => TokensCounted'
  <1> SUFFICES ASSUME TypeOK, TokensCounted, [Next]_vars PROVE TokensCounted'
    OBVIOUS
  <1>1. ASSUME NEW t \in Task, NEW s \in States, NEW c \in Codes, NEW d \in Drafts, rec[t] \in Row,
               Save(t, Finish(rec[t], s, c, d)), issued' = issued
        PROVE  TokensCounted'
    <2> DEFINE r == Finish(rec[t], s, c, d)
    <2>1. r \in Row /\ r.attempts = rec[t].attempts
      <3>1. r \in Row
        BY <1>1, FinishedRow
      <3>2. r.attempts = rec[t].attempts
        BY <1>1, AttemptsKept
      <3> QED
        BY <3>1, <3>2
    <2>2. rec' = [rec EXCEPT ![t] = r] /\ r.state \in States
      BY <1>1, <2>1 DEF Save, Row
    <2> HIDE DEF r
    <2> QED
      BY <1>1, <2>1, <2>2, SameAttempts
  <1>2. ASSUME NEW t \in Task, Submit(t) PROVE TokensCounted'
    <2>1. ~Exists(t) /\ rec'[t].attempts = 0 /\ \A u \in Task : u # t => rec'[u] = rec[u]
      BY <1>2 DEF Submit, Unknown, TypeOK
    <2>2. \A u \in Task, n \in 1 .. MaxAttempts : Counted(u, n)' <=> Counted(u, n)
      BY <2>1 DEF Counted, Exists
    <2> QED
      BY <1>2, <2>2, CountsStay DEF Submit
  <1>3. ASSUME NEW t \in Task, NEW b \in BOOLEAN, Retry(t, b) PROVE TokensCounted'
    BY <1>1, <1>3, LoadedRow DEF Retry, States, Codes, Drafts
  <1>4. ASSUME NEW t \in Task, Invalidate(t) PROVE TokensCounted'
    BY <1>1, <1>4, LoadedRow DEF Invalidate, States, Codes, Drafts
  <1>5. ASSUME NEW t \in Task, ClaimExhausted(t) PROVE TokensCounted'
    BY <1>1, <1>5, LoadedRow DEF ClaimExhausted, Claimable, States, Codes, Drafts
  <1>6. ASSUME NEW w \in Worker, NEW t \in Task, Claim(w, t) PROVE TokensCounted'
    <2> DEFINE r == [rec[t] EXCEPT !.state = "running", !.token = issued + 1, !.started = now,
                                   !.until = now + LeaseTime, !.attempts = @ + 1,
                                   !.updated = now, !.retryAt = 0, !.code = ""]
    <2>1. rec[t] \in Row /\ rec[t].attempts < MaxAttempts /\ MaxAttempts \in Nat
      BY <1>6, LoadedRow, LimitAssumption DEF Claim, Claimable
    <2>2. issued + 1 \in Nat /\ now \in Nat /\ now + LeaseTime \in Nat
      BY LimitAssumption DEF TypeOK
    <2>3. r \in Row
      BY <2>1, <2>2, ClaimedRow
    <2>4. r.attempts = rec[t].attempts + 1
      BY <2>1 DEF Row
    <2>5. rec' = [rec EXCEPT ![t] = r] /\ issued' = issued + 1
      BY <1>6 DEF Claim, Save
    <2> HIDE DEF r
    <2> QED
      BY <2>1, <2>3, <2>4, <2>5, ClaimCounts
  <1>7. ASSUME NEW w \in Worker, Renew(w) PROVE TokensCounted'
    <2> DEFINE t == held[w].task
               r == Renewed(rec[t])
    <2>1. t \in Task /\ rec[t] \in Row
      BY <1>7, FencedLease DEF Renew
    <2>2. r \in Row /\ r.attempts = rec[t].attempts
      BY <2>1, RenewedRow, AttemptsKept
    <2>3. rec' = [rec EXCEPT ![t] = r] /\ issued' = issued /\ r.state \in States
      BY <1>7, <2>2 DEF Renew, Save, Row
    <2> HIDE DEF r, t
    <2> QED
      BY <2>1, <2>2, <2>3, SameAttempts
  <1>8. ASSUME NEW w \in Worker, Complete(w) PROVE TokensCounted'
    <2>1. /\ held[w].task \in Task /\ rec[held[w].task] \in Row
          /\ held[w].attempt \in 1 .. MaxAttempts
      BY <1>8, FencedLease DEF Complete
    <2>2. Draft(held[w].task, held[w].attempt) \in Drafts /\ "draft_ready" \in States /\ "" \in Codes
      BY <2>1 DEF Draft, Drafts, States, Codes
    <2> QED
      BY <1>1, <1>8, <2>1, <2>2 DEF Complete
  <1>9. ASSUME NEW w \in Worker, NEW code \in Failure, Fail(w, code) PROVE TokensCounted'
    <2> DEFINE t == held[w].task
               r == [Finish(rec[t], "failed", code, NoDraft) EXCEPT !.retryAt = now + RetryDelay]
    <2>1. t \in Task /\ rec[t] \in Row
      BY <1>9, FencedLease DEF Fail
    <2>2. "failed" \in States /\ code \in Codes /\ NoDraft \in Drafts
      BY DEF States, Codes, Drafts
    <2>3. r \in Row /\ r.attempts = rec[t].attempts
      BY <2>1, <2>2, FinishedRow, AttemptsKept
    <2>4. rec' = [rec EXCEPT ![t] = r] /\ issued' = issued /\ r.state \in States
      BY <1>9, <2>3 DEF Fail, Save, Row
    <2> HIDE DEF r, t
    <2> QED
      BY <2>1, <2>3, <2>4, SameAttempts
  <1>10. CASE Tick \/ StepBack \/ UNCHANGED vars \/ \E w \in Worker : Drop(w)
    <2>1. UNCHANGED <<rec, issued>>
      BY <1>10 DEF Tick, StepBack, vars, Drop
    <2> QED
      BY <2>1, CountsStay DEF Counted, Exists
  <1> QED
    BY <1>2, <1>3, <1>4, <1>5, <1>6, <1>7, <1>8, <1>9, <1>10 DEF Next, WorkerStep, TaskStep

\* Every token ever handed out is one counted attempt, and a row counts at most MaxAttempts of
\* them: no retry, expiry, invalidation or restart gives a task more (Claim, finishRecord).
THEOREM TokensAreCounted == Spec => []Consistent
  <1>1. Init => TokensCounted
    <2> SUFFICES ASSUME Init PROVE TokensCounted
      OBVIOUS
    <2>1. CountedAttempts = {}
      BY DEF Init, CountedAttempts, Exists, NoRow
    <2> QED
      BY <2>1, FS_EmptySet DEF Init, TokensCounted, TokensAreAttempts
  <1>2. TypeOK /\ TokensCounted => Consistent
    BY DEF TokensCounted, Consistent
  <1> QED
    BY <1>1, <1>2, TokensStep, TypeCorrect, PTL DEF Spec

(***************************************************************************)
(* The table implements DraftLifecycle: each operation is a step of the    *)
(* contract or leaves what a reader sees unchanged.                        *)
(***************************************************************************)
mapped == [t \in Task |-> LifeOf(rec[t])]

\* An operation writes one row; what that row becomes decides the contract's step.
LEMMA OneRowStep ==
    ASSUME TypeOK, NEW t \in Task, NEW r, rec' = [rec EXCEPT ![t] = r],
           \/ LifeOf(r) = LifeOf(rec[t])
           \/ rec[t].state = "absent" /\ LifeOf(r) = [state |-> "working"]
           \/ /\ LifeOf(rec[t]) = [state |-> "working"]
              /\ \E d \in Drafts : LifeOf(r) = [state |-> "ready", draft |-> d]
           \/ /\ LifeOf(rec[t]) \in Lifecycle!Life \ {[state |-> "absent"], [state |-> "void"]}
              /\ LifeOf(r) = [state |-> "void"]
    PROVE  Lifecycle!Next \/ UNCHANGED mapped
  <1>1. mapped' = [mapped EXCEPT ![t] = LifeOf(r)]
    <2>1. mapped' = [u \in Task |-> LifeOf(rec'[u])]
      BY DEF mapped, LifeOf
    <2>2. \A u \in Task : rec'[u] = IF u = t THEN r ELSE rec[u]
      BY DEF TypeOK
    <2>3. [mapped EXCEPT ![t] = LifeOf(r)] =
            [u \in Task |-> IF u = t THEN LifeOf(r) ELSE LifeOf(rec[u])]
      BY DEF mapped
    <2>4. \A u \in Task : LifeOf(rec'[u]) = IF u = t THEN LifeOf(r) ELSE LifeOf(rec[u])
      BY <2>2
    <2> QED
      BY <2>1, <2>3, <2>4
  <1>2. mapped[t] = LifeOf(rec[t])
    BY DEF mapped
  <1>3. CASE LifeOf(r) = LifeOf(rec[t])
    BY <1>1, <1>2, <1>3 DEF mapped
  <1>4. CASE rec[t].state = "absent" /\ LifeOf(r) = [state |-> "working"]
    <2>1. Lifecycle!Admit(t)
      BY <1>1, <1>2, <1>4 DEF Lifecycle!Admit, Lifecycle!Absent, Lifecycle!Working, LifeOf, mapped
    <2> QED
      BY <2>1 DEF Lifecycle!Next, Lifecycle!Step
  <1>5. ASSUME NEW d \in Drafts, LifeOf(rec[t]) = [state |-> "working"],
               LifeOf(r) = [state |-> "ready", draft |-> d]
        PROVE  Lifecycle!Next
    <2>1. Lifecycle!Finish(t, d)
      BY <1>1, <1>2, <1>5 DEF Lifecycle!Finish, Lifecycle!Working, Lifecycle!Ready, mapped
    <2> QED
      BY <2>1 DEF Lifecycle!Next, Lifecycle!Step
  <1>6. CASE /\ LifeOf(rec[t]) \in Lifecycle!Life \ {[state |-> "absent"], [state |-> "void"]}
             /\ LifeOf(r) = [state |-> "void"]
    <2>1. Lifecycle!Revoke(t)
      BY <1>1, <1>2, <1>6 DEF Lifecycle!Revoke, Lifecycle!Absent, Lifecycle!Void, mapped
    <2> QED
      BY <2>1 DEF Lifecycle!Next, Lifecycle!Step
  <1> QED
    BY <1>3, <1>4, <1>5, <1>6

LEMMA FinishFields ==
    ASSUME NEW r \in Row, NEW s, NEW c, NEW d
    PROVE  /\ Finish(r, s, c, d).state = s /\ Finish(r, s, c, d).draft = d
           /\ [Finish(r, s, c, d) EXCEPT !.retryAt = now + RetryDelay].state = s
  BY DEF Finish, Row

\* Every reader of the table (WorkCandidates, the publication journal, the HTTP
\* status) can rely on the contract, for every set of tasks and workers.
THEOREM ImplementsLifecycle == Spec => LifecycleSpec
<1>1. Init => Lifecycle!Init
  BY DEF Init, Lifecycle!Init, Lifecycle!Absent, LifeOf, NoRow
<1>2. TypeOK /\ [Next]_vars => Lifecycle!Next \/ UNCHANGED mapped
  <2> SUFFICES ASSUME TypeOK, [Next]_vars PROVE Lifecycle!Next \/ UNCHANGED mapped
    OBVIOUS
  <2>2. ASSUME NEW t \in Task, Submit(t) PROVE Lifecycle!Next \/ UNCHANGED mapped
    <3> DEFINE r == [state |-> "queued", attempts |-> 0, created |-> now, updated |-> now,
                     started |-> 0, until |-> 0, token |-> NoToken, retryAt |-> 0,
                     draft |-> NoDraft, code |-> ""]
    <3>1. rec' = [rec EXCEPT ![t] = r] /\ rec[t].state = "absent"
      BY <2>2 DEF Submit, Unknown, Exists
    <3>2. LifeOf(r) = [state |-> "working"]
      BY DEF LifeOf
    <3> HIDE DEF r
    <3> QED
      BY <3>1, <3>2, OneRowStep
  <2>3. ASSUME NEW t \in Task, NEW b \in BOOLEAN, Retry(t, b)
        PROVE Lifecycle!Next \/ UNCHANGED mapped
    <3> DEFINE r == Finish(rec[t], "queued", "", NoDraft)
    <3>1. rec' = [rec EXCEPT ![t] = r] /\ rec[t].state = "failed" /\ rec[t] \in Row
      BY <2>3, LoadedRow DEF Retry, Save
    <3>2. r.state = "queued"
      <4>1. rec[t] \in Row
        BY <3>1
      <4>2. \A c : Finish(rec[t], "queued", c, NoDraft).state = "queued"
        BY <4>1, FinishFields
      <4> QED
        BY <4>2
    <3> HIDE DEF r
    <3>3. LifeOf(r) = LifeOf(rec[t])
      BY <3>1, <3>2 DEF LifeOf
    <3> QED
      BY <3>1, <3>3, OneRowStep
  <2>4. ASSUME NEW t \in Task, Invalidate(t) PROVE Lifecycle!Next \/ UNCHANGED mapped
    <3> DEFINE r == Finish(rec[t], "invalidated", "inputs_changed", NoDraft)
    <3>1. rec' = [rec EXCEPT ![t] = r] /\ rec[t].state # "invalidated" /\ rec[t] \in Row
      BY <2>4, LoadedRow DEF Invalidate, Save
    <3>2. r.state = "invalidated"
      BY <3>1, FinishFields
    <3> HIDE DEF r
    <3>3. LifeOf(r) = [state |-> "void"]
      BY <3>2 DEF LifeOf
    <3>4. LifeOf(rec[t]) \in Lifecycle!Life \ {[state |-> "absent"], [state |-> "void"]}
      <4>1. rec[t].state \in States /\ rec[t].draft \in Drafts
        BY <3>1 DEF Row
      <4>2. LifeOf(rec[t]) = [state |-> "working"]
            \/ \E d \in Drafts : LifeOf(rec[t]) = [state |-> "ready", draft |-> d]
        BY <3>1, <4>1 DEF LifeOf, States
      <4>3. [state |-> "working"] \in Lifecycle!Life
            /\ \A d \in Drafts : [state |-> "ready", draft |-> d] \in Lifecycle!Life
        BY DEF Lifecycle!Life, Lifecycle!Working, Lifecycle!Ready
      <4>4. [state |-> "working"] \notin {[state |-> "absent"], [state |-> "void"]}
            /\ \A d : [state |-> "ready", draft |-> d] \notin {[state |-> "absent"], [state |-> "void"]}
        <5>1. \A d : [state |-> "ready", draft |-> d].state = "ready"
          OBVIOUS
        <5> QED
          BY <5>1
      <4> QED
        BY <4>2, <4>3, <4>4
    <3> QED
      BY <3>1, <3>3, <3>4, OneRowStep
  <2>5. ASSUME NEW t \in Task, ClaimExhausted(t) PROVE Lifecycle!Next \/ UNCHANGED mapped
    <3> DEFINE r == Finish(rec[t], "failed", "attempts_exhausted", NoDraft)
    <3>1. /\ rec' = [rec EXCEPT ![t] = r]
          /\ rec[t].state \in {"queued", "running"} /\ rec[t] \in Row
      BY <2>5, LoadedRow DEF ClaimExhausted, Claimable, Save
    <3>2. r.state = "failed"
      BY <3>1, FinishFields
    <3> HIDE DEF r
    <3>3. LifeOf(r) = LifeOf(rec[t])
      BY <3>1, <3>2 DEF LifeOf
    <3> QED
      BY <3>1, <3>3, OneRowStep
  <2>6. ASSUME NEW w \in Worker, NEW t \in Task, Claim(w, t)
        PROVE Lifecycle!Next \/ UNCHANGED mapped
    <3>1. rec[t] \in Row /\ rec[t].state \in {"queued", "running"}
      BY <2>6, LoadedRow DEF Claim, Claimable
    <3>2. \E r : r.state = "running" /\ rec' = [rec EXCEPT ![t] = r]
      BY <2>6, <3>1 DEF Claim, Save, Row
    <3>3. \A r : r.state = "running" => LifeOf(r) = LifeOf(rec[t])
      BY <3>1 DEF LifeOf
    <3> QED
      BY <3>2, <3>3, OneRowStep
  <2>7. ASSUME NEW w \in Worker, Renew(w) PROVE Lifecycle!Next \/ UNCHANGED mapped
    <3>1. held[w].task \in Task /\ rec[held[w].task] \in Row
          /\ rec[held[w].task].state = "running"
      BY <2>7, FencedLease DEF Renew, Fenced
    <3>2. Renewed(rec[held[w].task]).state = "running"
      BY <3>1 DEF Renewed, Row
    <3>3. LifeOf(Renewed(rec[held[w].task])) = LifeOf(rec[held[w].task])
      BY <3>1, <3>2 DEF LifeOf
    <3>4. rec' = [rec EXCEPT ![held[w].task] = Renewed(rec[held[w].task])]
      BY <2>7 DEF Renew, Save
    <3> QED
      BY <3>1, <3>3, <3>4, OneRowStep
  <2>8. ASSUME NEW w \in Worker, Complete(w) PROVE Lifecycle!Next \/ UNCHANGED mapped
    <3> DEFINE t == held[w].task
               d == Draft(held[w].task, held[w].attempt)
               r == Finish(rec[t], "draft_ready", "", d)
    <3>1. t \in Task /\ rec[t] \in Row /\ rec[t].state = "running"
          /\ held[w].attempt \in 1..MaxAttempts
      BY <2>8, FencedLease DEF Complete, Fenced
    <3>2. d \in Drafts
      BY <3>1 DEF Draft, Drafts
    <3>3. r.state = "draft_ready" /\ r.draft = d
      <4>1. rec[t] \in Row
        BY <3>1
      <4>2. \A c, e : /\ Finish(rec[t], "draft_ready", c, e).state = "draft_ready"
                       /\ Finish(rec[t], "draft_ready", c, e).draft = e
        BY <4>1, FinishFields
      <4> QED
        BY <4>2
    <3>4. rec' = [rec EXCEPT ![t] = r]
      BY <2>8 DEF Complete, Save
    <3> HIDE DEF r, d, t
    <3>5. LifeOf(r) = [state |-> "ready", draft |-> d] /\ LifeOf(rec[t]) = [state |-> "working"]
      BY <3>1, <3>3 DEF LifeOf
    <3> QED
      BY <3>1, <3>2, <3>4, <3>5, OneRowStep
  <2>9. ASSUME NEW w \in Worker, NEW code \in Failure, Fail(w, code)
        PROVE Lifecycle!Next \/ UNCHANGED mapped
    <3> DEFINE t == held[w].task
               r == [Finish(rec[t], "failed", code, NoDraft) EXCEPT !.retryAt = now + RetryDelay]
    <3>1. t \in Task /\ rec[t] \in Row /\ rec[t].state = "running"
      BY <2>9, FencedLease DEF Fail, Fenced
    <3>2. r.state = "failed"
      BY <3>1, FinishFields
    <3>3. rec' = [rec EXCEPT ![t] = r]
      BY <2>9 DEF Fail, Save
    <3> HIDE DEF r, t
    <3>4. LifeOf(r) = LifeOf(rec[t])
      BY <3>1, <3>2 DEF LifeOf
    <3> QED
      BY <3>1, <3>3, <3>4, OneRowStep
  <2>10. CASE Tick \/ StepBack \/ UNCHANGED vars \/ \E w \in Worker : Drop(w)
    BY <2>10 DEF Tick, StepBack, vars, Drop, mapped, LifeOf
  <2> QED
    BY <2>2, <2>3, <2>4, <2>5, <2>6, <2>7, <2>8, <2>9, <2>10 DEF Next, WorkerStep, TaskStep
<1>3. TypeOK /\ [Next]_vars => [Lifecycle!Next]_mapped
  BY <1>2
<1> QED
  BY <1>1, <1>3, TypeCorrect, PTL DEF Spec, LifecycleSpec, Lifecycle!Spec, mapped
=============================================================================
