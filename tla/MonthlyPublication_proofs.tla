---------------------- MODULE MonthlyPublication_proofs ----------------------
(***************************************************************************)
(* The publication pipeline for any tasks, months, processes and audits,    *)
(* and any number of attempts and journal rows.  What carries the proof is  *)
(* the order of the deadlines: a finalizer that still has time holds the    *)
(* lease of its row, because the lease was taken before and lasts longer.   *)
(***************************************************************************)
EXTENDS MonthlyPublication, FiniteSetTheorems, TLAPS

Constants ==
    /\ MonthOf \in [Task -> Month]
    /\ NoTask \notin Task /\ NoDigest \notin Digest
    /\ MaxAttempts \in Nat \ {0}

-----------------------------------------------------------------------------
(* The inductive invariant.                                                 *)

\* What a process remembers at each step of its work.
Remembers(p) ==
    /\ proc[p].pc # "idle" => proc[p].task \in Task
    /\ proc[p].token <= issued
    /\ proc[p].pc \in {"idle", "claim"} <=> proc[p].token = 0
    /\ proc[p].pc # "finish" => proc[p].err = "none"
    /\ proc[p].pc \in {"bind", "publish"} => proc[p].digest \in Digest

\* No two processes hold the same lease token.
OwnTokens == \A p, q \in Proc : proc[p].token # 0 /\ proc[p].token = proc[q].token => p = q

\* A finalizer that still has time holds the lease of its row.
HoldsLease(p) ==
    proc[p].pc \in {"audit", "bind", "publish"} /\ ~proc[p].late =>
        LET r == job[proc[p].task] IN
        /\ r # NoRow /\ r.state = "running" /\ ~r.due
        /\ r.token = proc[p].token /\ r.attempts = proc[p].attempt

\* The evidence a process is about to publish is the one its row froze.
PublishesFrozen(p) ==
    proc[p].pc = "publish" =>
        job[proc[p].task] # NoRow /\ job[proc[p].task].digest = proc[p].digest

\* What the row of a task says of its bill is out, or was.
Issued(t) == [task |-> t, digest |-> job[t].digest] \in withdrawn \cup {bill[MonthOf[t]]}

\* A process that reports success has issued the bill.
SucceedsIssued(p) ==
    proc[p].pc = "finish" /\ proc[p].err = "none" =>
        job[proc[p].task] # NoRow /\ Issued(proc[p].task)

\* A bill carries the evidence its row froze.
OfRow(b) == job[b.task] # NoRow /\ job[b.task].digest = b.digest

BillsOfRows ==
    /\ \A b \in withdrawn : OfRow(b)
    /\ \A m \in Month : bill[m] # NoBill => OfRow(bill[m])

\* A draft that is computed has its payload.
WorkingIsHot == \A t \in Task : life[t].state = "working" => hot[t]

CountsLeases == IsFiniteSet(CountedAttempts) /\ LeasesAreAttempts

PubInv ==
    /\ TypeOK
    /\ \A p \in Proc : Remembers(p) /\ HoldsLease(p) /\ PublishesFrozen(p) /\ SucceedsIssued(p)
    /\ OwnTokens
    /\ BillsOfRows /\ SavedWasIssued
    /\ WorkingIsHot /\ PendingKeepsPayload
    /\ CountsLeases

-----------------------------------------------------------------------------
(* What steps have in common.                                               *)

\* The invariant says what the runs check.
LEMMA InvImplies == PubInv => TypeOK /\ PendingKeepsPayload
  BY DEF PubInv

\* Two processes with time left and the same task are one: both hold the lease of its row.
LEMMA OneFinalizer == PubInv => OnePublisher
  BY DEF PubInv, TypeOK, Memory, Remembers, OwnTokens, HoldsLease, OnePublisher

\* What the invariant says of bills, rows, leases and publishers.
LEMMA BillsAgreeFollows == Constants /\ PubInv => BillsAgree
  <1> SUFFICES ASSUME Constants, PubInv PROVE BillsAgree
    OBVIOUS
  <1>1. OneBillPerTask
    BY DEF PubInv, BillsOfRows, OfRow, OneBillPerTask
  <1> QED
    BY <1>1, OneFinalizer DEF PubInv, CountsLeases, BillsAgree

\* A step that counts no attempt and draws no token.
LEMMA CountsKept ==
  ASSUME CountsLeases, issued' = issued,
         \A t \in Task : job'[t] = NoRow <=> job[t] = NoRow,
         \A t \in Task : job[t] # NoRow => job'[t].attempts = job[t].attempts
  PROVE  CountsLeases'
  <1>1. CountedAttempts' = CountedAttempts
    BY DEF CountedAttempts
  <1> QED
    BY <1>1 DEF CountsLeases, LeasesAreAttempts

\* Rows of which no digest is lost and none becomes saved, beside unchanged bills.
LEMMA BillsKept ==
  ASSUME Constants, TypeOK, BillsOfRows, SavedWasIssued, UNCHANGED <<bill, withdrawn>>,
         \A t \in Task : job[t] # NoRow =>
             job'[t] # NoRow /\ job[t].digest \in {NoDigest, job'[t].digest},
         \A t \in Task : job'[t].state = "saved" => job'[t] = job[t]
  PROVE  BillsOfRows' /\ SavedWasIssued'
  <1>1. ASSUME NEW b \in Bill, OfRow(b) PROVE OfRow(b)'
    BY <1>1 DEF OfRow, Bill, Constants
  <1>2. BillsOfRows'
    BY <1>1 DEF BillsOfRows, TypeOK
  <1>3. SavedWasIssued'
    BY DEF SavedWasIssued
  <1> QED
    BY <1>2, <1>3

\* A bill is a bill, and the absence of one is none.
LEMMA Shapes ==
  ASSUME Constants
  PROVE  /\ NoBill \notin Bill /\ NoRow \notin Row
         /\ \A r \in Row : r # NoRow
  BY DEF Constants, NoBill, Bill, NoRow, Row

\* Nothing is drafted, journalled or published at first.
LEMMA InvFirst == Constants => (Init => PubInv)
  <1> SUFFICES ASSUME Constants, Init PROVE PubInv
    OBVIOUS
  <1> USE DEF Init
  <1>1. TypeOK
    BY DEF TypeOK, Drafts!Init, Drafts!Life, Idle, Memory, Drafts!Absent, Drafts!Working, Drafts!Void,
           Constants
  <1>2. \A p \in Proc : Remembers(p) /\ HoldsLease(p) /\ PublishesFrozen(p) /\ SucceedsIssued(p)
    BY DEF Idle, Remembers, HoldsLease, PublishesFrozen, SucceedsIssued
  <1>3. OwnTokens
    BY DEF OwnTokens, Idle
  <1>4. BillsOfRows /\ SavedWasIssued
    BY DEF BillsOfRows, SavedWasIssued, NoRow
  <1>5. WorkingIsHot /\ PendingKeepsPayload
    BY DEF WorkingIsHot, PendingKeepsPayload, IsReady, Drafts!IsReady, Drafts!Init, Drafts!Absent
  <1>6. CountsLeases
    <2>1. CountedAttempts = {}
      BY DEF CountedAttempts
    <2> QED
      BY <2>1, FS_EmptySet DEF CountsLeases, LeasesAreAttempts
  <1> QED
    BY <1>1, <1>2, <1>3, <1>4, <1>5, <1>6 DEF PubInv

-----------------------------------------------------------------------------
(* Steps of the operators, of the drafts and of the maintenance.            *)

\* Selections are not what the invariant is about.
LEMMA SelectionStep ==
  ASSUME Constants, PubInv,
         \/ \E t \in Task : Select(t)
         \/ \E m \in Month : WithdrawSelection(m)
  PROVE  PubInv'
  <1>1. /\ UNCHANGED <<life, hot, job, bill, withdrawn, proc, maint, issued>>
        /\ chosen' \in [Month -> Task \cup {NoTask}] /\ past' \in [Month -> SUBSET Task]
    BY DEF Select, WithdrawSelection, PubInv, TypeOK, Constants
  <1>2. TypeOK'
    BY <1>1 DEF PubInv, TypeOK
  <1>3. CountsLeases'
    BY <1>1, CountsKept DEF PubInv
  <1> QED
    BY <1>1, <1>2, <1>3 DEF PubInv, Remembers, HoldsLease, PublishesFrozen, SucceedsIssued, Issued,
       OwnTokens, BillsOfRows, OfRow, SavedWasIssued, WorkingIsHot, PendingKeepsPayload, IsReady,
       Drafts!IsReady

\* A draft gets its payload with its task, and keeps it until it is ready.
LEMMA DraftStep ==
  ASSUME Constants, PubInv, NEW t \in Task,
         SubmitDraft(t) \/ DraftDone(t) \/ InvalidateStale(t)
  PROVE  PubInv'
  <1>1. UNCHANGED <<chosen, past, job, bill, withdrawn, proc, maint, issued>>
    BY DEF SubmitDraft, DraftDone, InvalidateStale
  <1> USE DEF Drafts!Life, Drafts!Absent, Drafts!Working, Drafts!Void, Drafts!Ready
  <1>2. /\ life' \in [Task -> Drafts!Life] /\ hot' \in [Task -> BOOLEAN]
        /\ \A u \in Task : life'[u].state = "working" => hot'[u]
        /\ \A u \in Task : life'[u].state = "ready" /\ ~hot'[u] => life[u].state = "ready" /\ ~hot[u]
    <2>1. life \in [Task -> Drafts!Life] /\ hot \in [Task -> BOOLEAN] /\ WorkingIsHot
      BY DEF PubInv, TypeOK
    <2>2. CASE SubmitDraft(t)
      BY <2>1, <2>2 DEF SubmitDraft, Drafts!Admit, WorkingIsHot
    <2>3. CASE DraftDone(t)
      BY <2>1, <2>3 DEF DraftDone, Drafts!Finish, WorkingIsHot
    <2>4. CASE InvalidateStale(t)
      BY <2>1, <2>4 DEF InvalidateStale, Invalidated, Drafts!Revoke, WorkingIsHot
    <2> QED
      BY <2>2, <2>3, <2>4
  <1>3. TypeOK'
    BY <1>1, <1>2 DEF PubInv, TypeOK
  <1>4. WorkingIsHot' /\ PendingKeepsPayload'
    BY <1>1, <1>2 DEF PubInv, WorkingIsHot, PendingKeepsPayload, IsReady, Drafts!IsReady
  <1>5. CountsLeases'
    BY <1>1, CountsKept DEF PubInv
  <1> QED
    BY <1>1, <1>3, <1>4, <1>5 DEF PubInv, Remembers, HoldsLease, PublishesFrozen, SucceedsIssued,
       Issued, OwnTokens, BillsOfRows, OfRow, SavedWasIssued

\* A bill that is withdrawn is kept in the audit (WithdrawMonthlyBill).
LEMMA WithdrawStep ==
  ASSUME Constants, PubInv, NEW m \in Month, WithdrawBill(m)
  PROVE  PubInv'
  <1>1. /\ UNCHANGED <<life, chosen, past, hot, job, proc, maint, issued>>
        /\ bill[m] # NoBill /\ withdrawn' = withdrawn \cup {bill[m]}
        /\ bill' = [bill EXCEPT ![m] = NoBill]
    BY DEF WithdrawBill
  <1>2. bill \in [Month -> {NoBill} \cup Bill] /\ bill[m] \in Bill
    BY <1>1 DEF PubInv, TypeOK
  <1>3. TypeOK'
    BY <1>1, <1>2 DEF PubInv, TypeOK
  <1>4. \A t \in Task : Issued(t) => Issued(t)'
    BY <1>1, <1>2 DEF Issued, Constants, NoBill
  <1>5. \A p \in Proc : Remembers(p)' /\ HoldsLease(p)' /\ PublishesFrozen(p)' /\ SucceedsIssued(p)'
    BY <1>1, <1>4 DEF PubInv, Remembers, HoldsLease, PublishesFrozen, SucceedsIssued
  <1>6. BillsOfRows'
    BY <1>1, <1>2 DEF PubInv, BillsOfRows, OfRow
  <1>7. SavedWasIssued'
    BY <1>1, <1>4 DEF PubInv, SavedWasIssued, Issued
  <1>8. CountsLeases'
    BY <1>1, CountsKept DEF PubInv
  <1>9. OwnTokens' /\ WorkingIsHot' /\ PendingKeepsPayload'
    BY <1>1 DEF PubInv, OwnTokens, WorkingIsHot, PendingKeepsPayload, IsReady, Drafts!IsReady
  <1> QED
    BY <1>3, <1>5, <1>6, <1>7, <1>8, <1>9 DEF PubInv

\* The maintenance releases the payload of a saved task only.
LEMMA MaintenanceStep ==
  ASSUME Constants, PubInv, (\E t \in Task : AuditArchive(t)) \/ ReleasePayload
  PROVE  PubInv'
  <1>1. /\ UNCHANGED <<life, chosen, past, job, bill, withdrawn, proc, issued>>
        /\ maint' \in Task \cup {NoTask} /\ hot' \in [Task -> BOOLEAN]
        /\ \A t \in Task : hot'[t] = hot[t] \/ (IsReady(t) /\ job[t].state = "saved")
    BY DEF AuditArchive, ReleasePayload, Settled, PubInv, TypeOK
  <1>2. TypeOK'
    BY <1>1 DEF PubInv, TypeOK
  <1>3. WorkingIsHot' /\ PendingKeepsPayload'
    BY <1>1 DEF PubInv, WorkingIsHot, PendingKeepsPayload, IsReady, Drafts!IsReady
  <1>4. CountsLeases'
    BY <1>1, CountsKept DEF PubInv
  <1> QED
    BY <1>1, <1>2, <1>3, <1>4 DEF PubInv, Remembers, HoldsLease, PublishesFrozen, SucceedsIssued,
       Issued, OwnTokens, BillsOfRows, OfRow, SavedWasIssued

-----------------------------------------------------------------------------
(* Steps of a worker.                                                       *)

\* What a step of one process leaves to the others.
LEMMA OthersKept ==
  ASSUME PubInv, NEW p \in Proc, NEW r \in Memory, proc' = [proc EXCEPT ![p] = r]
  PROVE  /\ proc' \in [Proc -> Memory] /\ proc'[p] = r
         /\ \A q \in Proc : q # p => proc'[q] = proc[q]
  BY DEF PubInv, TypeOK

\* A step that changes the memory of one process, which neither takes a lease nor begins to
\* publish or to report success, and may void a draft.
LEMMA MemoryStep ==
  ASSUME Constants, PubInv, NEW p \in Proc, NEW r \in Memory,
         proc' = [proc EXCEPT ![p] = r],
         UNCHANGED <<chosen, past, hot, job, bill, withdrawn, maint, issued>>,
         life' = life \/ (\E t \in Task : Drafts!Revoke(t)),
         /\ r.pc # "idle" => r.task \in Task
         /\ r.token \in {0, proc[p].token}
         /\ r.pc \in {"idle", "claim"} <=> r.token = 0
         /\ r.pc # "finish" => r.err = "none"
         /\ r.pc \in {"bind", "publish"} => r.digest \in Digest
         /\ r.pc \in {"audit", "bind", "publish"} /\ ~r.late =>
                proc[p].pc \in {"audit", "bind", "publish"} /\ ~proc[p].late /\ r.task = proc[p].task
                /\ r.token = proc[p].token /\ r.attempt = proc[p].attempt
         /\ r.pc = "publish" =>
                proc[p].pc = "publish" /\ r.task = proc[p].task /\ r.digest = proc[p].digest
         /\ r.pc = "finish" /\ r.err = "none" =>
                proc[p].pc = "finish" /\ proc[p].err = "none" /\ r.task = proc[p].task
  PROVE  PubInv'
  <1>1. /\ proc' \in [Proc -> Memory] /\ proc'[p] = r
        /\ \A q \in Proc : q # p => proc'[q] = proc[q]
    BY OthersKept
  <1>2. /\ life' \in [Task -> Drafts!Life]
        /\ \A t \in Task : life'[t].state \in {"working", "ready"} => life'[t] = life[t]
    BY DEF PubInv, TypeOK, Drafts!Life, Drafts!Revoke, Drafts!Void
  <1>3. TypeOK'
    BY <1>1, <1>2 DEF PubInv, TypeOK
  <1>4. Remembers(p)' /\ HoldsLease(p)' /\ PublishesFrozen(p)' /\ SucceedsIssued(p)'
    <2>1. Remembers(p)'
      BY <1>1 DEF PubInv, TypeOK, Memory, Remembers
    <2>2. HoldsLease(p)'
      BY <1>1 DEF PubInv, HoldsLease
    <2>3. PublishesFrozen(p)'
      BY <1>1 DEF PubInv, PublishesFrozen
    <2>4. SucceedsIssued(p)'
      BY <1>1 DEF PubInv, SucceedsIssued, Issued
    <2> QED
      BY <2>1, <2>2, <2>3, <2>4
  <1>5. ASSUME NEW q \in Proc, q # p
        PROVE  Remembers(q)' /\ HoldsLease(q)' /\ PublishesFrozen(q)' /\ SucceedsIssued(q)'
    BY <1>1, <1>5 DEF PubInv, Remembers, HoldsLease, PublishesFrozen, SucceedsIssued, Issued
  <1>6. OwnTokens'
    BY <1>1 DEF PubInv, OwnTokens
  <1>7. BillsOfRows' /\ SavedWasIssued'
    BY DEF PubInv, BillsOfRows, OfRow, SavedWasIssued
  <1>8. WorkingIsHot' /\ PendingKeepsPayload'
    BY <1>2 DEF PubInv, WorkingIsHot, PendingKeepsPayload, IsReady, Drafts!IsReady
  <1>9. CountsLeases'
    BY CountsKept DEF PubInv
  <1> QED
    BY <1>3, <1>4, <1>5, <1>6, <1>7, <1>8, <1>9 DEF PubInv

\* A process that starts remembers nothing.
LEMMA IdleMemory == Constants => Idle \in Memory
  BY DEF Constants, Idle, Memory

\* A process that only goes on in memory: it picks, is refused, fails, stops or runs late.
LEMMA PrivateStep ==
  ASSUME Constants, PubInv, NEW p \in Proc,
         \/ \E t \in Task : Pick(p, t)
         \/ ClaimRefused(p) \/ Audit(p) \/ BindRefused(p) \/ PublishFails(p)
         \/ FinishRefused(p) \/ Crash(p) \/ Late(p)
  PROVE  PubInv'
  <1>1. proc[p] \in Memory /\ Remembers(p) /\ Idle \in Memory
    BY IdleMemory DEF PubInv, TypeOK
  <1> USE DEF Set, Failed
  <1>2. CASE ClaimRefused(p) \/ FinishRefused(p) \/ Crash(p)
    BY <1>1, <1>2, MemoryStep DEF ClaimRefused, FinishRefused, Crash, Idle
  <1>3. ASSUME NEW t \in Task, Pick(p, t) PROVE PubInv'
    <2> DEFINE r == [Idle EXCEPT !.pc = "claim", !.task = t]
    <2>1. /\ proc' = [proc EXCEPT ![p] = r]
          /\ UNCHANGED <<life, chosen, past, hot, job, bill, withdrawn, maint, issued>>
      BY <1>3 DEF Pick
    <2>2. /\ r \in Memory /\ r.pc = "claim" /\ r.task = t /\ r.token = 0 /\ r.err = "none"
      BY <1>1 DEF Idle, Memory
    <2> HIDE DEF r
    <2> QED
      BY <2>1, <2>2, MemoryStep
  <1>4. ASSUME NEW e \in {"retry", "stop"}, Failed(p, e),
               proc[p].pc \in {"audit", "bind", "publish"},
               UNCHANGED <<chosen, past, hot, job, bill, withdrawn, maint, issued>>,
               life' = life \/ (\E t \in Task : Drafts!Revoke(t))
        PROVE  PubInv'
    <2> DEFINE r == [proc[p] EXCEPT !.pc = "finish", !.err = e]
    <2>1. proc' = [proc EXCEPT ![p] = r]
      BY <1>4
    <2>2. /\ r \in Memory /\ r.pc = "finish" /\ r.task = proc[p].task
          /\ r.token = proc[p].token /\ r.err = e
      BY <1>1 DEF Memory
    <2>3. proc[p].task \in Task /\ proc[p].token # 0
      BY <1>1, <1>4 DEF Remembers
    <2> HIDE DEF r
    <2> QED
      BY <1>4, <2>1, <2>2, <2>3, MemoryStep
  <1>5. ASSUME Audit(p) PROVE PubInv'
    <2>1. CASE \E err \in {"retry", "stop"} : Failed(p, err) /\ UNCHANGED life
      BY <1>4, <1>5, <2>1 DEF Audit
    <2>2. CASE Invalidated(proc[p].task) /\ Failed(p, "stop")
      <3>1. proc[p].task \in Task
        BY <1>1, <1>5 DEF Audit, Remembers
      <3> QED
        BY <1>4, <1>5, <2>2, <3>1 DEF Audit, Invalidated
    <2>3. ASSUME NEW d \in Digest, proc' = [proc EXCEPT ![p] = [proc[p] EXCEPT !.pc = "bind", !.digest = d]],
                 ~proc[p].late, UNCHANGED life
          PROVE PubInv'
      <3> DEFINE r == [proc[p] EXCEPT !.pc = "bind", !.digest = d]
      <3>1. /\ r \in Memory /\ r.pc = "bind" /\ r.task = proc[p].task /\ r.digest = d
            /\ r.token = proc[p].token /\ r.err = proc[p].err /\ r.late = proc[p].late
            /\ r.attempt = proc[p].attempt
        BY <1>1 DEF Memory
      <3>2. /\ proc[p].pc = "audit" /\ proc' = [proc EXCEPT ![p] = r]
            /\ UNCHANGED <<chosen, past, hot, job, bill, withdrawn, maint, issued>>
        BY <1>5, <2>3 DEF Audit
      <3>3. proc[p].task \in Task /\ proc[p].token # 0 /\ proc[p].err = "none"
        BY <1>1, <3>2 DEF Remembers
      <3> HIDE DEF r
      <3>4. /\ r.token \in {0, proc[p].token} /\ (r.pc \in {"idle", "claim"} <=> r.token = 0)
            /\ (r.pc # "idle" => r.task \in Task) /\ life' = life
        BY <2>3, <3>1, <3>3
      <3>5. /\ r.pc # "finish" /\ r.pc # "publish" /\ r.digest \in Digest /\ r.err = "none"
            /\ proc[p].pc \in {"audit", "bind", "publish"} /\ ~proc[p].late
        BY <2>3, <3>1, <3>2, <3>3
      <3> QED
        BY <3>1, <3>2, <3>4, <3>5, MemoryStep
    <2> QED
      BY <1>5, <2>1, <2>2, <2>3 DEF Audit
  <1>6. CASE BindRefused(p)
    BY <1>4, <1>6 DEF BindRefused
  <1>7. CASE PublishFails(p)
    BY <1>4, <1>7 DEF PublishFails
  <1>8. CASE Late(p)
    <2> DEFINE r == [proc[p] EXCEPT !.late = TRUE]
    <2>1. /\ proc' = [proc EXCEPT ![p] = r]
          /\ UNCHANGED <<life, chosen, past, hot, job, bill, withdrawn, maint, issued>>
      BY <1>8 DEF Late
    <2>2. /\ r \in Memory /\ r.pc = proc[p].pc /\ r.task = proc[p].task /\ r.late = TRUE
          /\ r.token = proc[p].token /\ r.err = proc[p].err /\ r.digest = proc[p].digest
      BY <1>1 DEF Memory
    <2> HIDE DEF r
    <2> QED
      BY <1>1, <2>1, <2>2, MemoryStep DEF Remembers
  <1> QED
    BY <1>2, <1>3, <1>5, <1>6, <1>7, <1>8

\* A row that becomes due, and one that pauses: nobody with time left holds their lease.
LEMMA LeaseEnds ==
  ASSUME Constants, PubInv, NEW t \in Task, NEW r \in Row, job' = [job EXCEPT ![t] = r],
         job[t] # NoRow, r.attempts = job[t].attempts, r.digest = job[t].digest,
         job[t].state # "saved", r.state # "saved",
         UNCHANGED <<life, chosen, past, hot, bill, withdrawn, maint, issued>>,
         proc' \in [Proc -> Memory],
         \A q \in Proc : proc'[q] = proc[q] \/ proc'[q] = Idle,
         \A q \in Proc : proc[q].task = t => HoldsLease(q)'
  PROVE  PubInv'
  <1>1. job \in [Task -> {NoRow} \cup Row] /\ r # NoRow /\ job[t] \in Row
    BY Shapes DEF PubInv, TypeOK
  <1>2. /\ job'[t] = r /\ \A u \in Task : u # t => job'[u] = job[u]
        /\ job' \in [Task -> {NoRow} \cup Row]
    BY <1>1
  <1>3. TypeOK'
    BY <1>2 DEF PubInv, TypeOK
  <1>4. CountsLeases'
    BY <1>1, <1>2, CountsKept DEF PubInv
  <1>5. BillsOfRows' /\ SavedWasIssued'
    BY <1>1, <1>2, BillsKept DEF PubInv
  <1>6. WorkingIsHot' /\ PendingKeepsPayload'
    BY <1>1, <1>2 DEF PubInv, WorkingIsHot, PendingKeepsPayload, IsReady, Drafts!IsReady
  <1>7. OwnTokens'
    BY DEF PubInv, OwnTokens, Idle
  <1>8. ASSUME NEW q \in Proc
        PROVE  Remembers(q)' /\ HoldsLease(q)' /\ PublishesFrozen(q)' /\ SucceedsIssued(q)'
    <2>1. CASE proc'[q] = Idle
      BY <2>1 DEF Idle, Remembers, HoldsLease, PublishesFrozen, SucceedsIssued, PubInv, TypeOK
    <2>2. CASE proc'[q] = proc[q]
      <3>1. Remembers(q) /\ HoldsLease(q) /\ PublishesFrozen(q) /\ SucceedsIssued(q)
        BY DEF PubInv
      <3>2. proc[q].pc # "idle" => proc[q].task \in Task
        BY <3>1 DEF Remembers
      <3>3. Remembers(q)'
        BY <2>2, <3>1 DEF Remembers
      <3>4. HoldsLease(q)'
        BY <1>2, <2>2, <3>1, <3>2 DEF HoldsLease
      <3>5. PublishesFrozen(q)'
        BY <1>1, <1>2, <2>2, <3>1, <3>2 DEF PublishesFrozen
      <3>6. SucceedsIssued(q)'
        BY <1>1, <1>2, <2>2, <3>1, <3>2 DEF SucceedsIssued, Issued
      <3> QED
        BY <3>3, <3>4, <3>5, <3>6
    <2> QED
      BY <2>1, <2>2
  <1> QED
    BY <1>3, <1>4, <1>5, <1>6, <1>7, <1>8 DEF PubInv

\* A lease expires only when the finalizer of its holder is past its deadline.
LEMMA DueStep ==
  ASSUME Constants, PubInv, NEW t \in Task, ComesDue(t)
  PROVE  PubInv'
  <1> DEFINE r == [job[t] EXCEPT !.due = TRUE]
  <1>1. job[t] # NoRow /\ job[t] \in Row
    BY DEF ComesDue, NoRow, PubInv, TypeOK
  <1>2. /\ job' = [job EXCEPT ![t] = r] /\ Overdue(t)
        /\ UNCHANGED <<life, chosen, past, hot, bill, withdrawn, proc, maint, issued>>
        /\ job[t].state \in {"running", "retry"}
    BY DEF ComesDue
  <1>3. /\ r \in Row /\ r.attempts = job[t].attempts /\ r.digest = job[t].digest
        /\ r.state = job[t].state
    BY <1>1 DEF Row
  <1>4. ASSUME NEW q \in Proc, proc[q].task = t PROVE HoldsLease(q)'
    BY <1>2, <1>4 DEF PubInv, HoldsLease, Overdue
  <1> HIDE DEF r
  <1> QED
    BY <1>1, <1>2, <1>3, <1>4, LeaseEnds DEF PubInv, TypeOK

\* A row whose attempts are used up pauses (claim).
LEMMA PauseStep ==
  ASSUME Constants, PubInv, NEW p \in Proc, ClaimPauses(p)
  PROVE  PubInv'
  <1> DEFINE t == proc[p].task
             r == [job[t] EXCEPT !.state = "paused", !.due = FALSE, !.token = 0]
  <1>1. /\ job' = [job EXCEPT ![t] = r] /\ proc' = [proc EXCEPT ![p] = Idle]
        /\ UNCHANGED <<life, chosen, past, hot, bill, withdrawn, maint, issued>>
        /\ job[t] # NoRow /\ Eligible(t) /\ proc[p].pc = "claim"
    BY DEF ClaimPauses, Set
  <1>2. t \in Task /\ Idle \in Memory
    BY <1>1, IdleMemory DEF PubInv, Remembers
  <1>3. job[t] \in Row
    BY <1>1, <1>2 DEF PubInv, TypeOK
  <1>4. /\ r \in Row /\ r.attempts = job[t].attempts /\ r.digest = job[t].digest
        /\ r.state = "paused"
    BY <1>3 DEF Row
  <1>5. job[t].state \in {"running", "retry"} /\ job[t].due
    BY <1>1 DEF Eligible
  <1>6. /\ proc' \in [Proc -> Memory]
        /\ \A q \in Proc : proc'[q] = proc[q] \/ proc'[q] = Idle
    BY <1>1, <1>2 DEF PubInv, TypeOK
  <1>7. ASSUME NEW q \in Proc, proc[q].task = t PROVE HoldsLease(q)'
    BY <1>5, <1>6, <1>7 DEF PubInv, HoldsLease, Idle
  <1> HIDE DEF r, t
  <1> QED
    BY <1>1, <1>2, <1>4, <1>5, <1>6, <1>7, LeaseEnds

\* The evidence is bound once, under the lease of the row.
LEMMA BindStep ==
  ASSUME Constants, PubInv, NEW p \in Proc, Bind(p)
  PROVE  PubInv'
  <1> DEFINE t == proc[p].task
             r == [job[t] EXCEPT !.digest = proc[p].digest]
             s == [proc[p] EXCEPT !.pc = "publish"]
  <1>1. /\ job' = [job EXCEPT ![t] = r] /\ proc' = [proc EXCEPT ![p] = s]
        /\ UNCHANGED <<life, chosen, past, hot, bill, withdrawn, maint, issued>>
        /\ proc[p].pc = "bind" /\ ~proc[p].late
        /\ job[t].digest \in {NoDigest, proc[p].digest} /\ job[t].state = "running"
    BY DEF Bind, Goto, Set, Frozen, Fenced
  <1>2. /\ t \in Task /\ proc[p] \in Memory /\ proc[p].digest \in Digest
        /\ proc[p].token # 0 /\ proc[p].err = "none"
    BY <1>1 DEF PubInv, TypeOK, Remembers
  <1>3. job[t] \in Row /\ job[t] # NoRow
    BY <1>1, <1>2 DEF PubInv, TypeOK, NoRow
  <1>4. /\ r \in Row /\ r # NoRow /\ r.attempts = job[t].attempts /\ r.digest = proc[p].digest
        /\ r.state = "running" /\ r.token = job[t].token /\ r.due = job[t].due
    BY <1>1, <1>2, <1>3, Shapes DEF Row
  <1>5. /\ s \in Memory /\ s.pc = "publish" /\ s.task = t /\ s.token = proc[p].token
        /\ s.err = "none" /\ s.late = proc[p].late /\ s.digest = proc[p].digest
        /\ s.attempt = proc[p].attempt
    BY <1>2 DEF Memory
  <1> HIDE DEF r, s, t
  <1>6. /\ job'[t] = r /\ \A u \in Task : u # t => job'[u] = job[u]
        /\ job' \in [Task -> {NoRow} \cup Row]
    BY <1>1, <1>2, <1>4 DEF PubInv, TypeOK
  <1>7. /\ proc' \in [Proc -> Memory] /\ proc'[p] = s
        /\ \A q \in Proc : q # p => proc'[q] = proc[q]
    BY <1>1, <1>5, OthersKept
  <1>8. TypeOK'
    BY <1>1, <1>6, <1>7 DEF PubInv, TypeOK
  <1>9. CountsLeases'
    BY <1>1, <1>3, <1>4, <1>6, CountsKept DEF PubInv
  <1>10. BillsOfRows' /\ SavedWasIssued'
    BY <1>1, <1>3, <1>4, <1>6, BillsKept DEF PubInv
  <1>11. WorkingIsHot' /\ PendingKeepsPayload'
    BY <1>1, <1>6 DEF PubInv, WorkingIsHot, PendingKeepsPayload, IsReady, Drafts!IsReady
  <1>12. OwnTokens'
    BY <1>5, <1>7 DEF PubInv, OwnTokens
  <1>13. Remembers(p)' /\ HoldsLease(p)' /\ PublishesFrozen(p)' /\ SucceedsIssued(p)'
    BY <1>1, <1>2, <1>4, <1>5, <1>6, <1>7
       DEF PubInv, Remembers, HoldsLease, PublishesFrozen, SucceedsIssued, t
  <1>14. ASSUME NEW q \in Proc, q # p
         PROVE  Remembers(q)' /\ HoldsLease(q)' /\ PublishesFrozen(q)' /\ SucceedsIssued(q)'
    <2>1. Remembers(q) /\ HoldsLease(q) /\ PublishesFrozen(q) /\ SucceedsIssued(q)
      BY DEF PubInv
    <2>2. proc'[q] = proc[q] /\ (proc[q].pc # "idle" => proc[q].task \in Task)
      BY <1>7, <1>14, <2>1 DEF Remembers
    <2>3. Remembers(q)'
      BY <1>1, <2>1, <2>2 DEF Remembers
    <2>4. HoldsLease(q)'
      BY <1>4, <1>6, <2>1, <2>2 DEF HoldsLease
    <2>5. PublishesFrozen(q)'
      <3>1. proc[q].pc = "publish" => proc[q].digest \in Digest
        BY <2>1 DEF Remembers
      <3> QED
        BY <1>1, <1>4, <1>6, <2>1, <2>2, <3>1 DEF PublishesFrozen, Constants
    <2>6. SucceedsIssued(q)'
      <3>1. ASSUME Issued(t) PROVE job[t].digest \in Digest
        BY <1>2, <3>1 DEF Issued, PubInv, TypeOK, Bill, NoBill, Constants
      <3> QED
        BY <1>1, <1>4, <1>6, <2>1, <2>2, <3>1 DEF SucceedsIssued, Issued, Constants
    <2> QED
      BY <2>3, <2>4, <2>5, <2>6
  <1> QED
    BY <1>8, <1>9, <1>10, <1>11, <1>12, <1>13, <1>14 DEF PubInv

\* A claim counts one attempt for the token it draws.
LEMMA ClaimCounts ==
  ASSUME Constants, PubInv, NEW t \in Task, NEW r \in Row, job' = [job EXCEPT ![t] = r],
         issued' = issued + 1,
         r.attempts = IF job[t] = NoRow THEN 1 ELSE job[t].attempts + 1
  PROVE  CountsLeases'
  <1> DEFINE x == [task |-> t, attempt |-> r.attempts]
  <1>1. job \in [Task -> {NoRow} \cup Row] /\ r # NoRow /\ MaxAttempts \in Nat
    BY Shapes DEF PubInv, TypeOK, Constants
  <1>2. job'[t] = r /\ \A u \in Task : u # t => job'[u] = job[u]
    BY <1>1
  <1>3. r.attempts \in 1 .. MaxAttempts
    BY DEF Row
  <1>4. job[t] # NoRow => job[t].attempts \in 1 .. MaxAttempts
    BY <1>1 DEF Row
  <1>5. \A n \in 1 .. MaxAttempts :
           n <= r.attempts <=> n = r.attempts \/ (job[t] # NoRow /\ n <= job[t].attempts)
    BY <1>1, <1>3, <1>4
  <1>6. CountedAttempts' = CountedAttempts \cup {x}
    <2> SUFFICES ASSUME NEW y \in [task : Task, attempt : 1 .. MaxAttempts]
                 PROVE  y \in CountedAttempts' <=> y \in CountedAttempts \/ y = x
      BY <1>3 DEF CountedAttempts
    <2>1. CASE y.task # t
      BY <1>2, <2>1 DEF CountedAttempts
    <2>2. CASE y.task = t
      <3>1. y = x <=> y.attempt = r.attempts
        BY <1>3, <2>2
      <3> QED
        BY <1>1, <1>2, <1>5, <2>2, <3>1 DEF CountedAttempts
    <2> QED
      BY <2>1, <2>2
  <1>7. x \notin CountedAttempts
    BY <1>1, <1>3, <1>4 DEF CountedAttempts
  <1>8. IsFiniteSet(CountedAttempts) /\ issued = Cardinality(CountedAttempts)
    BY DEF PubInv, CountsLeases, LeasesAreAttempts
  <1> QED
    BY <1>6, <1>7, <1>8, FS_AddElement DEF CountsLeases, LeasesAreAttempts

\* A claim takes a row whose lease nobody with time left holds, under a token of its own.
LEMMA ClaimStep ==
  ASSUME Constants, PubInv, NEW p \in Proc, Claim(p)
  PROVE  PubInv'
  <1> DEFINE t == proc[p].task
             r == Claimed(t)
             s == [proc[p] EXCEPT !.pc = "audit", !.token = issued + 1, !.attempt = r.attempts]
  <1>1. /\ job' = [job EXCEPT ![t] = r] /\ proc' = [proc EXCEPT ![p] = s]
        /\ issued' = issued + 1
        /\ UNCHANGED <<life, chosen, past, hot, bill, withdrawn, maint>>
        /\ proc[p].pc = "claim"
        /\ job[t] = NoRow \/ (job[t] # NoRow /\ Eligible(t) /\ BudgetLeft(t))
    BY DEF Claim, Set
  <1>2. /\ t \in Task /\ proc[p] \in Memory /\ issued \in Nat /\ proc[p].err = "none"
    BY <1>1 DEF PubInv, TypeOK, Remembers
  <1>3. job[t] # NoRow => job[t] \in Row /\ job[t].due /\ job[t].state # "saved"
    BY <1>1, <1>2 DEF PubInv, TypeOK, Eligible
  <1>4. /\ r \in Row /\ r # NoRow /\ r.state = "running" /\ r.token = issued + 1 /\ ~r.due
        /\ r.attempts = IF job[t] = NoRow THEN 1 ELSE job[t].attempts + 1
        /\ r.digest = IF job[t] = NoRow THEN NoDigest ELSE job[t].digest
    <2>1. 1 \in 1 .. MaxAttempts
      BY DEF Constants
    <2>2. job[t] # NoRow => job[t].attempts + 1 \in 1 .. MaxAttempts /\ job[t].digest \in Digest \cup {NoDigest}
      BY <1>1, <1>3 DEF BudgetLeft, Row, Constants
    <2>3. issued + 1 \in Nat
      BY <1>2
    <2>4. CASE job[t] = NoRow
      <3>1. r = [state |-> "running", attempts |-> 1, due |-> FALSE, token |-> issued + 1,
                 digest |-> NoDigest]
        BY <2>4 DEF Claimed
      <3> HIDE DEF r
      <3>2. r \in Row
        BY <2>1, <2>3, <3>1 DEF Row
      <3> QED
        BY <2>4, <3>1, <3>2, Shapes
    <2>5. CASE job[t] # NoRow
      BY <2>2, <2>3, <2>5, Shapes DEF Claimed, Row
    <2> QED
      BY <2>4, <2>5
  <1>5. /\ s \in Memory /\ s.pc = "audit" /\ s.task = t /\ s.token = issued + 1
        /\ s.err = "none" /\ s.attempt = r.attempts
    <2>1. issued + 1 \in Nat /\ r.attempts \in 0 .. MaxAttempts
      BY <1>2, <1>4 DEF Row, Constants
    <2> HIDE DEF r
    <2> QED
      BY <1>2, <2>1 DEF Memory
  <1> HIDE DEF r, s
  <1>6. CountsLeases'
    BY <1>1, <1>2, <1>4, ClaimCounts
  <1> HIDE DEF t
  <1>7. /\ job'[t] = r /\ \A u \in Task : u # t => job'[u] = job[u]
        /\ job' \in [Task -> {NoRow} \cup Row]
    BY <1>1, <1>2, <1>4 DEF PubInv, TypeOK
  <1>8. /\ proc' \in [Proc -> Memory] /\ proc'[p] = s
        /\ \A q \in Proc : q # p => proc'[q] = proc[q]
    BY <1>1, <1>5, OthersKept
  <1>9. TypeOK'
    BY <1>1, <1>2, <1>7, <1>8 DEF PubInv, TypeOK
  <1>10. BillsOfRows' /\ SavedWasIssued'
    BY <1>1, <1>3, <1>4, <1>7, BillsKept DEF PubInv
  <1>11. WorkingIsHot' /\ PendingKeepsPayload'
    BY <1>1, <1>3, <1>7 DEF PubInv, WorkingIsHot, PendingKeepsPayload, IsReady, Drafts!IsReady, NoRow
  <1>12. OwnTokens'
    <2>1. \A q \in Proc : proc[q].token <= issued /\ proc[q].token \in Nat
      BY DEF PubInv, TypeOK, Remembers, Memory
    <2> QED
      BY <1>2, <1>5, <1>8, <2>1 DEF PubInv, OwnTokens
  <1>13. Remembers(p)' /\ HoldsLease(p)' /\ PublishesFrozen(p)' /\ SucceedsIssued(p)'
    BY <1>1, <1>2, <1>4, <1>5, <1>7, <1>8
       DEF Remembers, HoldsLease, PublishesFrozen, SucceedsIssued
  <1>14. ASSUME NEW q \in Proc, q # p
         PROVE  Remembers(q)' /\ HoldsLease(q)' /\ PublishesFrozen(q)' /\ SucceedsIssued(q)'
    <2>1. Remembers(q) /\ HoldsLease(q) /\ PublishesFrozen(q) /\ SucceedsIssued(q)
      BY DEF PubInv
    <2>2. /\ proc'[q] = proc[q] /\ (proc[q].pc # "idle" => proc[q].task \in Task)
          /\ proc[q].token \in Nat
      BY <1>8, <1>14, <2>1 DEF Remembers, PubInv, TypeOK, Memory
    <2>3. Remembers(q)'
      BY <1>1, <1>2, <2>1, <2>2 DEF Remembers
    <2>4. HoldsLease(q)'
      BY <1>3, <1>7, <2>1, <2>2 DEF HoldsLease
    <2>5. PublishesFrozen(q)'
      BY <1>4, <1>7, <2>1, <2>2 DEF PublishesFrozen
    <2>6. SucceedsIssued(q)'
      BY <1>1, <1>4, <1>7, <2>1, <2>2 DEF SucceedsIssued, Issued
    <2> QED
      BY <2>3, <2>4, <2>5, <2>6
  <1> QED
    BY <1>6, <1>9, <1>10, <1>11, <1>12, <1>13, <1>14 DEF PubInv

\* The bill that is imported is the one the row froze, and overwrites no other.
LEMMA PublishStep ==
  ASSUME Constants, PubInv, NEW p \in Proc, Publish(p)
  PROVE  PubInv'
  <1> DEFINE t == proc[p].task
             m == MonthOf[t]
             b == [task |-> t, digest |-> proc[p].digest]
             s == proc'[p]
  <1>1. /\ bill' = [bill EXCEPT ![m] = b] /\ bill[m] \in {NoBill, b}
        /\ UNCHANGED <<life, chosen, past, hot, job, withdrawn, maint, issued>>
        /\ proc[p].pc = "publish"
    BY DEF Publish, Importable
  <1>2. /\ t \in Task /\ proc[p] \in Memory /\ proc[p].digest \in Digest /\ proc[p].token # 0
        /\ proc[p].err = "none" /\ m \in Month
    BY <1>1 DEF PubInv, TypeOK, Remembers, Constants
  <1>3. /\ proc' \in [Proc -> Memory] /\ \A q \in Proc : q # p => proc'[q] = proc[q]
        /\ s.pc = "finish" /\ s.task = t /\ s.token = proc[p].token
    <2>1. CASE Goto(p, "finish")
      BY <1>2, <2>1 DEF Goto, Set, Memory, PubInv, TypeOK
    <2>2. CASE Failed(p, "retry")
      BY <1>2, <2>2 DEF Failed, Set, Memory, PubInv, TypeOK
    <2> QED
      BY <2>1, <2>2 DEF Publish
  <1>4. job[t] # NoRow /\ job[t].digest = proc[p].digest
    BY <1>1 DEF PubInv, PublishesFrozen
  <1>5. b \in Bill /\ bill \in [Month -> {NoBill} \cup Bill]
    BY <1>2 DEF Bill, PubInv, TypeOK
  <1> HIDE DEF b, s, t, m
  <1>6. bill'[m] = b /\ bill' \in [Month -> {NoBill} \cup Bill]
        /\ \A n \in Month : n # m => bill'[n] = bill[n]
    BY <1>1, <1>2, <1>5
  <1>7. TypeOK'
    BY <1>1, <1>3, <1>6 DEF PubInv, TypeOK
  <1>8. ASSUME NEW u \in Task, Issued(u) PROVE Issued(u)'
    <2>1. MonthOf[u] \in Month /\ [task |-> u, digest |-> job[u].digest] # NoBill
      BY DEF Constants, NoBill
    <2> QED
      BY <1>1, <1>6, <1>8, <2>1 DEF Issued
  <1>9. BillsOfRows'
    BY <1>1, <1>4, <1>6 DEF PubInv, BillsOfRows, OfRow, b
  <1>10. SavedWasIssued'
    BY <1>1, <1>8 DEF PubInv, SavedWasIssued, Issued
  <1>11. [task |-> t, digest |-> job'[t].digest] \in withdrawn' \cup {bill'[MonthOf[t]]}
    <2>1. b = [task |-> t, digest |-> job[t].digest] /\ m = MonthOf[t]
      BY <1>4 DEF b, m, t
    <2> QED
      BY <1>1, <1>6, <2>1
  <1>12. Remembers(p)' /\ HoldsLease(p)' /\ PublishesFrozen(p)' /\ SucceedsIssued(p)'
    <2>1. /\ proc'[p].pc = "finish" /\ proc'[p].task = t
          /\ proc'[p].token = proc[p].token
      BY <1>3 DEF s
    <2>2. proc[p].token <= issued
      BY DEF PubInv, Remembers
    <2>3. Remembers(p)'
      BY <1>1, <1>2, <2>1, <2>2 DEF Remembers
    <2>4. HoldsLease(p)' /\ PublishesFrozen(p)'
      BY <2>1 DEF HoldsLease, PublishesFrozen
    <2>5. SucceedsIssued(p)'
      <3>1. job'[t] # NoRow
        BY <1>1, <1>4
      <3> QED
        BY <1>11, <2>1, <3>1 DEF SucceedsIssued, Issued
    <2> QED
      BY <2>3, <2>4, <2>5
  <1>13. ASSUME NEW q \in Proc, q # p
         PROVE  Remembers(q)' /\ HoldsLease(q)' /\ PublishesFrozen(q)' /\ SucceedsIssued(q)'
    <2>1. Remembers(q) /\ HoldsLease(q) /\ PublishesFrozen(q) /\ SucceedsIssued(q)
      BY DEF PubInv
    <2> QED
      BY <1>1, <1>3, <1>8, <1>13, <2>1
         DEF Remembers, HoldsLease, PublishesFrozen, SucceedsIssued
  <1>14. OwnTokens'
    BY <1>2, <1>3 DEF PubInv, OwnTokens, s
  <1>15. WorkingIsHot' /\ PendingKeepsPayload'
    BY <1>1 DEF PubInv, WorkingIsHot, PendingKeepsPayload, IsReady, Drafts!IsReady
  <1>16. CountsLeases'
    BY <1>1, CountsKept DEF PubInv
  <1> QED
    BY <1>7, <1>9, <1>10, <1>12, <1>13, <1>14, <1>15, <1>16 DEF PubInv

\* Only the holder of the lease ends its row, and reports success of a bill that is out.
LEMMA FinishStep ==
  ASSUME Constants, PubInv, NEW p \in Proc, Finish(p)
  PROVE  PubInv'
  <1> DEFINE t == proc[p].task
             r == [job[t] EXCEPT !.state = Outcome(p, job[t]), !.token = 0]
  <1>1. /\ job' = [job EXCEPT ![t] = r] /\ proc' = [proc EXCEPT ![p] = Idle]
        /\ UNCHANGED <<life, chosen, past, hot, bill, withdrawn, maint, issued>>
        /\ proc[p].pc = "finish" /\ proc[p].token # 0
        /\ job[t].state = "running" /\ job[t].token = proc[p].token
    BY DEF Finish, Fenced, Set
  <1>2. t \in Task /\ Idle \in Memory
    BY <1>1, IdleMemory DEF PubInv, Remembers
  <1>3. job[t] \in Row /\ job[t] # NoRow
    BY <1>1, <1>2 DEF PubInv, TypeOK, NoRow
  <1>4. /\ r \in Row /\ r # NoRow /\ r.attempts = job[t].attempts /\ r.digest = job[t].digest
        /\ r.state = "saved" => proc[p].err = "none"
    BY <1>3, Shapes DEF Row, Outcome
  <1> HIDE DEF r, t
  <1>5. /\ job'[t] = r /\ \A u \in Task : u # t => job'[u] = job[u]
        /\ job' \in [Task -> {NoRow} \cup Row]
    BY <1>1, <1>2, <1>4 DEF PubInv, TypeOK
  <1>6. /\ proc' \in [Proc -> Memory] /\ proc'[p] = Idle
        /\ \A q \in Proc : q # p => proc'[q] = proc[q]
    BY <1>1, <1>2, OthersKept
  <1>7. TypeOK'
    BY <1>1, <1>5, <1>6 DEF PubInv, TypeOK
  <1>8. CountsLeases'
    BY <1>1, <1>3, <1>4, <1>5, CountsKept DEF PubInv
  <1>9. BillsOfRows'
    BY <1>1, <1>3, <1>4, <1>5 DEF PubInv, BillsOfRows, OfRow, TypeOK, Bill, Constants
  <1>10. SavedWasIssued'
    <2> SUFFICES ASSUME NEW u \in Task, job'[u].state = "saved" PROVE Issued(u)'
      BY DEF SavedWasIssued, Issued
    <2>1. CASE u # t
      BY <1>1, <1>5, <2>1 DEF PubInv, SavedWasIssued, Issued
    <2>2. CASE u = t
      <3>1. Issued(t)
        BY <1>1, <1>4, <1>5, <2>2 DEF PubInv, SucceedsIssued, t
      <3> QED
        BY <1>1, <1>4, <1>5, <2>2, <3>1 DEF Issued
    <2> QED
      BY <2>1, <2>2
  <1>11. WorkingIsHot' /\ PendingKeepsPayload'
    BY <1>1, <1>5 DEF PubInv, WorkingIsHot, PendingKeepsPayload, IsReady, Drafts!IsReady
  <1>12. OwnTokens'
    BY <1>6 DEF PubInv, OwnTokens, Idle
  <1>13. Remembers(p)' /\ HoldsLease(p)' /\ PublishesFrozen(p)' /\ SucceedsIssued(p)'
    BY <1>1, <1>6 DEF Remembers, HoldsLease, PublishesFrozen, SucceedsIssued, Idle, PubInv, TypeOK
  <1>14. ASSUME NEW q \in Proc, q # p
         PROVE  Remembers(q)' /\ HoldsLease(q)' /\ PublishesFrozen(q)' /\ SucceedsIssued(q)'
    <2>1. Remembers(q) /\ HoldsLease(q) /\ PublishesFrozen(q) /\ SucceedsIssued(q)
      BY DEF PubInv
    <2>2. proc'[q] = proc[q] /\ (proc[q].pc # "idle" => proc[q].task \in Task)
      BY <1>6, <1>14, <2>1 DEF Remembers
    <2>3. Remembers(q)'
      BY <1>1, <2>1, <2>2 DEF Remembers
    <2>4. HoldsLease(q)'
      <3>1. ASSUME proc[q].token = proc[p].token PROVE FALSE
        BY <1>1, <1>14, <3>1 DEF PubInv, OwnTokens
      <3> QED
        BY <1>1, <1>5, <2>1, <2>2, <3>1 DEF HoldsLease
    <2>5. PublishesFrozen(q)'
      BY <1>4, <1>5, <2>1, <2>2 DEF PublishesFrozen
    <2>6. SucceedsIssued(q)'
      BY <1>1, <1>4, <1>5, <2>1, <2>2 DEF SucceedsIssued, Issued
    <2> QED
      BY <2>3, <2>4, <2>5, <2>6
  <1> QED
    BY <1>7, <1>8, <1>9, <1>10, <1>11, <1>12, <1>13, <1>14 DEF PubInv

-----------------------------------------------------------------------------
(* The results.                                                             *)

\* Every step of a worker, an operator, the maintenance or of time preserves the invariant.
LEMMA InvStep == Constants => (PubInv /\ [Next]_vars => PubInv')
  <1> SUFFICES ASSUME Constants, PubInv, [Next]_vars PROVE PubInv'
    OBVIOUS
  <1>1. CASE UNCHANGED vars
    <2>1. UNCHANGED <<life, chosen, past, hot, job, bill, withdrawn, proc, maint, issued>>
      BY <1>1 DEF vars
    <2>2. CountsLeases'
      BY <2>1, CountsKept DEF PubInv
    <2> QED
      BY <2>1, <2>2 DEF PubInv, TypeOK, Remembers, HoldsLease, PublishesFrozen, SucceedsIssued,
         Issued, OwnTokens, BillsOfRows, OfRow, SavedWasIssued, WorkingIsHot, PendingKeepsPayload,
         IsReady, Drafts!IsReady
  <1>2. CASE \E p \in Proc : Work(p) \/ Crash(p) \/ \E t \in Task : Pick(p, t)
    BY <1>2, PrivateStep, ClaimStep, PauseStep, BindStep, PublishStep, FinishStep DEF Work
  <1>3. CASE Operate
    BY <1>3, SelectionStep, DraftStep, WithdrawStep, MaintenanceStep DEF Operate
  <1>4. CASE Time
    BY <1>4, PrivateStep, DueStep DEF Time
  <1> QED
    BY <1>1, <1>2, <1>3, <1>4 DEF Next

\* A process that may still publish holds the lease of its row, with the digest the row froze, so
\* the bill a step issues is the holder's; no step brings back a selection.
LEMMA ReissueStep == Constants => (PubInv /\ [Next]_vars => ReissuedOnlyByHolder)
  <1> SUFFICES ASSUME Constants, PubInv, [Next]_vars, NEW t \in Task
               PROVE  IssuedByHolder(t) /\ SelectionStaysPast(t)
    BY DEF ReissuedOnlyByHolder
  <1>1. MonthOf[t] \in Month /\ \A u \in Task : MonthOf[u] \in Month
    BY DEF Constants
  <1>2. bill \in [Month -> {NoBill} \cup Bill] /\ chosen \in [Month -> Task \cup {NoTask}] /\ t # NoTask
    BY DEF PubInv, TypeOK, Constants
  <1>3. IssuedByHolder(t)
    <2> SUFFICES ASSUME bill[MonthOf[t]].task # t, bill'[MonthOf[t]].task = t
                 PROVE  \E p \in Proc :
                            /\ proc[p].pc = "publish" /\ proc[p].task = t
                            /\ job[t].state = "running" /\ ~job[t].due
                            /\ job[t].token = proc[p].token /\ job[t].attempts = proc[p].attempt
                            /\ bill'[MonthOf[t]].digest = proc[p].digest
                            /\ job[t].digest = proc[p].digest
      BY DEF IssuedByHolder
    <2>1. ASSUME NEW m \in Month PROVE ~WithdrawBill(m)
      BY <1>1, <1>2, <2>1 DEF WithdrawBill, NoBill
    <2>2. PICK p \in Proc : Publish(p)
      BY <2>1 DEF Next, Work, Operate, Time, vars, Pick, Claim, ClaimPauses, ClaimRefused,
         Audit, Bind, BindRefused, PublishFails, Finish, FinishRefused, Crash, Select, SubmitDraft,
         DraftDone, InvalidateStale, AuditArchive, WithdrawSelection, ReleasePayload, Late, ComesDue
    <2>3. /\ proc[p].pc = "publish" /\ ~proc[p].late
          /\ bill' = [bill EXCEPT ![MonthOf[proc[p].task]] =
                              [task |-> proc[p].task, digest |-> proc[p].digest]]
      BY <2>2 DEF Publish
    <2>4. /\ proc[p].task = t
          /\ bill'[MonthOf[t]].digest = proc[p].digest
      BY <1>1, <1>2, <2>3
    <2> QED
      BY <2>3, <2>4 DEF PubInv, HoldsLease, PublishesFrozen
  <1>4. SelectionStaysPast(t)
    <2> SUFFICES ASSUME t \in past[MonthOf[t]], chosen[MonthOf[t]] # t
                 PROVE  chosen'[MonthOf[t]] # t
      BY DEF SelectionStaysPast, Current
    <2>1. CASE UNCHANGED chosen
      BY <2>1
    <2>2. ASSUME NEW u \in Task, Select(u) PROVE chosen'[MonthOf[t]] # t
      BY <1>1, <1>2, <2>2 DEF Select, NeverSelected
    <2>3. ASSUME NEW m \in Month, WithdrawSelection(m) PROVE chosen'[MonthOf[t]] # t
      BY <1>1, <1>2, <2>3 DEF WithdrawSelection
    <2> QED
      BY <2>1, <2>2, <2>3 DEF Next, Work, Operate, Time, vars, Pick, Claim, ClaimPauses, ClaimRefused,
         Audit, Bind, BindRefused, Publish, PublishFails, Finish, FinishRefused, Crash, SubmitDraft,
         DraftDone, InvalidateStale, AuditArchive, WithdrawBill, ReleasePayload, Late, ComesDue
  <1> QED
    BY <1>3, <1>4

\* Journal rows, bills, selections and the memory of the workers keep their shape (monthlydraft).
THEOREM TypeCorrect == Constants => (Spec => []TypeOK)
  <1> SUFFICES ASSUME Constants PROVE Spec => []TypeOK
    OBVIOUS
  <1> QED
    BY InvFirst, InvStep, InvImplies, PTL DEF Spec

\* Bills, journal rows and leases tell one story (claim, bind, importMonthlyBill, finish).
THEOREM BillsAlwaysAgree == Constants => (Spec => []BillsAgree)
  <1> SUFFICES ASSUME Constants PROVE Spec => []BillsAgree
    OBVIOUS
  <1> QED
    BY InvFirst, InvStep, BillsAgreeFollows, PTL DEF Spec

\* A draft that may still be published keeps its payload (ChangePublishedGenerationPayload).
THEOREM PayloadIsKept == Constants => (Spec => []PendingKeepsPayload)
  <1> SUFFICES ASSUME Constants PROVE Spec => []PendingKeepsPayload
    OBVIOUS
  <1> QED
    BY InvFirst, InvStep, InvImplies, PTL DEF Spec

\* A bill, withdrawn before or not, is issued by the holder of its row's lease alone, and a past
\* selection stays past (withLease, bind, changeGenerationSelectionPrepared).
THEOREM OnlyHolderReissues == Constants => (Spec => [][ReissuedOnlyByHolder]_vars)
  <1> SUFFICES ASSUME Constants PROVE Spec => [][ReissuedOnlyByHolder]_vars
    OBVIOUS
  <1> QED
    BY InvFirst, InvStep, ReissueStep, PTL DEF Spec
=============================================================================
