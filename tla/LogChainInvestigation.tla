------------------------ MODULE LogChainInvestigation ------------------------
(***************************************************************************)
(* The investigation tasks of src/monitor/logchain_investigation.go: an     *)
(* operator creates a task, a goroutine runs it, and a result whose         *)
(* CloudFront logs are not there yet is rechecked in the background.  The   *)
(* maps are guarded by one mutex, which nobody holds while an audit row is  *)
(* written or evidence is fetched; every action below is one section under  *)
(* the mutex, or one audit write, of the handler or goroutine of one task.  *)
(*                                                                         *)
(* Evidence is only its completion status ("complete" stands for partial    *)
(* too), an operator investigates one scope, a task's identity is used      *)
(* once, and the number of rechecks is left out: any recheck may be the     *)
(* last.  A canceled context only makes the goroutines return earlier.      *)
(***************************************************************************)
EXTENDS Naturals

CONSTANTS
    Owner,       \* operators
    Id,          \* bound: the tasks created in one behaviour
    NoTask       \* no entry in investigationByOwner

VARIABLES
    owner,      \* task.Owner
    status,     \* task.Status; "absent" before creation and once the entry is deleted
    claims,     \* task.Result.AuditRecorded (TRUE while there is no result)
    stage,      \* where the handler or goroutine that owns a place in investigationWG is
    draft,      \* its local result: [status, claims]
    canceling,  \* a cancel handler still has its audit row to write
    active,     \* investigationByOwner
    cache,      \* investigationCache: the operator's entry, if any: [claims, missed]
    missed,     \* ghost: an audit row of the task's result could not be written
    closing     \* "open", "down" (shuttingDown, every context canceled) or "released"

vars == <<owner, status, claims, stage, draft, canceling, active, cache, missed,
          closing>>

Results == [status : {"complete", "failed", "pending_delivery"}, claims : BOOLEAN]
Nothing == [status |-> "failed", claims |-> TRUE]

TypeOK ==
    /\ owner \in [Id -> Owner]
    /\ status \in [Id -> {"absent", "queued", "running", "complete", "failed",
                          "pending_delivery", "cancelled"}]
    /\ claims \in [Id -> BOOLEAN]
    /\ stage \in [Id -> {"new", "created", "start", "started", "execute", "finished", "publish",
                         "wait", "rechecked", "republish", "hit", "done"}]
    /\ draft \in [Id -> Results]
    /\ canceling \in [Id -> BOOLEAN]
    /\ active \in [Owner -> Id \cup {NoTask}]
    /\ cache \in [Owner -> SUBSET [claims : BOOLEAN, missed : BOOLEAN]]
    /\ missed \in [Id -> BOOLEAN]
    /\ closing \in {"open", "down", "released"}

Init ==
    /\ owner \in [Id -> Owner]
    /\ status = [i \in Id |-> "absent"]
    /\ claims = [i \in Id |-> TRUE]
    /\ stage = [i \in Id |-> "new"]
    /\ draft = [i \in Id |-> Nothing]
    /\ canceling = [i \in Id |-> FALSE]
    /\ active = [o \in Owner |-> NoTask]
    /\ cache = [o \in Owner |-> {}]
    /\ missed = [i \in Id |-> FALSE]
    /\ closing = "open"

Running(s) == s \in {"queued", "running"}

Goes(i, s) == stage' = [stage EXCEPT ![i] = s]

Forget(i) == draft' = [draft EXCEPT ![i] = Nothing]

Unreserve(i) == active' = [active EXCEPT ![owner[i]] = NoTask]

-----------------------------------------------------------------------------
(* createLogChainInvestigation.                                             *)

\* Refused while the process stops or while the reservation names a running task.
Accepting(i) ==
    /\ closing = "open"
    /\ LET a == active[owner[i]] IN a # NoTask => ~Running(status[a])

\* cleanupInvestigationsLocked: entries whose time is over, or, when there are too many, any that
\* is neither queued nor running, a pending_delivery one included.
Evictable == {i \in Id : status[i] \notin {"absent", "queued", "running"}}

Cleaned(gone) == [j \in Id |-> IF j \in gone THEN "absent" ELSE status[j]]

\* A request that finds the reservation taken has cleaned up before.
Refuse(i) ==
    /\ stage[i] = "new" /\ closing = "open" /\ ~Accepting(i)
    /\ \E gone \in SUBSET Evictable : status' = Cleaned(gone)
    /\ UNCHANGED <<owner, claims, stage, draft, canceling, active, cache, missed, closing>>

CreateTask(i) ==
    /\ stage[i] = "new" /\ Accepting(i)
    /\ cache[owner[i]] = {}
    /\ \E gone \in SUBSET Evictable : status' = [Cleaned(gone) EXCEPT ![i] = "queued"]
    /\ active' = [active EXCEPT ![owner[i]] = i]
    /\ Goes(i, "created")
    /\ UNCHANGED <<owner, claims, draft, canceling, cache, missed, closing>>

\* A cached result answers: its entry is stored only after the audit row.
CreateFromCache(i) ==
    /\ stage[i] = "new" /\ Accepting(i)
    /\ \E entry \in cache[owner[i]] :
          /\ draft' = [draft EXCEPT ![i] = [status |-> "complete", claims |-> entry.claims]]
          /\ missed' = [missed EXCEPT ![i] = entry.missed]
    /\ \E gone \in SUBSET Evictable : status' = Cleaned(gone)
    /\ Unreserve(i)
    /\ Goes(i, "hit")
    /\ UNCHANGED <<owner, claims, canceling, cache, closing>>

ExpireCache(o) ==
    /\ cache[o] # {}
    /\ cache' = [cache EXCEPT ![o] = {}]
    /\ UNCHANGED <<owner, status, claims, stage, draft, canceling, active, missed,
                   closing>>

\* The row of the cache hit, and the entry.
AuditHit(i) ==
    /\ stage[i] = "hit"
    /\ \E ok \in BOOLEAN :
          /\ claims' = [claims EXCEPT ![i] = draft[i].claims /\ ok]
          /\ missed' = [missed EXCEPT ![i] = @ \/ ~ok]
    /\ status' = [status EXCEPT ![i] = draft[i].status]
    /\ Goes(i, "done")
    /\ Forget(i)
    /\ UNCHANGED <<owner, canceling, active, cache, closing>>

\* The row "created": without it the task is taken back, whatever became of it meanwhile.
AuditCreated(i) ==
    /\ stage[i] = "created"
    /\ \/ /\ Goes(i, "start")
          /\ UNCHANGED <<status, active>>
       \/ /\ status' = [status EXCEPT ![i] = "absent"]
          /\ Unreserve(i)
          /\ Goes(i, "done")
    /\ UNCHANGED <<owner, claims, draft, canceling, cache, missed, closing>>

-----------------------------------------------------------------------------
(* runLogChainInvestigationTask.                                            *)

Dropped(i) == status[i] \in {"absent", "cancelled"}

Begin(i) ==
    /\ stage[i] = "start"
    /\ IF Dropped(i)
       THEN Goes(i, "done") /\ UNCHANGED status
       ELSE Goes(i, "started") /\ status' = [status EXCEPT ![i] = "running"]
    /\ UNCHANGED <<owner, claims, draft, canceling, active, cache, missed, closing>>

\* A mutant: the recheck's or the run's row is taken for written.
Audit_Assumed(i, ok) ==
    /\ UNCHANGED draft
    /\ missed' = [missed EXCEPT ![i] = @ \/ ~ok]

\* An audit row of the result is written or not: the local result remembers it.
Audit(i, ok) ==
    /\ draft' = [draft EXCEPT ![i].claims = @ /\ ok]
    /\ missed' = [missed EXCEPT ![i] = @ \/ ~ok]

AuditStarted(i) ==
    /\ stage[i] = "started"
    /\ \E ok \in BOOLEAN : Audit(i, ok)
    /\ Goes(i, "execute")
    /\ UNCHANGED <<owner, status, claims, canceling, active, cache, closing>>

\* The evidence is there: a task canceled meanwhile gives up its operator's reservation.
Execute(i) ==
    /\ stage[i] = "execute"
    /\ IF Dropped(i)
       THEN /\ Goes(i, "done")
            /\ IF status[i] = "cancelled" THEN Unreserve(i) ELSE UNCHANGED active
            /\ Forget(i)
       ELSE /\ Goes(i, "finished")
            /\ \E s \in {"complete", "failed", "pending_delivery"} :
                  draft' = [draft EXCEPT ![i].status = s]
            /\ UNCHANGED active
    /\ UNCHANGED <<owner, status, claims, canceling, cache, missed, closing>>

AuditFinished(i) ==
    /\ stage[i] = "finished"
    /\ \E ok \in BOOLEAN : Audit(i, ok)
    /\ Goes(i, "publish")
    /\ UNCHANGED <<owner, status, claims, canceling, active, cache, closing>>

\* Status and result become visible, and a result worth it is cached.
Visible(i) ==
    /\ status' = [status EXCEPT ![i] = draft[i].status]
    /\ claims' = [claims EXCEPT ![i] = draft[i].claims]
    /\ cache' = [cache EXCEPT ![owner[i]] =
                   IF draft[i].status = "complete"
                   THEN {[claims |-> draft[i].claims, missed |-> missed[i]]} ELSE @]

\* A mutant: only an entry that is gone keeps the result from becoming visible.
Unpublishable_Absent(i) == status[i] = "absent"

Unpublishable(i) == Dropped(i)

Publish(i) ==
    /\ stage[i] = "publish"
    /\ IF Unpublishable(i)
       THEN Goes(i, "done") /\ UNCHANGED <<status, claims, active, cache>>
       ELSE /\ Visible(i)
            /\ Unreserve(i)
            /\ Goes(i, IF draft[i].status = "pending_delivery" THEN "wait" ELSE "done")
    /\ Forget(i)
    /\ UNCHANGED <<owner, canceling, missed, closing>>

-----------------------------------------------------------------------------
(* schedulePendingDeliveryRechecks.                                         *)

\* The wait ends by the timer, by a cancellation or by the shutdown signal.  A recheck starts from
\* the result as it is now.
Recheck(i) ==
    /\ stage[i] = "wait"
    /\ \/ /\ closing # "open" \/ status[i] # "pending_delivery"
          /\ Goes(i, "done")
          /\ UNCHANGED draft
       \/ /\ status[i] = "pending_delivery"
          /\ \E s \in {"complete", "failed", "pending_delivery"} :
                draft' = [draft EXCEPT ![i] = [status |-> s, claims |-> claims[i]]]
          /\ Goes(i, "rechecked")
    /\ UNCHANGED <<owner, status, claims, canceling, active, cache, missed, closing>>

AuditRecheck(i) ==
    /\ stage[i] = "rechecked"
    /\ \E ok \in BOOLEAN : Audit(i, ok)
    /\ Goes(i, "republish")
    /\ UNCHANGED <<owner, status, claims, canceling, active, cache, closing>>

PublishRecheck(i) ==
    /\ stage[i] = "republish"
    /\ IF Dropped(i)
       THEN Goes(i, "done") /\ UNCHANGED <<status, claims, cache>>
       ELSE /\ Visible(i)
            /\ Goes(i, IF draft[i].status = "pending_delivery" THEN "wait" ELSE "done")
    /\ Forget(i)
    /\ UNCHANGED <<owner, canceling, active, missed, closing>>

-----------------------------------------------------------------------------
(* cancelLogChainInvestigation and Monitor.Close.                           *)

Cancel(i) ==
    /\ status[i] \in {"queued", "running", "pending_delivery"}
    /\ status' = [status EXCEPT ![i] = "cancelled"]
    /\ Unreserve(i)
    /\ canceling' = [canceling EXCEPT ![i] = TRUE]
    /\ UNCHANGED <<owner, claims, stage, draft, cache, missed, closing>>

AuditCancel(i) ==
    /\ canceling[i]
    /\ canceling' = [canceling EXCEPT ![i] = FALSE]
    /\ \E ok \in BOOLEAN : claims' = [claims EXCEPT ![i] = @ /\ (ok \/ status[i] = "absent")]
    /\ UNCHANGED <<owner, status, stage, draft, active, cache, missed, closing>>

\* No new task from here on; every context is canceled, the statuses stay as they are.
BeginClose ==
    /\ closing = "open"
    /\ closing' = "down"
    /\ UNCHANGED <<owner, status, claims, stage, draft, canceling, active, cache, missed>>

AllDone == \A i \in Id : stage[i] \in {"new", "done"}

\* investigationWG.Wait returns, and the stores may be closed.
EndClose ==
    /\ closing = "down" /\ AllDone
    /\ closing' = "released"
    /\ UNCHANGED <<owner, status, claims, stage, draft, canceling, active, cache,
                   missed>>

Next ==
    \/ \E i \in Id :
          \/ CreateTask(i) \/ Refuse(i) \/ CreateFromCache(i) \/ AuditHit(i) \/ AuditCreated(i)
          \/ Begin(i) \/ AuditStarted(i) \/ Execute(i) \/ AuditFinished(i) \/ Publish(i)
          \/ Recheck(i) \/ AuditRecheck(i) \/ PublishRecheck(i)
          \/ Cancel(i) \/ AuditCancel(i)
    \/ \E o \in Owner : ExpireCache(o)
    \/ BeginClose \/ EndClose

Spec == Init /\ [][Next]_vars

-----------------------------------------------------------------------------
(* Properties.                                                              *)

\* A result never claims more audit rows than were written: neither what an operator reads of a
\* task that has settled or waits for its next recheck, nor what later tasks get from the cache.
NoAuditOverclaimed ==
    /\ \A i \in Id : /\ status[i] \in {"complete", "failed", "pending_delivery"}
                     /\ stage[i] \in {"wait", "done"}
                     => (claims[i] => ~missed[i])
    /\ \A o \in Owner : \A e \in cache[o] : e.claims => ~e.missed

\* Once Monitor.Close has waited for the investigations, no goroutine or handler of one is left
\* that could still use the stores.
ReleasedIsQuiet == closing = "released" => AllDone

\* A task its operator canceled never shows a result afterwards, whatever the run, a recheck or a
\* late audit row of it still does.
StaysCancelled ==
    \A i \in Id : status[i] = "cancelled" => status'[i] \in {"cancelled", "absent"}
CancelledStays == [][StaysCancelled]_vars

=============================================================================
