--------------------------- MODULE StoreMigration ---------------------------
(***************************************************************************)
(* The start of a Monitor on its two SQLite stores (openStore), with the    *)
(* gate of src/monitor/store_migration_backup.go: before anything is        *)
(* migrated, main and facts are locked, copied together into a snapshot,    *)
(* the snapshot is published, pinned by a reference that names the          *)
(* migration plan, and old snapshots are pruned.  Every step may be the     *)
(* last one of its process.                                                 *)
(*                                                                         *)
(* A plan is a number: plans are only ever raised, by a new image or by     *)
(* switching source v2 on (preMigrationPlanForStore).  A store is the plan  *)
(* whose migration touched it last.  Files do not vanish and copies verify, *)
(* except that a snapshot whose removal was interrupted no longer does.     *)
(***************************************************************************)
EXTENDS Naturals, FiniteSets

CONSTANTS
    MaxPlan,        \* bound: plans of the images that are started
    MaxSnapshots,   \* bound: snapshots made
    MaxWrites,      \* bound: writes of another process to a store
    Retention       \* storeMigrationBackupRetention

Store == {"main", "facts"}
NoRef == [plan |-> 0, id |-> 0]

VARIABLES
    stage,     \* how far the start has come; "off" when no process runs
    plan,      \* the plan of the latest start
    present,   \* the store's file exists
    mark,      \* the plan whose migration touched the store last; 0 for the first image's tables
    data,      \* writes of another process, which may still be alive
    copy,      \* the unpublished snapshot
    snaps,     \* published snapshots: [id, plan, mark, cut, whole]
    made,      \* how many were published
    ref,       \* the reference file: [plan, id]
    had,       \* hadCategoryToggles: the columns were there before the migration
    column,    \* they are there
    filled,    \* the configuration row has its defaults in them
    born       \* ghost: the plan that created the main store; 0 if it is older

vars == <<stage, plan, present, mark, data, copy, snaps, made, ref, had, column, filled,
          born>>
stores == <<present, mark, born>>
backup == <<copy, snaps, made, ref>>
alerts == <<had, column, filled>>

Stages == {"off", "plan", "main", "both", "half", "copied", "published", "pinned", "open",
           "probed", "tables", "columns", "filled", "running"}

Snapshot == [id : Nat, plan : Nat, mark : [Store -> Nat], cut : BOOLEAN, whole : BOOLEAN]

TypeOK ==
    /\ stage \in Stages
    /\ plan \in Nat
    /\ present \in [Store -> BOOLEAN]
    /\ mark \in [Store -> Nat]
    /\ data \in [Store -> Nat]
    /\ copy \in [mark : [Store -> Nat], data : [Store -> Nat]]
    /\ snaps \subseteq Snapshot
    /\ made \in Nat
    /\ ref \in [plan : Nat, id : Nat]
    /\ born \in Nat
    /\ <<had, column, filled>> \in BOOLEAN \X BOOLEAN \X BOOLEAN

Zero == [s \in Store |-> 0]

\* The stores of an older image, only its main store, or a first installation.
Init ==
    /\ stage = "off" /\ plan = 0
    /\ \E old \in SUBSET Store :
          /\ "facts" \in old => "main" \in old
          /\ present = [s \in Store |-> s \in old]
    /\ mark = Zero /\ data = Zero
    /\ copy = [mark |-> Zero, data |-> Zero]
    /\ snaps = {} /\ made = 0 /\ ref = NoRef
    /\ had = FALSE /\ column = FALSE
    /\ filled = ~present["main"]
    /\ born = 0

-----------------------------------------------------------------------------
(* createPreMigrationSnapshot.                                              *)

Start(p) ==
    /\ stage = "off" /\ p >= plan
    /\ plan' = p
    /\ stage' = "plan"
    /\ UNCHANGED <<stores, data, backup, alerts>>

Pinned == {x \in snaps : x.id = ref.id}

\* The reference in the backup directory is that of the plan.
Reusable == ref.plan = plan

\* reusePreMigrationPlanSnapshot: the pinned snapshot is verified and serves again, or the start
\* is refused.
Reuse ==
    /\ stage = "plan" /\ Reusable
    /\ stage' = IF \E x \in Pinned : x.whole /\ x.plan = plan THEN "open" ELSE "off"
    /\ UNCHANGED <<plan, stores, data, backup, alerts>>

LockMain ==
    /\ stage = "plan" /\ ~Reusable
    /\ stage' = "main"
    /\ UNCHANGED <<plan, stores, data, backup, alerts>>

\* With nothing there nothing is copied.
LockFacts ==
    /\ stage = "main"
    /\ stage' = IF \E s \in Store : present[s] THEN "both" ELSE "open"
    /\ UNCHANGED <<plan, stores, data, backup, alerts>>

Copied(s) ==
    copy' = [mark |-> [copy.mark EXCEPT ![s] = mark[s]], data |-> [copy.data EXCEPT ![s] = data[s]]]

CopyMain ==
    /\ stage = "both"
    /\ Copied("main")
    /\ stage' = "half"
    /\ UNCHANGED <<plan, stores, data, snaps, made, ref, alerts>>

CopyFacts ==
    /\ stage = "half"
    /\ Copied("facts")
    /\ stage' = "copied"
    /\ UNCHANGED <<plan, stores, data, snaps, made, ref, alerts>>

\* READY is in the temporary directory, which gets its final name.
Publish ==
    /\ stage = "copied" /\ made < MaxSnapshots
    /\ snaps' = snaps \cup {[id |-> made + 1, plan |-> plan, mark |-> copy.mark,
                             cut |-> copy.data = data, whole |-> TRUE]}
    /\ made' = made + 1
    /\ stage' = "published"
    /\ UNCHANGED <<plan, stores, data, copy, ref, alerts>>

Pin ==
    /\ stage = "published"
    /\ ref' = [plan |-> plan, id |-> made]
    /\ stage' = "pinned"
    /\ UNCHANGED <<plan, stores, data, copy, snaps, made, alerts>>

\* Snapshots beyond the retention, the oldest first, except what a reference names.
Surplus ==
    {x \in snaps \ Pinned :
        /\ Cardinality(snaps) > Retention
        /\ \A y \in snaps \ Pinned : x.id <= y.id}

\* A removal that is interrupted may leave READY behind without its files.
Prune ==
    /\ stage = "pinned"
    /\ \E x \in Surplus :
          \/ snaps' = snaps \ {x} /\ UNCHANGED stage
          \/ snaps' = (snaps \ {x}) \cup {[x EXCEPT !.whole = FALSE]} /\ stage' = "off"
    /\ UNCHANGED <<plan, stores, data, copy, made, ref, alerts>>

EndGate ==
    /\ stage = "pinned" /\ Surplus = {}
    /\ stage' = "open"
    /\ UNCHANGED <<plan, stores, data, backup, alerts>>

-----------------------------------------------------------------------------
(* openStore after the gate, as far as the configuration of alerts needs it *)
(* in detail.                                                               *)

\* Do the columns exist?  If not, this start will create them.
Probe ==
    /\ stage = "open"
    /\ had' = column
    /\ stage' = "probed"
    /\ UNCHANGED <<plan, stores, data, backup, column, filled>>

Touch(s) ==
    /\ present' = [present EXCEPT ![s] = TRUE]
    /\ mark' = [mark EXCEPT ![s] = plan]
    /\ born' = IF present["main"] THEN born ELSE plan

\* AutoMigrate goes table by table, each change committed on its own.
MigrateTables ==
    /\ stage = "probed"
    /\ Touch("main")
    /\ stage' = "tables"
    /\ UNCHANGED <<plan, data, backup, alerts>>

AddColumns ==
    /\ stage = "tables"
    /\ column' = TRUE
    /\ stage' = "columns"
    /\ UNCHANGED <<plan, stores, data, backup, had, filled>>

\* The defaults of the columns, if this start created them.
FillColumns ==
    /\ stage = "columns"
    /\ filled' = (filled \/ ~had)
    /\ stage' = "filled"
    /\ UNCHANGED <<plan, stores, data, backup, had, column>>

\* openUsageFactsStore; without reads from facts a failure only switches them off.
MigrateFacts ==
    /\ stage = "filled"
    /\ Touch("facts") \/ UNCHANGED stores
    /\ stage' = "running"
    /\ UNCHANGED <<plan, data, backup, alerts>>

\* An error ends the start, a crash or an order the process.
Stop ==
    /\ stage # "off"
    /\ stage' = "off"
    /\ UNCHANGED <<plan, stores, data, backup, alerts>>

-----------------------------------------------------------------------------

\* A mutant: only the main store is held.
Locked_MainOnly(s) ==
    s = "main" /\ stage \in {"main", "both", "half", "copied", "published", "pinned"}

Locked(s) ==
    \/ stage \in {"both", "half", "copied", "published", "pinned"}
    \/ stage = "main" /\ s = "main"

\* Another process that still has the stores open.
Write(s) ==
    /\ present[s] /\ ~Locked(s)
    /\ data[s] < MaxWrites
    /\ data' = [data EXCEPT ![s] = @ + 1]
    /\ UNCHANGED <<stage, plan, stores, backup, alerts>>

Next ==
    \/ \E p \in 1 .. MaxPlan : Start(p)
    \/ Reuse \/ LockMain \/ LockFacts \/ CopyMain \/ CopyFacts \/ Publish \/ Pin \/ Prune \/ EndGate
    \/ Probe \/ MigrateTables \/ AddColumns \/ FillColumns \/ MigrateFacts \/ Stop
    \/ \E s \in Store : Write(s)

Spec == Init /\ [][Next]_vars

-----------------------------------------------------------------------------
(* Properties.                                                              *)

\* Once the plan of the latest start has touched a store that an older plan had made, the reference
\* pins a whole snapshot of both stores, taken at one instant, from before that plan: the way back
\* of the old image, wherever a start may have ended, and however often it was repeated.
RollbackPoint ==
    \A s \in Store : mark[s] = plan /\ plan > born =>
        /\ ref.plan = plan
        /\ \E x \in Pinned : x.whole /\ x.cut /\ \A t \in Store : x.mark[t] < plan

\* What src/monitor/store.go:987 promises: an upgrade keeps the alerts of an old configuration
\* switched on, since the row gets its defaults when the columns are created.
UpgradeKeepsAlerts == stage = "running" => filled
=============================================================================
