---------------------------- MODULE StoreRestore ----------------------------
(***************************************************************************)
(* The restore of a backup set into an empty directory (RestoreStoreBackupSet *)
(* of src/monitor/store_reliability.go) and the gate through which a        *)
(* Monitor starts on such a directory (preflightStoreRestoreActivation):    *)
(* the markers IN_PROGRESS, READY and ACTIVATED and the two databases, of   *)
(* which each is put in place by a link of its own.                         *)
(*                                                                         *)
(* A name in the directory survives a power failure once the directory was   *)
(* synced after the change; before that it may survive or not, in any        *)
(* combination, but a rename is not torn.  The set restored from is valid,   *)
(* and a restore works on files that it has created.  A start without any   *)
(* marker is one step: nobody starts a Monitor and a restore on the same    *)
(* empty directory at the same time.                                        *)
(***************************************************************************)
EXTENDS Naturals, FiniteSets

CONSTANTS
    Restore,    \* restore commands
    Nobody      \* nobody created the file

Database == {"main", "facts"}
Name == {"busy", "ready", "active"} \cup Database

VARIABLES
    dir,      \* who created the file of each name: a command, "monitor", or Nobody
    disk,     \* the same as of the last sync
    rstage,   \* what a restore command does
    run,      \* the Monitor: "off", "verified" (READY was checked), "activated" or "running"
    early     \* ghost: READY was checked before the command that wrote it had synced it

vars == <<dir, disk, rstage, run, early>>

Files == [Name -> Restore \cup {"monitor", Nobody}]

TypeOK ==
    /\ dir \in Files /\ disk \in Files
    /\ rstage \in [Restore -> {"idle", "empty", "fenced", "alone", "staged", "main", "facts", "marked",
                               "committed", "failing", "done"}]
    /\ run \in {"off", "verified", "activated", "running"}
    /\ early \in BOOLEAN

Init ==
    /\ dir = [n \in Name |-> Nobody] /\ disk = dir
    /\ rstage = [r \in Restore |-> "idle"]
    /\ run = "off" /\ early = FALSE

There == {n \in Name : dir[n] # Nobody}
Goes(r, s) == rstage' = [rstage EXCEPT ![r] = s]
Create(n, who) == n \notin There /\ dir' = [dir EXCEPT ![n] = who]
Remove(names) == dir' = [n \in Name |-> IF n \in names THEN Nobody ELSE dir[n]]
Sync == disk' = dir

-----------------------------------------------------------------------------
(* RestoreStoreBackupSet.                                                   *)

SeeEmpty(r) ==
    /\ rstage[r] = "idle" /\ There = {}
    /\ Goes(r, "empty")
    /\ UNCHANGED <<dir, disk, run, early>>

\* O_EXCL: of two commands only one goes on.
Fence(r) ==
    /\ rstage[r] = "empty"
    /\ \/ Create("busy", r) /\ Goes(r, "fenced")
       \/ "busy" \in There /\ Goes(r, "done") /\ UNCHANGED dir
    /\ UNCHANGED <<disk, run, early>>

\* The marker is durable, and the directory is looked at once more.
SeeAlone(r) ==
    /\ rstage[r] = "fenced"
    /\ Sync
    /\ Goes(r, IF There = {"busy"} THEN "alone" ELSE "failing")
    /\ UNCHANGED <<dir, run, early>>

\* Both databases are copied under hidden names and verified.
Stage(r) ==
    /\ rstage[r] = "alone"
    /\ Sync
    /\ Goes(r, "staged")
    /\ UNCHANGED <<dir, run, early>>

LinkMain(r) ==
    /\ rstage[r] = "staged"
    /\ \/ Create("main", r) /\ Goes(r, "main")
       \/ "main" \in There /\ Goes(r, "failing") /\ UNCHANGED dir
    /\ UNCHANGED <<disk, run, early>>

LinkFacts(r) ==
    /\ rstage[r] = "main"
    /\ \/ Create("facts", r) /\ Goes(r, "facts")
       \/ "facts" \in There /\ Goes(r, "failing") /\ UNCHANGED dir
    /\ UNCHANGED <<disk, run, early>>

\* The pair is verified together, and READY is written.
Mark(r) ==
    /\ rstage[r] = "facts"
    /\ \/ Create("ready", r) /\ Goes(r, "marked")
       \/ "ready" \in There /\ Goes(r, "failing") /\ UNCHANGED dir
    /\ UNCHANGED <<disk, run, early>>

\* The sync that makes the pair and READY durable: from here on nothing is taken back.
Commit(r) ==
    /\ rstage[r] = "marked"
    /\ Sync
    /\ Goes(r, "committed")
    /\ UNCHANGED <<dir, run, early>>

\* IN_PROGRESS goes; a failure, or a start that took it away first, changes nothing any more.
EndRestore(r) ==
    /\ rstage[r] = "committed"
    /\ Remove({"busy"})
    /\ disk' \in {disk, dir'}
    /\ Goes(r, "done")
    /\ UNCHANGED <<run, early>>

Failing(r) ==
    /\ rstage[r] \in {"fenced", "alone", "staged", "main", "facts", "marked"}
    /\ Goes(r, "failing")
    /\ UNCHANGED <<dir, disk, run, early>>

\* What the command has created goes, one file after the other: databases first, then READY.  The
\* fence stays.
CleanUp(r) ==
    /\ rstage[r] = "failing"
    /\ LET own == {n \in Database \cup {"ready"} : dir[n] = r}
           first == IF own \cap Database # {} THEN own \cap Database ELSE own
       IN IF own = {}
          THEN Goes(r, "done") /\ Sync /\ UNCHANGED dir
          ELSE (\E n \in first : Remove({n})) /\ UNCHANGED <<disk, rstage>>
    /\ UNCHANGED <<run, early>>

-----------------------------------------------------------------------------
(* preflightStoreRestoreActivation, and what the start does after it.       *)

Whole == Database \subseteq There /\ \A d \in Database : dir[d] = dir["main"]

\* ACTIVATED is the record of a start that went through: both files must be there.
StartActivated ==
    /\ run = "off" /\ "active" \in There
    /\ IF Database \subseteq There
       THEN Remove({"ready", "busy"}) /\ disk' = dir' /\ run' = "running"
       ELSE UNCHANGED <<dir, disk, run, early>>
    /\ UNCHANGED <<rstage, early>>

\* IN_PROGRESS without READY refuses the start.
Admissible == "ready" \in There

VerifyReady ==
    /\ run = "off" /\ "active" \notin There
    /\ Admissible
    /\ Database \subseteq There /\ \A d \in Database : dir[d] \in Restore
    /\ run' = "verified"
    /\ early' = (early \/ \E r \in Restore : rstage[r] \in {"marked", "failing"})
    /\ UNCHANGED <<dir, disk, rstage>>

\* The rename, unless READY is gone by now.
Activate ==
    /\ run = "verified"
    /\ IF "ready" \in There
       THEN /\ dir' = [dir EXCEPT !["active"] = dir["ready"], !["ready"] = Nobody]
            /\ run' = "activated"
       ELSE run' = "off" /\ UNCHANGED dir
    /\ UNCHANGED <<disk, rstage, early>>

\* IN_PROGRESS goes, everything is synced; if the file is gone meanwhile the start ends here.
ConsumeBusy ==
    /\ run = "activated"
    /\ Remove({"busy"})
    /\ \/ disk' = dir' /\ run' = "running"
       \/ "busy" \notin There /\ run' = "off" /\ UNCHANGED disk
    /\ UNCHANGED <<rstage, early>>

\* A mutant: an IN_PROGRESS without READY is taken for nothing.
Unmarked_IgnoresBusy == There \cap {"ready", "active"} = {}

Unmarked == There \cap {"busy", "ready", "active"} = {}

\* No marker: an ordinary start, which creates what is not there.
StartOrdinary ==
    /\ run = "off" /\ Unmarked
    /\ dir' = [n \in Name |-> IF n \in Database /\ dir[n] = Nobody THEN "monitor" ELSE dir[n]]
    /\ disk' = dir'
    /\ run' = "running"
    /\ UNCHANGED <<rstage, early>>

Exit ==
    /\ run # "off"
    /\ run' = "off"
    /\ UNCHANGED <<dir, disk, rstage, early>>

\* A command is killed.
Kill(r) ==
    /\ rstage[r] \notin {"idle", "done"}
    /\ Goes(r, "done")
    /\ UNCHANGED <<dir, disk, run, early>>

\* The power fails.
PowerFailure ==
    /\ \E kept \in SUBSET {n \in Name : dir[n] # disk[n]} :
          /\ dir["active"] # disk["active"] => ("active" \in kept <=> "ready" \in kept)
          /\ dir' = [n \in Name |-> IF n \in kept THEN dir[n] ELSE disk[n]]
    /\ disk' = dir'
    /\ run' = "off"
    /\ rstage' = [r \in Restore |-> IF rstage[r] = "idle" THEN "idle" ELSE "done"]
    /\ UNCHANGED early

Next ==
    \/ \E r \in Restore :
          \/ SeeEmpty(r) \/ Fence(r) \/ SeeAlone(r) \/ Stage(r) \/ LinkMain(r) \/ LinkFacts(r)
          \/ Mark(r) \/ Commit(r) \/ EndRestore(r) \/ Failing(r) \/ CleanUp(r) \/ Kill(r)
    \/ StartActivated \/ VerifyReady \/ Activate \/ ConsumeBusy \/ StartOrdinary \/ Exit
    \/ PowerFailure

Spec == Init /\ [][Next]_vars

-----------------------------------------------------------------------------
(* Properties.                                                              *)

Restored == {d \in Database : dir[d] \in Restore}

\* As long as a directory holds anything restored it carries a marker, so that no start takes it
\* for an ordinary one.
RestoredIsMarked == Restored # {} => There \cap {"busy", "ready", "active"} # {}

\* A Monitor never runs on half of a restored pair, with the other half missing or created empty:
\* its databases are both from one restore or both its own, whatever was killed or lost before,
\* unless it was started while the command could still fail and take its files back.
RunsOnPair ==
    /\ RestoredIsMarked
    /\ run = "running" /\ ~early => Restored \in {{}, Database} /\ Whole
=============================================================================
