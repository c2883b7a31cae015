--------------------------- MODULE ExportSessions ---------------------------
(***************************************************************************)
(* The session directories of the bill export manager, of                   *)
(* src/internal/usagebill/exportjobs/recovery.go.  A process that starts    *)
(* takes the guard of the base directory, removes the sessions whose owner  *)
(* is gone, and makes one of its own: directory, locked lease file, marker. *)
(* The owner removes its session without the guard.  A file lock goes with  *)
(* its process; a removal goes file by file.                                *)
(*                                                                         *)
(* Names are random and never come twice.  Foreign files, links and modes   *)
(* of files, which are refused, are left out.                               *)
(***************************************************************************)
EXTENDS Naturals, FiniteSets

CONSTANTS
    Proc,         \* processes with this base directory
    Session,      \* bound: sessions made
    Nobody,       \* no holder, no session
    MaxEntries    \* maxRecoveryEntries

Parts == {"dir", "lease", "marker"}

VARIABLES
    guard,    \* holder of the base guard's lock
    parts,    \* what of a session exists
    flock,    \* holder of the lock of the session's lease file, linked or not
    used,     \* ghost: the names that were given away
    step,     \* what a process does
    own,      \* its session
    todo,     \* the entries a recovery has read and not looked at
    at        \* the one it looks at

vars == <<guard, parts, flock, used, step, own, todo, at>>

TypeOK ==
    /\ guard \in Proc \cup {Nobody}
    /\ parts \in [Session -> SUBSET Parts]
    /\ flock \in [Session -> Proc \cup {Nobody}]
    /\ used \subseteq Session
    /\ step \in [Proc -> {"idle", "scan", "open", "lock", "recheck", "remove", "lease", "marker",
                          "live", "closing", "kept"}]
    /\ own \in [Proc -> Session \cup {Nobody}]
    /\ todo \in [Proc -> SUBSET Session]
    /\ at \in [Proc -> Session \cup {Nobody}]

Init ==
    /\ guard = Nobody
    /\ parts = [s \in Session |-> {}]
    /\ flock = [s \in Session |-> Nobody]
    /\ used = {}
    /\ step = [p \in Proc |-> "idle"]
    /\ own = [p \in Proc |-> Nobody]
    /\ todo = [p \in Proc |-> {}]
    /\ at = [p \in Proc |-> Nobody]

Goes(p, s) == step' = [step EXCEPT ![p] = s]

-----------------------------------------------------------------------------
(* Recover, and recoverLocked in newSession.                                *)

\* A guard that is held refuses the start, and so does a base with too many entries.
TakeGuard(p) ==
    /\ step[p] = "idle" /\ guard = Nobody
    /\ LET there == {s \in Session : parts[s] # {}}
       IN /\ Cardinality(there) <= MaxEntries
          /\ todo' = [todo EXCEPT ![p] = there]
    /\ guard' = p
    /\ Goes(p, "scan")
    /\ UNCHANGED <<parts, flock, used, own, at>>

Skip(p) ==
    /\ at' = [at EXCEPT ![p] = Nobody]
    /\ Goes(p, "scan")

Known(s) == {"dir", "marker"} \subseteq parts[s]

\* Without the marker an entry stays as it is.
Look(p) ==
    /\ step[p] = "scan"
    /\ \E s \in todo[p] :
          /\ todo' = [todo EXCEPT ![p] = @ \ {s}]
          /\ IF Known(s)
             THEN at' = [at EXCEPT ![p] = s] /\ Goes(p, "open")
             ELSE UNCHANGED <<at, step>>
    /\ UNCHANGED <<guard, parts, flock, used, own>>

OpenLease(p) ==
    /\ step[p] = "open"
    /\ IF "lease" \in parts[at[p]] THEN Goes(p, "lock") /\ UNCHANGED at ELSE Skip(p)
    /\ UNCHANGED <<guard, parts, flock, used, own, todo>>

\* A mutant: whoever runs the recovery takes the session as its own.
Abandoned_Always(s) == TRUE

Abandoned(s) == flock[s] = Nobody

\* The lock is taken without waiting: one that is held belongs to a living owner.  The file may have
\* lost its name meanwhile.
LockLease(p) ==
    /\ step[p] = "lock"
    /\ IF Abandoned(at[p])
       THEN flock' = [flock EXCEPT ![at[p]] = p] /\ Goes(p, "recheck") /\ UNCHANGED at
       ELSE Skip(p) /\ UNCHANGED flock
    /\ UNCHANGED <<guard, parts, used, own, todo>>

Recheck(p) ==
    /\ step[p] = "recheck"
    /\ IF parts[at[p]] = Parts
       THEN Goes(p, "remove") /\ UNCHANGED <<flock, at>>
       ELSE flock' = [flock EXCEPT ![at[p]] = Nobody] /\ Skip(p)
    /\ UNCHANGED <<guard, parts, used, own, todo>>

\* os.RemoveAll: the files in any order, then the directory.
RemovePart(s) ==
    \E x \in parts[s] :
        /\ x = "dir" => parts[s] = {"dir"}
        /\ parts' = [parts EXCEPT ![s] = @ \ {x}]

Remove(p) ==
    /\ step[p] = "remove"
    /\ IF parts[at[p]] # {}
       THEN RemovePart(at[p]) /\ UNCHANGED <<flock, at, step>>
       ELSE flock' = [flock EXCEPT ![at[p]] = Nobody] /\ Skip(p) /\ UNCHANGED parts
    /\ UNCHANGED <<guard, used, own, todo>>

\* A removal that fails ends the recovery, and with it the start; so does Recover when it is done.
EndRecovery(p) ==
    /\ \/ step[p] = "remove"
       \/ step[p] = "scan" /\ todo[p] = {}
    /\ flock' = [s \in Session |-> IF at[p] = s THEN Nobody ELSE flock[s]]
    /\ at' = [at EXCEPT ![p] = Nobody]
    /\ todo' = [todo EXCEPT ![p] = {}]
    /\ guard' = Nobody
    /\ Goes(p, "idle")
    /\ UNCHANGED <<parts, used, own>>

-----------------------------------------------------------------------------
(* newSession after the recovery.                                           *)

MakeDir(p) ==
    /\ step[p] = "scan" /\ todo[p] = {}
    /\ \E s \in Session \ used :
          /\ parts' = [parts EXCEPT ![s] = {"dir"}]
          /\ own' = [own EXCEPT ![p] = s]
          /\ used' = used \cup {s}
    /\ Goes(p, "lease")
    /\ UNCHANGED <<guard, flock, todo, at>>

MakeLease(p) ==
    /\ step[p] = "lease"
    /\ parts' = [parts EXCEPT ![own[p]] = @ \cup {"lease"}]
    /\ flock' = [flock EXCEPT ![own[p]] = p]
    /\ Goes(p, "marker")
    /\ UNCHANGED <<guard, used, own, todo, at>>

MakeMarker(p) ==
    /\ step[p] = "marker"
    /\ parts' = [parts EXCEPT ![own[p]] = @ \cup {"marker"}]
    /\ guard' = Nobody
    /\ Goes(p, "live")
    /\ UNCHANGED <<flock, used, own, todo, at>>

\* What exists is removed again, as far as that works.
MakeFails(p) ==
    /\ step[p] \in {"lease", "marker"}
    /\ parts' \in {parts, [parts EXCEPT ![own[p]] = {}]}
    /\ flock' = [s \in Session |-> IF s = own[p] THEN Nobody ELSE flock[s]]
    /\ own' = [own EXCEPT ![p] = Nobody]
    /\ guard' = Nobody
    /\ Goes(p, "idle")
    /\ UNCHANGED <<used, todo, at>>

-----------------------------------------------------------------------------
(* removeRootLocked by the owner, and the end of a process.                 *)

\* Marker and lease are still the session's own; or the directory is gone.
BeginRemoval(p) ==
    /\ step[p] \in {"live", "kept"}
    /\ parts[own[p]] \in {Parts, {}}
    /\ Goes(p, "closing")
    /\ UNCHANGED <<guard, parts, flock, used, own, todo, at>>

RemoveOwn(p) ==
    /\ step[p] = "closing"
    /\ \/ RemovePart(own[p]) /\ UNCHANGED <<flock, own, step>>
       \/ /\ parts[own[p]] = {}
          /\ flock' = [flock EXCEPT ![own[p]] = Nobody]
          /\ own' = [own EXCEPT ![p] = Nobody]
          /\ Goes(p, "idle")
          /\ UNCHANGED parts
       \/ Goes(p, "kept") /\ UNCHANGED <<parts, flock, own>>
    /\ UNCHANGED <<guard, used, todo, at>>

Crash(p) ==
    /\ step[p] # "idle"
    /\ guard' = IF guard = p THEN Nobody ELSE guard
    /\ flock' = [s \in Session |-> IF flock[s] = p THEN Nobody ELSE flock[s]]
    /\ own' = [own EXCEPT ![p] = Nobody]
    /\ at' = [at EXCEPT ![p] = Nobody]
    /\ todo' = [todo EXCEPT ![p] = {}]
    /\ Goes(p, "idle")
    /\ UNCHANGED <<parts, used>>

Next == \E p \in Proc :
    \/ TakeGuard(p) \/ Look(p) \/ OpenLease(p) \/ LockLease(p) \/ Recheck(p) \/ Remove(p)
    \/ EndRecovery(p) \/ MakeDir(p) \/ MakeLease(p) \/ MakeMarker(p) \/ MakeFails(p)
    \/ BeginRemoval(p) \/ RemoveOwn(p) \/ Crash(p)

Spec == Init /\ [][Next]_vars

-----------------------------------------------------------------------------
(* Properties.                                                              *)

\* The session of a living manager is whole and locked by it, whatever recoveries run, fail or die
\* beside it; and nobody else ever removes a file of a session its owner still holds.
LiveSessionKept ==
    \A p \in Proc :
        /\ step[p] = "live" => parts[own[p]] = Parts /\ flock[own[p]] = p
        /\ step[p] = "remove" => \A q \in Proc : own[q] # at[p]
=============================================================================
