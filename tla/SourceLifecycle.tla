--------------------------- MODULE SourceLifecycle ---------------------------
(***************************************************************************)
(* The source lifecycle of src/monitor/source_lifecycle.go: every Monitor   *)
(* process runs one supervisor that probes the source database, takes the   *)
(* advisory lock of that database on a connection of its own, runs an epoch *)
(* of workers, and drains the epoch before it gives the lock back.  The     *)
(* lock belongs to a session of the server: the server frees it when that   *)
(* session ends, whatever the process still believes.                       *)
(*                                                                         *)
(* Waiting times, the failure streak and the state names shown by /ready    *)
(* are left out; a probe or check that succeeds, or fails without changing  *)
(* what comes next, is a stuttering step.                                   *)
(***************************************************************************)
EXTENDS Naturals

CONSTANTS
    Process,      \* the Monitor processes that share one source database
    MaxWorkers,   \* bound: goroutines of one epoch that run at the same time
    Free          \* the lock's holder when nobody holds it

VARIABLES
    lock,      \* the process whose session the server regards as the holder
    link,      \* the lease connection as it really is: "none", "held", "lost" (answers, but
               \* its session lost the lock) or "cut" (its next use fails)
    sup,       \* where the supervisor is
    plan,      \* what it does after the wait: "probe", "acquire" or "block"
    workers,   \* running goroutines of the current epoch
    handler,   \* a request handler is about to add a task to the group of the epoch
    timedOut,  \* sourceDrainTimedOut: the epoch is quarantined with its lease
    closing    \* "open", "stopping", "closed" (databases released) or "kept"

vars == <<lock, link, sup, plan, workers, handler, timedOut, closing>>

TypeOK ==
    /\ lock \in Process \cup {Free}
    /\ link \in [Process -> {"none", "held", "lost", "cut"}]
    /\ sup \in [Process -> {"retry", "epoch", "ending", "drain", "stopped"}]
    /\ plan \in [Process -> {"probe", "acquire", "block"}]
    /\ workers \in [Process -> Nat]
    /\ handler \in [Process -> BOOLEAN]
    /\ timedOut \in [Process -> BOOLEAN]
    /\ closing \in [Process -> {"open", "stopping", "closed", "kept"}]

\* initializeSource: a process starts connected, or degraded and still to be probed.
Init ==
    /\ lock = Free
    /\ link = [p \in Process |-> "none"]
    /\ sup = [p \in Process |-> "retry"]
    /\ plan \in [Process -> {"probe", "acquire"}]
    /\ workers = [p \in Process |-> 0]
    /\ handler = [p \in Process |-> FALSE]
    /\ timedOut = [p \in Process |-> FALSE]
    /\ closing = [p \in Process |-> "open"]

-----------------------------------------------------------------------------
(* The supervisor between two epochs.                                       *)

Probe(p) ==
    /\ sup[p] = "retry" /\ plan[p] = "probe"
    /\ \/ /\ plan' = [plan EXCEPT ![p] = "acquire"]
          /\ UNCHANGED sup
       \/ /\ sup' = [sup EXCEPT ![p] = "stopped"]      \* a permanent error blocks
          /\ UNCHANGED plan
    /\ UNCHANGED <<lock, link, workers, handler, timedOut, closing>>

\* GET_LOCK is granted, and the reply arrives: the epoch starts with its first worker, even
\* if the process was told to stop meanwhile.  A handler that still asks for the previous
\* epoch's group, which is sealed for good, is refused.
Acquire(p) ==
    /\ sup[p] = "retry" /\ plan[p] = "acquire"
    /\ lock = Free
    /\ lock' = p
    /\ link' = [link EXCEPT ![p] = "held"]
    /\ sup' = [sup EXCEPT ![p] = "epoch"]
    /\ workers' = [workers EXCEPT ![p] = 1]
    /\ handler' = [handler EXCEPT ![p] = FALSE]
    /\ UNCHANGED <<plan, timedOut, closing>>

\* GET_LOCK fails: before it was granted, or after, which leaves a session nobody uses.
AcquireFails(p) ==
    /\ sup[p] = "retry" /\ plan[p] = "acquire"
    /\ \/ /\ plan' = [plan EXCEPT ![p] = "probe"]
          /\ UNCHANGED sup
       \/ /\ sup' = [sup EXCEPT ![p] = "stopped"]
          /\ UNCHANGED plan
    /\ lock' \in {lock} \cup (IF lock = Free THEN {p} ELSE {})
    /\ UNCHANGED <<link, workers, handler, timedOut, closing>>

\* The wait ends because the process was told to stop.
Quit(p) ==
    /\ sup[p] = "retry" /\ closing[p] # "open"
    /\ sup' = [sup EXCEPT ![p] = "stopped"]
    /\ UNCHANGED <<lock, link, plan, workers, handler, timedOut, closing>>

-----------------------------------------------------------------------------
(* The epoch.  monitorSourceEpoch returns when the process is told to stop, *)
(* when a check finds the lock lost, or when a check, a probe or a worker's  *)
(* query fails (reportSourceQueryError, also one left over from the last     *)
(* epoch): for a while or for good.                                         *)

Told(p) == closing[p] # "open"

EndEpoch(p) ==
    /\ sup[p] = "epoch"
    /\ \E o \in {"acquire", "probe", "block"} :
          /\ o = "acquire" => Told(p) \/ link[p] = "lost"
          /\ plan' = [plan EXCEPT ![p] = o]
    /\ sup' = [sup EXCEPT ![p] = "ending"]
    /\ UNCHANGED <<lock, link, workers, handler, timedOut, closing>>

\* epochCancel, then the group is sealed.
Seal(p) ==
    /\ sup[p] = "ending"
    /\ sup' = [sup EXCEPT ![p] = "drain"]
    /\ UNCHANGED <<lock, link, plan, workers, handler, timedOut, closing>>

\* A mutant: the epoch's group is not waited for.
Drained_NotAwaited(p) == TRUE

Drained(p) == workers[p] = 0

\* The epoch is not drained in time (or just so): its lease is kept and the supervisor ends.
DrainTimeout(p) ==
    /\ sup[p] = "drain"
    /\ sup' = [sup EXCEPT ![p] = "stopped"]
    /\ timedOut' = [timedOut EXCEPT ![p] = TRUE]
    /\ UNCHANGED <<lock, link, plan, workers, handler, closing>>

\* RELEASE_LOCK works, or fails and takes the connection with it; a lost or cut link has
\* nothing to release.
Unlocked(p) == {lock} \cup (IF lock = p /\ link[p] = "held" THEN {Free} ELSE {})

Release(p) ==
    /\ sup[p] = "drain" /\ Drained(p)
    /\ lock' \in Unlocked(p)
    /\ link' = [link EXCEPT ![p] = "none"]
    /\ sup' = [sup EXCEPT ![p] = IF Told(p) \/ plan[p] = "block" THEN "stopped" ELSE "retry"]
    /\ UNCHANGED <<plan, workers, handler, timedOut, closing>>

-----------------------------------------------------------------------------
(* Goroutines of the epoch.  A worker starts others with goSourceEpoch; a   *)
(* request handler may do the same with an epoch context it read earlier.   *)

Sealed(p) == sup[p] \notin {"epoch", "ending"}

Canceled(p) == sup[p] # "epoch" \/ Told(p)

StartChild(p) ==
    /\ workers[p] \in 1 .. MaxWorkers - 1
    /\ ~Canceled(p)
    /\ workers' = [workers EXCEPT ![p] = @ + 1]
    /\ UNCHANGED <<lock, link, sup, plan, handler, timedOut, closing>>

\* The handler found the context alive; the group may be sealed before it gets there.
Ask(p) ==
    /\ ~handler[p] /\ ~Canceled(p)
    /\ handler' = [handler EXCEPT ![p] = TRUE]
    /\ UNCHANGED <<lock, link, sup, plan, workers, timedOut, closing>>

Admitted(p) == ~Sealed(p)

Join(p) ==
    /\ handler[p]
    /\ Admitted(p) => workers[p] < MaxWorkers
    /\ workers' = [workers EXCEPT ![p] = IF Admitted(p) THEN @ + 1 ELSE @]
    /\ handler' = [handler EXCEPT ![p] = FALSE]
    /\ UNCHANGED <<lock, link, sup, plan, timedOut, closing>>

\* A worker returns: when its context is canceled, or because its task is done.
WorkerReturns(p) ==
    /\ workers[p] > 0
    /\ workers' = [workers EXCEPT ![p] = @ - 1]
    /\ UNCHANGED <<lock, link, sup, plan, handler, timedOut, closing>>

-----------------------------------------------------------------------------
(* The source server and the network.                                       *)

Cut(p) ==
    /\ link[p] = "held"
    /\ link' = [link EXCEPT ![p] = "cut"]
    /\ UNCHANGED <<lock, sup, plan, workers, handler, timedOut, closing>>

\* The connection goes on with another session, as behind a proxy that fails over.
Failover(p) ==
    /\ link[p] = "held"
    /\ link' = [link EXCEPT ![p] = "lost"]
    /\ lock' = Free
    /\ UNCHANGED <<sup, plan, workers, handler, timedOut, closing>>

\* The server notices that the session is gone.
Reap(p) ==
    /\ lock = p /\ link[p] # "held"
    /\ lock' = Free
    /\ UNCHANGED <<link, sup, plan, workers, handler, timedOut, closing>>

-----------------------------------------------------------------------------
(* Monitor.Close, the part that stops the source (stopAndWaitSource), and   *)
(* the end of the process.                                                  *)

BeginClose(p) ==
    /\ closing[p] = "open"
    /\ closing' = [closing EXCEPT ![p] = "stopping"]
    /\ UNCHANGED <<lock, link, sup, plan, workers, handler, timedOut>>

SourceStopped(p) == sup[p] = "stopped" /\ (timedOut[p] => Drained(p))

\* Everything ended in time: the quarantined lease is released and the databases are closed.
EndClose(p) ==
    /\ closing[p] = "stopping" /\ SourceStopped(p)
    /\ closing' = [closing EXCEPT ![p] = "closed"]
    /\ lock' \in Unlocked(p)
    /\ link' = [link EXCEPT ![p] = "none"]
    /\ UNCHANGED <<sup, plan, workers, handler, timedOut>>

\* The time is up: databases and lease are kept until the process ends.
GiveUpClose(p) ==
    /\ closing[p] = "stopping"
    /\ closing' = [closing EXCEPT ![p] = "kept"]
    /\ UNCHANGED <<lock, link, sup, plan, workers, handler, timedOut>>

\* The process ends, in order or by a crash, and another one starts in its place.
Restart(p) ==
    /\ link' = [link EXCEPT ![p] = "none"]
    /\ sup' = [sup EXCEPT ![p] = "retry"]
    /\ \E s \in {"probe", "acquire"} : plan' = [plan EXCEPT ![p] = s]
    /\ workers' = [workers EXCEPT ![p] = 0]
    /\ handler' = [handler EXCEPT ![p] = FALSE]
    /\ timedOut' = [timedOut EXCEPT ![p] = FALSE]
    /\ closing' = [closing EXCEPT ![p] = "open"]
    /\ UNCHANGED lock

Next == \E p \in Process :
    \/ Probe(p) \/ Acquire(p) \/ AcquireFails(p) \/ Quit(p)
    \/ EndEpoch(p) \/ Seal(p) \/ DrainTimeout(p) \/ Release(p)
    \/ StartChild(p) \/ Ask(p) \/ Join(p) \/ WorkerReturns(p)
    \/ Cut(p) \/ Failover(p) \/ Reap(p)
    \/ BeginClose(p) \/ EndClose(p) \/ GiveUpClose(p) \/ Restart(p)

Spec == Init /\ [][Next]_vars

-----------------------------------------------------------------------------
(* Properties.                                                              *)

Broken(p) == link[p] \in {"lost", "cut"}

\* Workers run only under the lock: while a process has a worker of any epoch running (also one
\* that outlives the drain timeout, or that a late request started), its lease connection is in
\* use and the server regards it as the holder, unless that connection was broken under it.  So
\* two processes with intact connections never work on the source at the same time.
Fenced == \A p \in Process : workers[p] > 0 /\ ~Broken(p) => link[p] = "held" /\ lock = p

\* Monitor.Close gives up lease and databases only when the last goroutine of the last epoch is
\* gone: a worker of a quarantined epoch never finds its database closed under it.
ClosedIsDrained == \A p \in Process : closing[p] = "closed" => workers[p] = 0

=============================================================================
