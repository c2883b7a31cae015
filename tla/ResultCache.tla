----------------------------- MODULE ResultCache -----------------------------
(***************************************************************************)
(* One key of the usage result cache of src/monitor/cache.go, as production *)
(* builds it (newUsageResultCache injects no remote store).  Requests that  *)
(* want the same key share one flight, ordinary requests and forced         *)
(* refreshes in flights of their own; the leader of a flight fills the      *)
(* entry under the key's gate; Delete removes the entry, waits for the gate *)
(* and removes it again.                                                    *)
(*                                                                         *)
(* A value is the version of the source it was computed from; 0 is no       *)
(* entry.  An ordinary request that finds a fresh entry, and an answer from *)
(* a stale one after an error, change nothing.                              *)
(***************************************************************************)
EXTENDS Naturals

CONSTANTS
    Reader,      \* bound: requests in progress at the same time
    Deleter,     \* bound: deletions in progress at the same time
    MaxVersion,  \* bound on the changes of the source
    Nobody       \* a gate or flight that nobody holds

Kinds == {"ordinary", "refresh"}

VARIABLES
    source,      \* the version of the data a fill would read
    entry,       \* boundedByteCache: the version stored under the key
    fresh,       \* it has not reached freshUntil
    gate,        \* holder of the key's fillGate
    flight,      \* leader of the running flight of each kind
    pc, kind,    \* what a request does, and for which kind of flight
    value,       \* what the leader has read
    dpc, from,   \* what a deletion does, and the version when it began
    floor        \* ghost: no older version may be stored any more

vars == <<source, entry, fresh, gate, flight, pc, kind, value, dpc, from, floor>>
deleting == <<dpc, from>>

Versions == 0 .. MaxVersion

TypeOK ==
    /\ source \in Versions /\ entry \in Versions /\ floor \in Versions
    /\ fresh \in BOOLEAN
    /\ gate \in Reader \cup Deleter \cup {Nobody}
    /\ flight \in [Kinds -> Reader \cup {Nobody}]
    /\ pc \in [Reader -> {"idle", "queue", "fill", "store", "leave", "end", "wait"}]
    /\ kind \in [Reader -> Kinds]
    /\ value \in [Reader -> Versions]
    /\ dpc \in [Deleter -> {"idle", "queue", "delete"}]
    /\ from \in [Deleter -> Versions]

Init ==
    /\ source = 1 /\ entry = 0 /\ floor = 0
    /\ fresh = FALSE
    /\ gate = Nobody
    /\ flight = [k \in Kinds |-> Nobody]
    /\ pc = [r \in Reader |-> "idle"]
    /\ kind = [r \in Reader |-> "ordinary"]
    /\ value = [r \in Reader |-> 0]
    /\ dpc = [d \in Deleter |-> "idle"]
    /\ from = [d \in Deleter |-> 0]

Goes(r, s) == pc' = [pc EXCEPT ![r] = s]
Stored == entry # 0 /\ fresh
AtLeast(v) == floor' = IF v > floor THEN v ELSE floor

-----------------------------------------------------------------------------
(* loadOrFill under cacheFlightGroup.Do.                                    *)

\* The first to come leads the flight, the others wait for it.  An ordinary request has looked for
\* a fresh entry before, which may have been stored since.
Ask(r) ==
    /\ pc[r] = "idle"
    /\ \E k \in Kinds :
          /\ kind' = [kind EXCEPT ![r] = k]
          /\ IF flight[k] = Nobody
             THEN flight' = [flight EXCEPT ![k] = r] /\ Goes(r, "queue")
             ELSE UNCHANGED flight /\ Goes(r, "wait")
    /\ UNCHANGED <<source, entry, fresh, gate, value, deleting, floor>>

\* A mutant: the fill gate admits everybody.
GateOpen_Always == TRUE

GateOpen == gate = Nobody

\* The leader has the gate; an ordinary one looks once more before it fills.
EnterGate(r) ==
    /\ pc[r] = "queue" /\ GateOpen
    /\ gate' = r
    /\ Goes(r, IF kind[r] = "ordinary" /\ Stored THEN "leave" ELSE "fill")
    /\ UNCHANGED <<source, entry, fresh, flight, kind, value, deleting, floor>>

\* The client of the leader is gone: before the gate, or when the fill notices.
Abandon(r) ==
    /\ pc[r] \in {"queue", "fill", "store"}
    /\ Goes(r, IF pc[r] = "queue" THEN "end" ELSE "leave")
    /\ value' = [value EXCEPT ![r] = 0]
    /\ UNCHANGED <<source, entry, fresh, gate, flight, kind, deleting, floor>>

Fill(r) ==
    /\ pc[r] = "fill"
    /\ value' = [value EXCEPT ![r] = source]
    /\ Goes(r, "store")
    /\ UNCHANGED <<source, entry, fresh, gate, flight, kind, deleting, floor>>

\* A result over the size limit is not stored, and the smaller old one goes.
Store(r) ==
    /\ pc[r] = "store"
    /\ \/ entry' = value[r] /\ fresh' = TRUE
       \/ entry' = 0 /\ fresh' = FALSE
    /\ AtLeast(value[r])
    /\ value' = [value EXCEPT ![r] = 0]
    /\ Goes(r, "leave")
    /\ UNCHANGED <<source, gate, flight, kind, deleting>>

LeaveGate(r) ==
    /\ pc[r] = "leave"
    /\ gate' = IF gate = r THEN Nobody ELSE gate
    /\ Goes(r, "end")
    /\ UNCHANGED <<source, entry, fresh, flight, kind, value, deleting, floor>>

\* The flight is over: its waiters return with it, or ask again when its client was gone.
EndFlight(r) ==
    /\ pc[r] = "end"
    /\ flight' = [flight EXCEPT ![kind[r]] = Nobody]
    /\ pc' = [q \in Reader |->
                IF q = r \/ (pc[q] = "wait" /\ kind[q] = kind[r]) THEN "idle" ELSE pc[q]]
    /\ UNCHANGED <<source, entry, fresh, gate, kind, value, deleting, floor>>

StopWaiting(r) ==
    /\ pc[r] = "wait"
    /\ Goes(r, "idle")
    /\ UNCHANGED <<source, entry, fresh, gate, flight, kind, value, deleting, floor>>

-----------------------------------------------------------------------------
(* Delete.                                                                  *)

BeginDelete(d) ==
    /\ dpc[d] = "idle"
    /\ entry' = 0 /\ fresh' = FALSE
    /\ dpc' = [dpc EXCEPT ![d] = "queue"]
    /\ from' = [from EXCEPT ![d] = source]
    /\ UNCHANGED <<source, gate, flight, pc, kind, value, floor>>

EnterDelete(d) ==
    /\ dpc[d] = "queue" /\ GateOpen
    /\ gate' = d
    /\ dpc' = [dpc EXCEPT ![d] = "delete"]
    /\ UNCHANGED <<source, entry, fresh, flight, pc, kind, value, from, floor>>

\* deleteFullKeysNoGate, then the gate is left.
DeleteAgain(d) ==
    /\ dpc[d] = "delete"
    /\ entry' = 0 /\ fresh' = FALSE
    /\ gate' = IF gate = d THEN Nobody ELSE gate
    /\ dpc' = [dpc EXCEPT ![d] = "idle"]
    /\ AtLeast(from[d])
    /\ UNCHANGED <<source, flight, pc, kind, value, from>>

\* The caller's context ends while the deletion waits for the gate: it promises nothing.
GiveUpDelete(d) ==
    /\ dpc[d] = "queue"
    /\ dpc' = [dpc EXCEPT ![d] = "idle"]
    /\ UNCHANGED <<source, entry, fresh, gate, flight, pc, kind, value, from, floor>>

-----------------------------------------------------------------------------

\* Time passes, or the entry gives way to others.
Expire ==
    /\ Stored
    /\ fresh' = FALSE
    /\ UNCHANGED <<source, entry, gate, flight, pc, kind, value, deleting, floor>>

Evict ==
    /\ entry # 0
    /\ entry' = 0 /\ fresh' = FALSE
    /\ UNCHANGED <<source, gate, flight, pc, kind, value, deleting, floor>>

Change ==
    /\ source < MaxVersion
    /\ source' = source + 1
    /\ UNCHANGED <<entry, fresh, gate, flight, pc, kind, value, deleting, floor>>

Next ==
    \/ \E r \in Reader :
          \/ Ask(r) \/ EnterGate(r) \/ Abandon(r) \/ Fill(r) \/ Store(r) \/ LeaveGate(r)
          \/ EndFlight(r) \/ StopWaiting(r)
    \/ \E d \in Deleter : BeginDelete(d) \/ EnterDelete(d) \/ DeleteAgain(d) \/ GiveUpDelete(d)
    \/ Expire \/ Evict \/ Change

Spec == Init /\ [][Next]_vars

-----------------------------------------------------------------------------
(* Properties.                                                              *)

\* After a deletion that waited for the gate has returned, nothing computed before it began is
\* stored any more; and a stored value is never replaced by an older one, though forced and
\* ordinary fills of one key run in flights of their own.
NeverStale == entry # 0 => entry >= floor

=============================================================================
