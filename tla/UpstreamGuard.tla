---------------------------- MODULE UpstreamGuard ----------------------------
(***************************************************************************)
(* The guard of src/monitor/upstream_guard.go that every request to an      *)
(* upstream host passes: a global semaphore, then the host's own semaphore  *)
(* of one place, held until the response body is closed; a circuit per      *)
(* host that is saved so that a restart does not forget a cooldown; and a   *)
(* start spacing for the process as a whole.                                *)
(*                                                                         *)
(* One tick is the least spacing; jitter is zero.  Failures are counted up   *)
(* to the threshold and openings up to the last duration, since the code    *)
(* only compares them with these.  Statuses 401 and 403 are "auth", 408,    *)
(* 425 and 5xx "error", a 503 with Retry-After "overload", 429 "limited".   *)
(***************************************************************************)
EXTENDS Naturals, Sequences, FiniteSets, FiniteSetsExt, Functions

CONSTANTS
    Host,           \* upstream hosts
    Req,            \* bound: requests in progress at the same time
    host,           \* the host each of them goes to
    NoReq,          \* nobody holds the host's semaphore
    Concurrency,    \* capacity of the global semaphore: 1 or 2
    Threshold,      \* upstreamGuardFailureThreshold
    OpenDurations,  \* upstreamGuardOpenDurations
    RetryAfters,    \* what a host may ask for in Retry-After
    MaxTime         \* bound on the clock

VARIABLES
    now,          \* g.clock
    pc,           \* where a request is
    holder,       \* the request that holds the host's semaphore
    globalNext,   \* no request starts before it
    nextStart,    \* the same per host
    circuit,      \* the host's circuit in memory: [fails, opens, until]
    loaded,       \* it was read from the store
    saved,        \* the host's row in the store
    asked,        \* ghost: the cooldown the host imposed last
    forgotten     \* ghost: that cooldown was never saved, and the process restarted

vars == <<now, pc, holder, globalNext, nextStart, circuit, loaded, saved, asked, forgotten>>
pacing == <<globalNext, nextStart>>
ghosts == <<asked, forgotten>>

Clear == [fails |-> 0, opens |-> 0, until |-> 0]

Stages == {"idle", "global", "host", "check", "pace", "go", "sent", "saveBody", "saveEnd", "body",
           "recorded"}

Horizon == MaxTime + Max(Range(OpenDurations) \cup RetryAfters)

TypeOK ==
    /\ now \in 0 .. MaxTime
    /\ pc \in [Req -> Stages]
    /\ holder \in [Host -> Req \cup {NoReq}]
    /\ globalNext \in 0 .. MaxTime + 1 /\ nextStart \in [Host -> 0 .. MaxTime + 1]
    /\ \A h \in Host : \A c \in {circuit[h], saved[h]} :
          /\ c.fails \in 0 .. Threshold
          /\ c.opens \in 0 .. Len(OpenDurations)
          /\ c.until \in 0 .. Horizon
    /\ loaded \in [Host -> BOOLEAN]
    /\ asked \in [Host -> 0 .. Horizon] /\ forgotten \in [Host -> BOOLEAN]

Init ==
    /\ now = 0
    /\ pc = [r \in Req |-> "idle"]
    /\ holder = [h \in Host |-> NoReq]
    /\ globalNext = 0 /\ nextStart = [h \in Host |-> 0]
    /\ circuit = [h \in Host |-> Clear]
    /\ loaded = [h \in Host |-> FALSE]
    /\ saved = [h \in Host |-> Clear]
    /\ asked = [h \in Host |-> 0] /\ forgotten = [h \in Host |-> FALSE]

Goes(r, s) == pc' = [pc EXCEPT ![r] = s]

-----------------------------------------------------------------------------
(* RoundTrip up to the start of the request.                                *)

InGlobal == {r \in Req : pc[r] \notin {"idle", "global"}}

Begin(r) ==
    /\ pc[r] = "idle"
    /\ Goes(r, "global")
    /\ UNCHANGED <<now, holder, pacing, circuit, loaded, saved, ghosts>>

AcquireGlobal(r) ==
    /\ pc[r] = "global"
    /\ Cardinality(InGlobal) < Concurrency
    /\ Goes(r, "host")
    /\ UNCHANGED <<now, holder, pacing, circuit, loaded, saved, ghosts>>

HostFree(h) == holder[h] = NoReq

\* The global place is held while the request waits for its host.
AcquireHost(r) ==
    /\ pc[r] = "host"
    /\ HostFree(host[r])
    /\ holder' = [holder EXCEPT ![host[r]] = r]
    /\ Goes(r, "check")
    /\ UNCHANGED <<now, pacing, circuit, loaded, saved, ghosts>>

\* Both semaphores are given back.
Release(r) ==
    /\ holder' = [holder EXCEPT ![host[r]] = IF @ = r THEN NoReq ELSE @]
    /\ Goes(r, "idle")

Closed(c) == c.until <= now

\* A mutant: the row of an earlier process is never read.
Known_InMemory(h) == circuit[h]

Known(h) == IF loaded[h] THEN circuit[h] ELSE saved[h]

\* loadCircuit and circuitRetryAt: the first request to a host reads its row; a circuit that is
\* open, or a row that cannot be read, sends the request back.
Check(r) ==
    /\ pc[r] = "check"
    /\ LET h == host[r]
           c == Known(h)
       IN \/ /\ circuit' = [circuit EXCEPT ![h] = c]
             /\ loaded' = [loaded EXCEPT ![h] = TRUE]
             /\ IF Closed(c) THEN Goes(r, "pace") /\ UNCHANGED holder ELSE Release(r)
          \/ /\ ~loaded[h]
             /\ Release(r)
             /\ UNCHANGED <<circuit, loaded>>
    /\ UNCHANGED <<now, pacing, saved, ghosts>>

\* waitForStart: both times are read, and the loop is left once they have come.
Pace(r) ==
    /\ pc[r] = "pace"
    /\ globalNext <= now /\ nextStart[host[r]] <= now
    /\ Goes(r, "go")
    /\ UNCHANGED <<now, holder, pacing, circuit, loaded, saved, ghosts>>

\* Only now is the next start set, for the process and for the host; the request is sent.
Start(r) ==
    /\ pc[r] = "go"
    /\ globalNext' = now + 1
    /\ nextStart' = [nextStart EXCEPT ![host[r]] = now + 1]
    /\ Goes(r, "sent")
    /\ UNCHANGED <<now, holder, circuit, loaded, saved, ghosts>>

-----------------------------------------------------------------------------
(* What a request reports about its host: recordResponse and                *)
(* recordNetworkFailure, then the row is saved, then the host is released.  *)

CapAt(n, top) == IF n > top THEN top ELSE n

Larger(a, b) == IF a > b THEN a ELSE b

OpenFor(c) == OpenDurations[CapAt(c.opens + 1, Len(OpenDurations))]

Opened(c, until) ==
    [c EXCEPT !.opens = CapAt(@ + 1, Len(OpenDurations)), !.until = until]

Counted(c) == [c EXCEPT !.fails = CapAt(@ + 1, Threshold)]

AfterLimit(c, d) == Opened(Counted(c), now + d)

\* A network failure opens the circuit at the threshold; an error status may only extend it.
AfterNetwork(c) ==
    LET k == Counted(c)
    IN IF k.fails >= Threshold THEN Opened(k, now + OpenFor(k)) ELSE k

AfterError(c, d) ==
    LET k == Counted(c)
        retry == Larger(IF k.fails >= Threshold THEN now + OpenFor(k) ELSE 0,
                        IF d > 0 THEN now + d ELSE 0)
    IN IF retry > 0 THEN Opened(k, Larger(k.until, retry)) ELSE k

Record(r, c) ==
    /\ circuit' = [circuit EXCEPT ![host[r]] = c]
    /\ asked' = [asked EXCEPT ![host[r]] = c.until]
    /\ forgotten' = [forgotten EXCEPT ![host[r]] = FALSE]

\* The response header, or a network failure, or a caller that gave up, which punishes nobody.
Respond(r) ==
    /\ pc[r] = "sent"
    /\ LET c == circuit[host[r]]
       IN \/ /\ Goes(r, "body")                                  \* a success, or 401 and 403
             /\ UNCHANGED <<circuit, ghosts, holder>>
          \/ /\ \/ \E d \in RetryAfters : Record(r, AfterLimit(c, d))
                \/ \E d \in RetryAfters \cup {0} : Record(r, AfterError(c, d))
             /\ Goes(r, "saveBody")
             /\ UNCHANGED holder
          \/ /\ Record(r, AfterNetwork(c))
             /\ Goes(r, "saveEnd")
             /\ UNCHANGED holder
          \/ /\ Release(r)
             /\ UNCHANGED <<circuit, ghosts>>
    /\ UNCHANGED <<now, pacing, loaded, saved>>

\* The body is read to its end or closed, or breaks, or the caller gives up; a success clears the
\* circuit.  A circuit that does not change is not saved.
EndBody(r) ==
    /\ pc[r] = "body"
    /\ LET c == circuit[host[r]]
       IN \/ /\ c # Clear
             /\ Record(r, Clear)
             /\ Goes(r, "saveEnd")
             /\ UNCHANGED holder
          \/ /\ Record(r, AfterNetwork(c))
             /\ Goes(r, "saveEnd")
             /\ UNCHANGED holder
          \/ /\ Release(r)
             /\ UNCHANGED <<circuit, ghosts>>
    /\ UNCHANGED <<now, pacing, loaded, saved>>

EndRecordedBody(r) ==
    /\ pc[r] = "recorded"
    /\ Release(r)
    /\ UNCHANGED <<now, pacing, circuit, loaded, saved, ghosts>>

\* persistCircuit: a row that cannot be written is only logged.
Save(r) ==
    /\ pc[r] \in {"saveBody", "saveEnd"}
    /\ \/ saved' = [saved EXCEPT ![host[r]] = circuit[host[r]]]
       \/ UNCHANGED saved
    /\ IF pc[r] = "saveBody" THEN Goes(r, "recorded") /\ UNCHANGED holder ELSE Release(r)
    /\ UNCHANGED <<now, pacing, circuit, loaded, ghosts>>

-----------------------------------------------------------------------------

\* The caller gives up while it waits.
GiveUp(r) ==
    /\ pc[r] \in {"global", "host", "pace"}
    /\ Release(r)
    /\ UNCHANGED <<now, pacing, circuit, loaded, saved, ghosts>>

\* The process ends and starts again: only the rows remain.
Restart ==
    /\ pc' = [r \in Req |-> "idle"]
    /\ holder' = [h \in Host |-> NoReq]
    /\ globalNext' = 0 /\ nextStart' = [h \in Host |-> 0]
    /\ circuit' = [h \in Host |-> Clear]
    /\ loaded' = [h \in Host |-> FALSE]
    /\ forgotten' = [h \in Host |-> saved[h].until # asked[h]]
    /\ UNCHANGED <<now, saved, asked>>

Tick ==
    /\ now < MaxTime
    /\ now' = now + 1
    /\ UNCHANGED <<pc, holder, pacing, circuit, loaded, saved, ghosts>>

Next ==
    \/ \E r \in Req :
          \/ Begin(r) \/ AcquireGlobal(r) \/ AcquireHost(r) \/ Check(r) \/ Pace(r) \/ Start(r)
          \/ Respond(r) \/ EndBody(r) \/ EndRecordedBody(r) \/ Save(r) \/ GiveUp(r)
    \/ Restart \/ Tick

Spec == Init /\ [][Next]_vars

-----------------------------------------------------------------------------
(* Properties.                                                              *)

Starts(r) == pc[r] = "go" /\ pc'[r] = "sent"

\* No request is sent to a host before the cooldown the host imposed last is over, also when the
\* process restarted in between, unless that cooldown could not be saved; and requests to one host
\* keep the distance between their starts, though the time of the next start is read long before it
\* is set.
StartsAfterCooldown ==
    \A r \in Req : Starts(r) =>
        /\ now >= asked[host[r]] \/ forgotten[host[r]]
        /\ now >= nextStart[host[r]]
CooldownKept == [][StartsAfterCooldown]_vars
=============================================================================
