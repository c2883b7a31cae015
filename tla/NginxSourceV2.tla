---------------------------- MODULE NginxSourceV2 ----------------------------
(***************************************************************************)
(* One nginx log lane of the source v2 protocol: the collector              *)
(* (cmd/nginxcollector) with its fsynced cursor, Monitor                    *)
(* (monitor/nginx_source_v2.go) with its registered files and range ledger, *)
(* the HTTP requests between them, and the log directory that nginx,        *)
(* logrotate and cmd/nginxreopen change meanwhile.                          *)
(*                                                                          *)
(* A file is its physical identity (device and inode); files are numbered   *)
(* in the order logrotate creates them and an identity is not reused.       *)
(* Offsets count complete lines.  A hash is its content: a manifest hash is *)
(* the chain of registrations it covers, a content hash the range itself.   *)
(***************************************************************************)
EXTENDS Integers, Sequences, FiniteSets

CONSTANTS
  MaxFiles,   \* log files that ever exist
  MaxSize,    \* lines of one file
  MaxRange,   \* lines of one batch (NGINXCOLLECTOR_MAX_LINES)
  Payload,    \* aggregates one range may parse to (the retention window moves)
  Turns,      \* a rotated file is read every Turns-th time
  MaxFaults,  \* requests given up and collector crashes
  MaxStale,   \* abandoned requests still in flight
  Deletable,  \* the files logrotate may delete
  CarefulRotation \* files are deleted only when read, and released by nginx

File == 1..MaxFiles

ASSUME NginxSourceAssumption ==
  /\ MaxFiles \in Nat \ {0} /\ MaxSize \in Nat \ {0} /\ MaxRange \in Nat \ {0}
  /\ Turns \in Nat \ {0} /\ MaxFaults \in Nat /\ MaxStale \in Nat
  /\ Deletable \subseteq File /\ CarefulRotation \in BOOLEAN /\ Payload # {}

VARIABLES
  dir,    \* the log directory, nginx's open file and the writer-release proof
  srv,    \* Monitor's tables for this lane
  net,    \* requests that may still be executed, once more or for the first time
  disk,   \* the collector's fsynced cursor
  pc, w, job, await, reply,  \* the collector's cycle, lost in a crash
  faults

client == <<pc, w, job, await, reply>>
vars == <<dir, srv, net, disk, client, faults>>

-----------------------------------------------------------------------------
(* The cursor: tracked files in generation order, the registered manifest. *)

NoEntry == [acked |-> 0, obs |-> 0, st |-> "none", pend |-> FALSE, seen |-> 0]
NoManifest == [files |-> <<>>, cuts |-> <<>>]
NoCursor == [order |-> <<>>, man |-> NoManifest, cur |-> 0, rr |-> 0,
             f |-> [f \in File |-> NoEntry]]
NoMsg == [t |-> "none"]
NoJob == [f |-> 0, e |-> 0, ctx |-> "none"]

Elems(s) == {s[i] : i \in 1..Len(s)}
Tracked(c) == Elems(c.order)
Unregistered(c) == SubSeq(c.order, Len(c.man.files) + 1, Len(c.order))
Extended(man, files) ==
  [files |-> man.files \o files, cuts |-> Append(man.cuts, Len(files))]
InOrder(S) == [i \in 1..Cardinality(S) |->
                 CHOOSE x \in S : Cardinality({y \in S : y <= x}) = i]

\* The state of a file whose acknowledged offset and observed size are known.
Readiness(acked, obs) == IF obs > acked THEN "active" ELSE "quiescent"
NewWatermark(f) ==
  [acked |-> 0, obs |-> dir.size[f], st |-> Readiness(0, dir.size[f]),
   pend |-> FALSE, seen |-> dir.proofs]

Blocked(c) == \E f \in Tracked(c) : c.f[f].st = "missing"
Pending(c) == {f \in Tracked(c) : c.f[f].pend /\ c.f[f].st # "retired"}

-----------------------------------------------------------------------------
(* nginx, logrotate and nginxreopen.                                        *)

Append1 ==
  /\ dir.size[dir.fd] < MaxSize
  /\ dir' = [dir EXCEPT !.size[dir.fd] = @ + 1]
  /\ UNCHANGED <<srv, net, disk, client, faults>>

\* logrotate renames the current log and creates the next; nginx still holds
\* the old file open.
Rotate ==
  /\ dir.cur < MaxFiles /\ dir.fd = dir.cur
  /\ dir' = [dir EXCEPT !.cur = @ + 1, !.present = @ \cup {dir.cur + 1}]
  /\ UNCHANGED <<srv, net, disk, client, faults>>

\* postrotate: USR1, then the proof that every other file, present now or in
\* the previous proof, has no writer, all stamped with the present time.
Reopen ==
  /\ dir.fd # dir.cur
  /\ dir' = [dir EXCEPT !.fd = dir.cur, !.bound = dir.cur, !.proofs = @ + 1,
                        !.released = (@ \cup dir.present) \ {dir.cur}]
  /\ UNCHANGED <<srv, net, disk, client, faults>>

\* logrotate drops its oldest file.
Delete(f) ==
  /\ f \in dir.present /\ f # dir.cur /\ \A g \in dir.present : f <= g
  /\ CarefulRotation => dir.fd # f /\ disk.f[f].acked = dir.size[f]
  /\ dir' = [dir EXCEPT !.present = @ \ {f}]
  /\ UNCHANGED <<srv, net, disk, client, faults>>

-----------------------------------------------------------------------------
(* Monitor: each request is one transaction.                                *)

Refused == [ok |-> FALSE, srv |-> srv]
Accepted(s) == [ok |-> TRUE, srv |-> s]

RegisterManifest(m) ==
  CASE srv.man = NoManifest -> Accepted([srv EXCEPT !.man = Extended(NoManifest, m.files)])
    [] srv.man = Extended(NoManifest, m.files) -> Accepted(srv)
    [] OTHER -> Refused

SameRegistration(m) == srv.man = Extended(m.prev, m.files)

\* Generations already known make it a retry: only the exact last
\* registration is acknowledged again.  Otherwise the hash chain must match.
RegisterFiles(m) ==
  IF srv.man = NoManifest THEN Refused
  ELSE IF Len(srv.man.files) > Len(m.prev.files)
    THEN IF SameRegistration(m) THEN Accepted(srv) ELSE Refused
  ELSE IF srv.man = m.prev
    THEN Accepted([srv EXCEPT !.man = Extended(@, m.files)])
  ELSE Refused

Ranges(f) == {r \in srv.ranges : r.f = f}
Exact(m) == {r \in Ranges(m.f) : r.s = m.s /\ r.e = m.e}

Contiguous_AnyStart(m) == m.e > srv.next[m.f]
\* A new range starts where the last accepted one ended: no overlap, no gap.
Contiguous(m) == m.s = srv.next[m.f]

\* maxNginxSourceUnconfirmedRangesV2; the byte bound is far above any range.
RangeBudget == 64
Backpressure(m) == Cardinality({r \in Ranges(m.f) : r.e > srv.conf[m.f]}) >= RangeBudget

\* The batch is aggregated in the transaction that moves the watermark.
ApplyRange(m) ==
  IF m.f \notin Elems(srv.man.files) THEN Refused
  ELSE IF Exact(m) # {}
    THEN IF \E r \in Exact(m) : r.p = m.p /\ srv.next[m.f] >= r.e
         THEN Accepted(srv) ELSE Refused
  ELSE IF Contiguous(m) /\ ~Backpressure(m)
    THEN Accepted([srv EXCEPT !.next[m.f] = m.e,
           !.ranges = @ \cup {[f |-> m.f, s |-> m.s, e |-> m.e, p |-> m.p]},
           !.count[m.f] = [b \in 1..MaxSize |-> @[b] + IF b \in (m.s + 1)..m.e THEN 1 ELSE 0]])
  ELSE Refused

Confirmable_Backward(m) == m.at <= srv.next[m.f]
Confirmable(m) ==
  /\ m.at > srv.conf[m.f] /\ m.at <= srv.next[m.f]
  /\ \E r \in Ranges(m.f) : r.e = m.at

AlreadyConfirmed_Never(m) == FALSE
AlreadyConfirmed(m) == m.at = srv.conf[m.f]

\* A confirmed range is pruned from the ledger; a repeated confirmation is
\* answered as the first was.
Confirm(m) ==
  IF m.f \notin Elems(srv.man.files) THEN Refused
  ELSE IF AlreadyConfirmed(m) THEN Accepted(srv)
  ELSE IF Confirmable(m)
    THEN Accepted([srv EXCEPT !.conf[m.f] = m.at,
           !.ranges = {r \in @ : r.f # m.f \/ r.e > m.at}])
  ELSE Refused

Handled(m) ==
  CASE m.t = "manifest" -> RegisterManifest(m)
    [] m.t = "files" -> RegisterFiles(m)
    [] m.t = "range" -> ApplyRange(m)
    [] m.t = "confirm" -> Confirm(m)

\* A request is executed, possibly long after its sender gave it up and
\* possibly again.
Deliver(m) ==
  /\ m \in net
  /\ srv' = Handled(m).srv
  /\ reply' = IF m = await THEN (IF Handled(m).ok THEN "ok" ELSE "refused") ELSE reply
  /\ UNCHANGED <<dir, net, disk, pc, w, job, await, faults>>

-----------------------------------------------------------------------------
(* The collector's cycle.  A cycle that fails anywhere leaves the cursor as *)
(* it was last saved and starts over.                                       *)

Idle == /\ pc' = "idle" /\ w' = NoCursor /\ job' = NoJob
        /\ await' = NoMsg /\ reply' = "none"

\* Abandoned requests may linger in the network, at most MaxStale of them.
Send(m, where, cursor, work) ==
  /\ \E S \in SUBSET net : Cardinality(S) <= MaxStale /\ net' = S \cup {m}
  /\ pc' = where /\ w' = cursor /\ job' = work /\ await' = m /\ reply' = "none"

Goto(where, cursor, work) ==
  /\ pc' = where /\ w' = cursor /\ job' = work /\ await' = NoMsg /\ reply' = "none"

ConfirmMsg(f, at) == [t |-> "confirm", f |-> f, at |-> at]

\* First start: the only file there is becomes generation 1; the cursor is on
\* disk before the manifest is sent.
Bootstrap ==
  /\ pc = "idle" /\ disk = NoCursor
  /\ dir.present = {dir.cur}
  /\ disk' = [NoCursor EXCEPT !.order = <<dir.cur>>, !.cur = dir.cur,
                              !.f[dir.cur] = NewWatermark(dir.cur)]
  /\ Send([t |-> "manifest", files |-> <<dir.cur>>], "manifest", disk', NoJob)
  /\ UNCHANGED <<dir, srv, faults>>

\* The saved manifest is sent again, as it was, as long as its files exist.
ResendManifest ==
  /\ pc = "idle" /\ disk # NoCursor /\ disk.man = NoManifest
  /\ Tracked(disk) \subseteq dir.present
  /\ Send([t |-> "manifest", files |-> disk.order], "manifest", disk, NoJob)
  /\ UNCHANGED <<dir, srv, disk, faults>>

ManifestRegistered ==
  /\ pc = "manifest" /\ reply = "ok"
  /\ disk' = [w EXCEPT !.man = Extended(NoManifest, w.order)]
  /\ Goto("resume", disk', NoJob)
  /\ UNCHANGED <<dir, srv, net, faults>>

Discovered(c) == InOrder(dir.present \ Tracked(c))
UnreadGone(c) == \E f \in Tracked(c) \ dir.present :
                   c.f[f].st # "retired" /\ c.f[f].acked < c.f[f].obs

Rescanned(c, f) ==
  IF f \notin Tracked(c) THEN IF f \in dir.present THEN NewWatermark(f) ELSE c.f[f]
  ELSE IF c.f[f].st = "retired" THEN c.f[f]
  ELSE IF f \in dir.present
    THEN [c.f[f] EXCEPT !.obs = dir.size[f], !.seen = dir.proofs,
                        !.st = Readiness(c.f[f].acked, dir.size[f])]
  ELSE [c.f[f] EXCEPT !.st = "missing"]

Reconciled(c) ==
  [c EXCEPT !.order = @ \o Discovered(c), !.cur = dir.cur,
            !.f = [f \in File |-> Rescanned(c, f)]]

SavedRotation_AfterAck(c) == disk
\* The cursor names a new file before Monitor hears of it.
SavedRotation(c) == c

\* Unregistered files stop the scan: the same registration is sent again.
Resume ==
  /\ disk.man # NoManifest
  /\ pc \in {"idle", "resume"}
  /\ LET c == IF Unregistered(disk) # <<>> THEN disk ELSE Reconciled(disk)
         new == Unregistered(c)
     IN /\ IF Unregistered(disk) # <<>> THEN Elems(new) \subseteq dir.present
           ELSE ~UnreadGone(disk)
        /\ IF new = <<>>
           THEN disk' = c /\ Goto("recover", c, NoJob) /\ UNCHANGED net
           ELSE /\ c.cur = new[Len(new)]
                /\ disk' = SavedRotation(c)
                /\ Send([t |-> "files", prev |-> c.man, files |-> new], "files", c, NoJob)
  /\ UNCHANGED <<dir, srv, faults>>

FilesRegistered ==
  /\ pc = "files" /\ reply = "ok"
  /\ disk' = [w EXCEPT !.man = Extended(@, Unregistered(w))]
  /\ Goto("recover", disk', NoJob)
  /\ UNCHANGED <<dir, srv, net, faults>>

\* The first pending file in the order of the cursor.
NextPending ==
  w.order[CHOOSE i \in 1..Len(w.order) :
            /\ w.order[i] \in Pending(w)
            /\ \A k \in 1..(i - 1) : w.order[k] \notin Pending(w)]

\* GET ack, first read: the watermark.  Nothing beyond the cursor: confirm it
\* when starting up; after a failed POST give the cycle up.
AskProof ==
  /\ \/ pc = "recover" /\ Pending(w) # {}
     \/ pc = "ask"
  /\ LET f == IF pc = "ask" THEN job.f ELSE NextPending
         ctx == IF pc = "ask" THEN "post" ELSE "ensure"
         acked == w.f[f].acked
     IN IF acked \notin srv.conf[f]..srv.next[f] \/ (acked = srv.next[f] /\ ctx = "post")
        THEN Idle /\ UNCHANGED net
        ELSE IF acked = srv.next[f]
        THEN Send(ConfirmMsg(f, acked), "confirm", w, [f |-> f, e |-> acked, ctx |-> ctx])
        ELSE /\ Goto("rows", w, [f |-> f, e |-> srv.next[f], ctx |-> ctx])
             /\ UNCHANGED net
  /\ UNCHANGED <<dir, srv, disk, faults>>

\* Rows that cover a..b exactly, in order and without a gap.
Chain(f, a, b) ==
  LET rows == {r \in Ranges(f) : r.e > a /\ r.s < b}
  IN /\ \E r \in rows : r.s = a
     /\ \E r \in rows : r.e = b
     /\ \A o \in a..(b - 1) : Cardinality({r \in rows : r.s <= o /\ o < r.e}) = 1

\* acknowledgeSourceRangeV2: refused while any tracked file is missing.
Acknowledged(c, f, e) ==
  [c EXCEPT !.f[f].acked = e, !.f[f].seen = dir.proofs,
            !.f[f].st = IF e = c.f[f].obs THEN "quiescent" ELSE @]

\* Second read: the ranges; they are rehashed from the pinned file, the cursor
\* is saved past them, then Monitor is told.
TakeProof ==
  /\ pc = "rows"
  /\ IF /\ Chain(job.f, w.f[job.f].acked, job.e)
        /\ job.e <= w.f[job.f].obs
        /\ job.f \in dir.present
        /\ ~Blocked(w)
     THEN /\ disk' = Acknowledged(w, job.f, job.e)
          /\ Send(ConfirmMsg(job.f, job.e), "confirm", disk', job)
     ELSE Idle /\ UNCHANGED <<net, disk>>
  /\ UNCHANGED <<dir, srv, faults>>

\* The marker is cleared; at start-up the clearing is saved only later.
Confirmed ==
  /\ pc = "confirm" /\ reply = "ok"
  /\ LET c == [w EXCEPT !.f[job.f].pend = FALSE]
     IN IF job.ctx = "ensure"
        THEN Goto("recover", c, NoJob) /\ UNCHANGED disk
        ELSE Idle /\ disk' = c
  /\ UNCHANGED <<dir, srv, net, faults>>

\* Released since the cursor last saw the file; the comparison is in seconds,
\* so a sighting in the second of the proof may count as earlier.
ReleasedSince(c) == {f \in dir.released : c.f[f].seen < dir.proofs}
ReleasedSameSecond(c) == {f \in dir.released : c.f[f].seen = dir.proofs}

\* Missing files that the proof covers retire.  A proof that does not name the
\* present current log fails the cycle.
Release ==
  /\ pc = "recover" /\ Pending(w) = {}
  /\ dir.proofs > 0 => dir.bound = dir.cur
  /\ \E S \in SUBSET ReleasedSameSecond(w) :
       disk' = [w EXCEPT !.f = [f \in File |->
                  IF w.f[f].st = "missing" /\ f \in ReleasedSince(w) \cup S
                  THEN [w.f[f] EXCEPT !.st = "retired"] ELSE w.f[f]]]
  /\ Goto("select", disk', NoJob)
  /\ UNCHANGED <<dir, srv, net, faults>>

Readable(c) == {f \in Elems(c.man.files) : c.f[f].st = "active"}
Rotated(c) == Readable(c) \ {c.cur}
Oldest(S) == CHOOSE f \in S : \A g \in S : f <= g
TakesTurn(c) == c.cur \in Readable(c) /\ Rotated(c) # {}
Chosen(c) ==
  IF Rotated(c) # {} /\ (c.cur \notin Readable(c) \/ c.rr = Turns - 1)
  THEN Oldest(Rotated(c)) ELSE c.cur
Turned(c) == IF TakesTurn(c) THEN [c EXCEPT !.rr = (@ + 1) % Turns] ELSE c

Observed_Stale(obs, e) == obs
\* The batch may end beyond the size of the last scan.
Observed(obs, e) == IF e > obs THEN e ELSE obs

Marked_AfterReply(c, f) == c
\* The crash-safe hint: set and fsynced before the POST.
Marked(c, f) == [c EXCEPT !.f[f].pend = TRUE]

\* Nothing to read, or a file is missing: the cycle ends.
NothingToRead ==
  /\ pc = "select" /\ (Blocked(w) \/ Readable(w) = {})
  /\ disk' = w /\ Idle
  /\ UNCHANGED <<dir, srv, net, faults>>

\* Read the chosen file up to some line, save the marker, POST.
PostRange ==
  /\ pc = "select" /\ ~Blocked(w) /\ Readable(w) # {}
  /\ LET f == Chosen(w)
         a == w.f[f].acked
     IN /\ f \in dir.present
        /\ \E e \in (a + 1)..dir.size[f], p \in Payload :
             /\ e <= a + MaxRange
             /\ disk' = Marked([Turned(w) EXCEPT !.f[f].obs = Observed(@, e),
                          !.f[f].seen = dir.proofs, !.f[f].st = "active"], f)
             /\ Send([t |-> "range", f |-> f, s |-> a, e |-> e, p |-> p],
                     "post", disk', [f |-> f, e |-> e, ctx |-> "post"])
  /\ UNCHANGED <<dir, srv, faults>>

\* postSourceBatch: only the exact commit acknowledgement counts.
Committed == reply = "ok"

RangeAcknowledged ==
  /\ pc = "post" /\ Committed
  /\ disk' = Acknowledged(w, job.f, job.e)
  /\ Send(ConfirmMsg(job.f, job.e), "confirm", disk', job)
  /\ UNCHANGED <<dir, srv, faults>>

Fault == faults < MaxFaults /\ faults' = faults + 1

\* A refused or unanswered POST: ask what was accepted, in the same cycle.
PostFailed ==
  /\ pc = "post"
  /\ IF reply = "refused" THEN UNCHANGED faults ELSE Fault
  /\ Goto("ask", w, job)
  /\ UNCHANGED <<dir, srv, net, disk>>

\* A local check fails: the file is gone, or the proof is of another current.
CycleFails ==
  /\ \/ pc = "recover" /\ Pending(w) = {} /\ dir.proofs > 0 /\ dir.bound # dir.cur
     \/ /\ pc = "select" /\ ~Blocked(w) /\ Readable(w) # {}
        /\ Chosen(w) \notin dir.present
     \/ pc = "resume" /\ UnreadGone(disk)
  /\ Idle
  /\ UNCHANGED <<dir, srv, net, disk, faults>>

\* A request stays unanswered or is refused, or the process stops: volatile
\* state is lost.
Crash ==
  /\ pc # "idle" /\ Fault
  /\ Idle
  /\ UNCHANGED <<dir, srv, net, disk>>

-----------------------------------------------------------------------------
Init ==
  /\ dir = [size |-> [f \in File |-> 0], cur |-> 1, fd |-> 1, present |-> {1},
            bound |-> 0, released |-> {}, proofs |-> 0]
  /\ srv = [man |-> NoManifest, next |-> [f \in File |-> 0],
            conf |-> [f \in File |-> 0], ranges |-> {},
            count |-> [f \in File |-> [b \in 1..MaxSize |-> 0]]]
  /\ net = {} /\ disk = NoCursor /\ faults = 0
  /\ pc = "idle" /\ w = NoCursor /\ job = NoJob /\ await = NoMsg /\ reply = "none"

Collector ==
  \/ Bootstrap \/ ResendManifest \/ ManifestRegistered \/ Resume \/ FilesRegistered
  \/ AskProof \/ TakeProof \/ Confirmed \/ Release
  \/ NothingToRead \/ PostRange \/ RangeAcknowledged \/ PostFailed
  \/ CycleFails

Next ==
  \/ Append1 \/ Rotate \/ Reopen \/ \E f \in Deletable : Delete(f)
  \/ \E m \in net : Deliver(m)
  \/ Collector \/ Crash

Spec == Init /\ [][Next]_vars

\* The collector's loop and Monitor keep going; logrotate runs its postrotate
\* hook.  Faults are finitely many, so the last cycles run undisturbed.
FairSpec ==
  /\ Spec
  /\ WF_vars(Collector /\ faults' = faults)
  /\ WF_vars(Deliver(await))
  /\ WF_vars(Reopen)

-----------------------------------------------------------------------------
Cursor(c) ==
  /\ Tracked(c) \subseteq File /\ c.rr \in 0..(Turns - 1) /\ c.cur \in 0..MaxFiles
  /\ \A f \in File :
       /\ c.f[f].acked \in 0..MaxSize /\ c.f[f].obs \in 0..MaxSize
       /\ c.f[f].st \in {"none", "active", "quiescent", "missing", "retired"}
       /\ c.f[f].pend \in BOOLEAN /\ c.f[f].seen \in 0..MaxFiles

\* The shape of both sides.
TypeOK ==
  /\ dir.cur \in File /\ dir.fd \in File /\ dir.present \subseteq File
  /\ Cursor(disk) /\ Cursor(w)
  /\ srv.next \in [File -> 0..MaxSize] /\ srv.conf \in [File -> 0..MaxSize]
  /\ pc \in {"idle", "manifest", "resume", "files", "recover", "ask", "rows",
             "confirm", "select", "post"}

\* Every line Monitor accepted is in the aggregates exactly once and no other
\* line is, whatever is delayed, repeated or resent with other boundaries
\* (applyNginxSourceRangeV2).
CountedOnce ==
  \A f \in File : \A b \in 1..MaxSize :
    srv.count[f][b] = IF b <= srv.next[f] THEN 1 ELSE 0

\* A restarted collector can always be given the proof of what Monitor holds
\* beyond its cursor, and accepts it: the chain is complete and within the
\* size it saved before it sent the range.
Recoverable ==
  \A f \in File : disk.f[f].acked < srv.next[f] =>
    /\ Chain(f, disk.f[f].acked, srv.next[f])
    /\ srv.next[f] <= disk.f[f].obs

\* A cycle that passed the start-up checks agrees with Monitor on the files,
\* the current one and every confirmed offset: its heartbeat is accepted
\* (applyNginxSourceHeartbeatV2) even though the clearing of the markers was
\* saved late.
HeartbeatAccepted ==
  pc = "select" =>
    /\ srv.man = w.man /\ Elems(w.man.files) = Tracked(w)
    /\ srv.man.files[Len(srv.man.files)] = w.cur
    /\ \A f \in Tracked(w) : srv.conf[f] = w.f[f].acked

\* Monitor never knows a file that the saved cursor does not: a crash between
\* the registration and its acknowledgement cannot orphan a generation.
RegisteredIsTracked ==
  /\ Len(srv.man.files) <= Len(disk.order)
  /\ srv.man.files = SubSeq(disk.order, 1, Len(srv.man.files))

\* A collector whose answers were lost, however often, is never refused when it
\* registers or confirms again: a refusal would end every later cycle too.
NeverRefused == pc \in {"manifest", "files", "confirm"} => reply # "refused"

\* Both sides agree on the files in every one of these respects, whatever requests and answers
\* were lost and wherever collectors died (ensureSourceProtocolV2).
SidesAgree == HeartbeatAccepted /\ RegisteredIsTracked /\ NeverRefused

\* Each step moves one watermark of one file forward, in the promised order.
Delivery == INSTANCE ByteDelivery WITH
  written <- dir.size, counted <- srv.next,
  durable <- [f \in File |-> disk.f[f].acked], forgotten <- srv.conf
DeliverySpec == Delivery!Spec

\* With no file deleted, everything nginx wrote is counted, acknowledged and
\* confirmed in the end.  (A collector first started when rotated files exist
\* refuses to create a cursor.)
EverythingDelivered ==
  <>(disk # NoCursor) => <>[](\A f \in 1..dir.cur : srv.conf[f] = dir.size[f])

\* tracker_v2.go:777: a lost acknowledgement of a range is repaired.
LostAckRepaired ==
  \A f \in File : (disk.f[f].pend) ~> (~disk.f[f].pend)
=============================================================================
