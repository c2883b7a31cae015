---------------------------- MODULE ArchiveChain ----------------------------
(***************************************************************************)
(* One lane of a task whose agent (src/internal/ecslogagent) archives the   *)
(* batches of its collector in a bucket before it acknowledges them, and    *)
(* the Monitor (src/monitor/ecs_log_archive_*.go) that replays the bucket.  *)
(* Each envelope names its predecessor, a journal on the task's disk keeps  *)
(* the place of every envelope, and a closure ends the chain in order.  The *)
(* agent is configured with DeferredArchiveACK and ArchiveClosure.          *)
(*                                                                         *)
(* Leases are left out: a check of the lease may fail at any time.  Hashes  *)
(* and signatures are the envelope itself, and its body is frozen by the    *)
(* collector.  A request may reach the agent at any time, also one whose    *)
(* collector has gone.                                                      *)
(***************************************************************************)
EXTENDS Naturals, FiniteSets

CONSTANTS
    Batch,         \* bound: batches of the lane
    Seal,          \* the closure of the lane
    Root, Absent,  \* no predecessor, no entry
    Req,           \* bound: requests in progress at the same time
    JournalLimit   \* archiveJournalEntries

VARIABLES
    agent,      \* "off", "marked" (a first start between its two files), "up"
    journal,    \* the files of the journal: "none", "marker", "ready"
    previous,   \* journal.Previous
    head,       \* journal.Heads
    stage,      \* where a request is: "idle", "queued" for archiveMu, or "put"
    carried,    \* the batch it carries
    closer,     \* closeArchive: "none", "queued", "put", "ended"
    sent,       \* requests to store an object that are still on their way
    bucket,     \* the predecessor in the stored object
    acked,      \* batches answered with 202
    receipt     \* ECSLogArchiveReceipt.Status: "none", "wait" (425, 503), "ok", "refused"

vars == <<agent, journal, previous, head, stage, carried, closer, sent, bucket, acked, receipt>>
task == <<agent, journal, previous, head, stage, carried, closer, sent, acked>>

Envelope == Batch \cup {Seal}
Place == Envelope \cup {Root}

TypeOK ==
    /\ agent \in {"off", "marked", "up"}
    /\ journal \in {"none", "marker", "ready"}
    /\ previous \in [Envelope -> Place \cup {Absent}]
    /\ head \in Place
    /\ stage \in [Req -> {"idle", "queued", "put"}]
    /\ carried \in [Req -> Batch \cup {Absent}]
    /\ closer \in {"none", "queued", "put", "ended"}
    /\ sent \subseteq [what : Envelope, after : Place]
    /\ bucket \in [Envelope -> Place \cup {Absent}]
    /\ acked \subseteq Batch
    /\ receipt \in [Envelope -> {"none", "wait", "ok", "refused"}]

Init ==
    /\ agent = "off" /\ journal = "none"
    /\ previous = [e \in Envelope |-> Absent] /\ head = Root
    /\ stage = [r \in Req |-> "idle"]
    /\ carried = [r \in Req |-> Absent]
    /\ closer = "none"
    /\ sent = {}
    /\ bucket = [e \in Envelope |-> Absent]
    /\ acked = {}
    /\ receipt = [e \in Envelope |-> "none"]

Journaled == {e \in Envelope : previous[e] # Absent}
Stored == {e \in Envelope : bucket[e] # Absent}

-----------------------------------------------------------------------------
(* The agent: checkArchiveJournal when it starts.                           *)

\* The marker is written first: a start that ends before the journal is there is the last one.
Start ==
    /\ agent = "off" /\ journal # "marker"
    /\ IF journal = "none"
       THEN agent' = "marked" /\ journal' = "marker"
       ELSE agent' = "up" /\ UNCHANGED journal
    /\ UNCHANGED <<previous, head, stage, carried, closer, sent, bucket, acked, receipt>>

WriteJournal ==
    /\ agent = "marked"
    /\ agent' = "up" /\ journal' = "ready"
    /\ UNCHANGED <<previous, head, stage, carried, closer, sent, bucket, acked, receipt>>

\* A crash, or the end of the task's container.
End ==
    /\ agent # "off"
    /\ agent' = "off"
    /\ stage' = [r \in Req |-> "idle"]
    /\ carried' = [r \in Req |-> Absent]
    /\ closer' = "none"
    /\ UNCHANGED <<journal, previous, head, sent, bucket, acked, receipt>>

-----------------------------------------------------------------------------
(* ServeHTTP, archiveFrozen and putArchiveEnvelope.  The lock archiveMu is   *)
(* held from the journal's entry to the answer of the bucket.               *)

LockFree == closer # "put" /\ \A r \in Req : stage[r] # "put"

Receive(r, b) ==
    /\ agent = "up" /\ stage[r] = "idle"
    /\ stage' = [stage EXCEPT ![r] = "queued"]
    /\ carried' = [carried EXCEPT ![r] = b]
    /\ UNCHANGED <<agent, journal, previous, head, closer, sent, bucket, acked, receipt>>

Finish(r) ==
    /\ stage' = [stage EXCEPT ![r] = "idle"]
    /\ carried' = [carried EXCEPT ![r] = Absent]

Placed(b) == b \in Journaled

\* Not after the closure, and not beyond the journal's limit.
MayPlace == Seal \notin Journaled /\ Cardinality(Journaled) < JournalLimit

SaveAtHead(e) ==
    /\ previous' = [previous EXCEPT ![e] = head]
    /\ head' = e

\* freezeArchiveEnvelope: a batch keeps the place it once got; a new place is on disk before
\* anything is sent.
Freeze(r) ==
    /\ stage[r] = "queued" /\ LockFree
    /\ LET b == carried[r]
       IN \/ /\ Placed(b)
             /\ UNCHANGED <<previous, head>>
          \/ /\ ~Placed(b) /\ MayPlace
             /\ SaveAtHead(b)
    /\ stage' = [stage EXCEPT ![r] = "put"]
    /\ sent' = sent \cup {[what |-> carried[r], after |-> previous'[carried[r]]]}
    /\ UNCHANGED <<agent, journal, carried, closer, bucket, acked, receipt>>

\* The lease is over, the lane closed, the journal full, or it cannot be saved: then the entry may
\* be on disk nevertheless.
Refuse(r) ==
    /\ stage[r] = "queued" /\ LockFree
    /\ \/ ~Placed(carried[r]) /\ MayPlace /\ SaveAtHead(carried[r])
       \/ UNCHANGED <<previous, head>>
    /\ Finish(r)
    /\ UNCHANGED <<agent, journal, closer, sent, bucket, acked, receipt>>

\* The object is there with the bytes that were sent, by this request or an earlier one.
Confirmed(e) == bucket[e] = previous[e]

Answer(r) ==
    /\ stage[r] = "put"
    /\ \/ Confirmed(carried[r]) /\ acked' = acked \cup {carried[r]}      \* 202
       \/ UNCHANGED acked                                                \* 503
    /\ Finish(r)
    /\ UNCHANGED <<agent, journal, previous, head, closer, sent, bucket, receipt>>

-----------------------------------------------------------------------------
(* closeArchiveWithBoundaries, after SIGTERM and the collector's exit.  A    *)
(* new request may still get the lock first.                                *)

BeginClose ==
    /\ agent = "up" /\ closer = "none"
    /\ \A r \in Req : stage[r] = "idle"
    /\ closer' = "queued"
    /\ UNCHANGED <<agent, journal, previous, head, stage, carried, sent, bucket, acked, receipt>>

\* The closure is in the journal before it is sent; a later attempt sends the same one.
Close ==
    /\ closer = "queued" /\ LockFree
    /\ \/ Seal \in Journaled /\ UNCHANGED <<previous, head>>
       \/ MayPlace /\ SaveAtHead(Seal)
    /\ closer' = "put"
    /\ sent' = sent \cup {[what |-> Seal, after |-> previous'[Seal]]}
    /\ UNCHANGED <<agent, journal, stage, carried, bucket, acked, receipt>>

\* Stored or not, this process does not try again.
EndClose ==
    /\ closer = "put"
    /\ closer' = "ended"
    /\ UNCHANGED <<agent, journal, previous, head, stage, carried, sent, bucket, acked, receipt>>

-----------------------------------------------------------------------------
(* The bucket: an object is created once (IfNoneMatch), perhaps long after   *)
(* the sender gave up, or the request is lost.                              *)

Create(m) ==
    /\ sent' = sent \ {m}
    /\ bucket' = IF m.what \in Stored THEN bucket ELSE [bucket EXCEPT ![m.what] = m.after]
    /\ UNCHANGED <<agent, journal, previous, head, stage, carried, closer, acked, receipt>>

Lose(m) ==
    /\ sent' = sent \ {m}
    /\ UNCHANGED <<agent, journal, previous, head, stage, carried, closer, bucket, acked, receipt>>

-----------------------------------------------------------------------------
(* The Monitor's replay, one object after the other, in any order.          *)

Accepted == {e \in Envelope : receipt[e] = "ok"}

\* checkArchiveClosure.
ClosureAllows(e) ==
    /\ Seal \notin Accepted
    /\ e = Seal /\ Accepted # {} =>
          /\ bucket[Seal] # Root
          /\ \A f \in Accepted : bucket[f] # bucket[Seal]
          /\ \A f, g \in Accepted : bucket[f] = bucket[g] => f = g

\* A mutant: an envelope is taken before its predecessor.
PredecessorAccepted_Skipped(e) == TRUE

PredecessorAccepted(e) == bucket[e] \in Accepted \cup {Root}

\* scanEntry and retryReady: what is final is not tried again.
Pending(e) == e \in Stored /\ receipt[e] \in {"none", "wait"}

\* Every check passes: facts are committed, then the receipt.  After a crash in between, the replay
\* finds the facts there and repeats the receipt.
Accept(e) ==
    /\ Pending(e) /\ ClosureAllows(e) /\ PredecessorAccepted(e)
    /\ receipt' = [receipt EXCEPT ![e] = "ok"]
    /\ UNCHANGED <<task, bucket>>

\* validate refuses it, it conflicts with the closure, or its endpoint refuses it: for good.
Reject(e) ==
    /\ Pending(e)
    /\ receipt' = [receipt EXCEPT ![e] = "refused"]
    /\ UNCHANGED <<task, bucket>>

\* Its predecessor is missing, or something is not available.
Postpone(e) ==
    /\ Pending(e)
    /\ receipt' = [receipt EXCEPT ![e] = "wait"]
    /\ UNCHANGED <<task, bucket>>

Next ==
    \/ Start \/ WriteJournal \/ End
    \/ \E r \in Req : \/ \E b \in Batch : Receive(r, b)
                      \/ Freeze(r) \/ Refuse(r) \/ Answer(r)
    \/ BeginClose \/ Close \/ EndClose
    \/ \E m \in sent : Create(m) \/ Lose(m)
    \/ \E e \in Envelope : Accept(e) \/ Reject(e) \/ Postpone(e)

Spec == Init /\ [][Next]_vars

-----------------------------------------------------------------------------
(* Properties.                                                              *)

\* A chain the Monitor reports as closed is complete: every batch that the agent acknowledged, and
\* every batch that reached the bucket, was accepted before the closure, and none comes after it.
ClosureCoversAcks ==
    Seal \in Accepted => \A b \in Batch : b \in acked \/ b \in Stored => b \in Accepted

\* What is in the bucket can be replayed: no two objects have the same predecessor, and none is its
\* own predecessor over several steps, whatever was sent again, lost, late, or cut off by a crash.
NoFork ==
    /\ \A e, f \in Stored : bucket[e] = bucket[f] => e = f
    /\ \A S \in (SUBSET Stored) \ {{}} : \E e \in S : bucket[e] \notin S

=============================================================================
