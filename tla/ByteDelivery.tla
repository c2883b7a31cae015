---------------------------- MODULE ByteDelivery ----------------------------
(***************************************************************************)
(* What the nginx log pipeline promises, without saying how: every log     *)
(* file is counted in the order it was written, each byte once; the        *)
(* collector forgets how to reread a byte only after Monitor counted it,   *)
(* and Monitor forgets the proof of a count only after the collector's     *)
(* fsynced cursor passed it.  Four watermarks per file, none ever moves    *)
(* back and none overtakes the one before it.                              *)
(***************************************************************************)
EXTENDS Naturals

CONSTANT File

VARIABLES written,   \* bytes nginx appended to the file
          counted,   \* bytes Monitor aggregated
          durable,   \* bytes the fsynced cursor acknowledges
          forgotten  \* bytes whose proof Monitor pruned

vars == <<written, counted, durable, forgotten>>

Init ==
  /\ written = [f \in File |-> 0]
  /\ counted = [f \in File |-> 0]
  /\ durable = [f \in File |-> 0]
  /\ forgotten = [f \in File |-> 0]

Advance(mark, f, limit, mark_) ==
  \E n \in (mark[f] + 1)..limit : mark_ = [mark EXCEPT ![f] = n]

Write(f) ==
  /\ written' = [written EXCEPT ![f] = @ + 1]
  /\ UNCHANGED <<counted, durable, forgotten>>

Count(f) ==
  /\ Advance(counted, f, written[f], counted')
  /\ UNCHANGED <<written, durable, forgotten>>

Acknowledge(f) ==
  /\ Advance(durable, f, counted[f], durable')
  /\ UNCHANGED <<written, counted, forgotten>>

Forget(f) ==
  /\ Advance(forgotten, f, durable[f], forgotten')
  /\ UNCHANGED <<written, counted, durable>>

Next == \E f \in File : Write(f) \/ Count(f) \/ Acknowledge(f) \/ Forget(f)

Spec == Init /\ [][Next]_vars
=============================================================================
