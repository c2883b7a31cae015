------------------------- MODULE MonitorParts_proofs -------------------------
(***************************************************************************)
(* Proofs about small components of the Monitor process, which share no     *)
(* state with each other.  Each is an instance under its own constants and   *)
(* variables, and each has an inductive invariant with the three facts that  *)
(* a user of the component needs: it holds at first, every step keeps it,    *)
(* and it implies what the runs check.                                      *)
(***************************************************************************)
EXTENDS Naturals, Sequences, FiniteSetTheorems, SequenceTheorems, TLAPS

-----------------------------------------------------------------------------
(* The usage result cache: what may be stored is decided by who holds the   *)
(* fill gate of the key.                                                    *)

CONSTANTS Reader, Deleter, MaxVersion, Nobody

VARIABLES source, entry, fresh, gate, flight, pc, kind, value, dpc, from, floor

Cache == INSTANCE ResultCache

CacheConstants ==
    /\ Reader \cap Deleter = {} /\ Nobody \notin Reader \cup Deleter
    /\ MaxVersion \in Nat \ {0}

\* One fill or deletion at a time is past the gate; what a fill has read is no older than what may
\* be stored, and nothing is newer than the source.
CacheInv ==
    /\ Cache!TypeOK
    /\ \A r \in Reader : pc[r] \in {"fill", "store", "leave"} => gate = r
    /\ \A d \in Deleter : dpc[d] = "delete" => gate = d
    /\ \A r \in Reader : value[r] <= source
    /\ \A r \in Reader : pc[r] = "store" => floor <= value[r]
    /\ \A d \in Deleter : from[d] <= source
    /\ floor <= source /\ entry <= source
    /\ Cache!NeverStale

\* The invariant says what the runs check.
LEMMA CacheImplies == CacheInv => Cache!TypeOK /\ Cache!NeverStale
  BY DEF CacheInv

\* An empty cache is stale in nothing.
LEMMA CacheFirst == CacheConstants => (Cache!Init => CacheInv)
  <1> SUFFICES ASSUME CacheConstants, Cache!Init PROVE CacheInv
    OBVIOUS
  <1>1. 0 \in Cache!Versions /\ 1 \in Cache!Versions
    BY DEF CacheConstants, Cache!Versions
  <1>2. Cache!TypeOK
    BY <1>1 DEF Cache!Init, Cache!TypeOK, Cache!Kinds
  <1> QED
    BY <1>2 DEF CacheInv, Cache!Init, Cache!NeverStale

\* Every step of a request or a deletion keeps the invariant.
LEMMA CacheStep == CacheConstants => (CacheInv /\ [Cache!Next]_(Cache!vars) => CacheInv')
  <1> SUFFICES ASSUME CacheConstants, CacheInv, [Cache!Next]_(Cache!vars) PROVE CacheInv'
    OBVIOUS
  <1> USE DEF CacheConstants, CacheInv, Cache!TypeOK, Cache!Versions, Cache!Goes, Cache!deleting,
              Cache!NeverStale
  <1>0. 0 \in 0 .. MaxVersion
    OBVIOUS
  <1>1. ASSUME NEW r \in Reader, Cache!Ask(r) PROVE CacheInv'
    BY <1>1 DEF Cache!Ask
  <1>2. ASSUME NEW r \in Reader, Cache!EnterGate(r) PROVE CacheInv'
    BY <1>2 DEF Cache!EnterGate, Cache!GateOpen
  <1>3. ASSUME NEW r \in Reader, Cache!Abandon(r) PROVE CacheInv'
    BY <1>3 DEF Cache!Abandon
  <1>4. ASSUME NEW r \in Reader, Cache!Fill(r) PROVE CacheInv'
    BY <1>4 DEF Cache!Fill
  <1>5. ASSUME NEW r \in Reader, Cache!Store(r) PROVE CacheInv'
    <2>1. Cache!TypeOK'
      <3>0. value[r] \in 0 .. MaxVersion
        OBVIOUS
      <3>1. floor' \in 0 .. MaxVersion
        BY <1>5, <3>0 DEF Cache!Store, Cache!AtLeast
      <3>2. /\ pc' \in [Reader -> {"idle", "queue", "fill", "store", "leave", "end", "wait"}]
            /\ value' \in [Reader -> 0 .. MaxVersion]
        BY <1>0, <1>5 DEF Cache!Store
      <3> QED
        BY <1>0, <1>5, <3>0, <3>1, <3>2 DEF Cache!Store
    <2> QED
      BY <2>1, <1>5 DEF Cache!Store, Cache!AtLeast
  <1>6. ASSUME NEW r \in Reader, Cache!LeaveGate(r) PROVE CacheInv'
    BY <1>6 DEF Cache!LeaveGate
  <1>7. ASSUME NEW r \in Reader, Cache!EndFlight(r) PROVE CacheInv'
    BY <1>7 DEF Cache!EndFlight
  <1>8. ASSUME NEW r \in Reader, Cache!StopWaiting(r) PROVE CacheInv'
    BY <1>8 DEF Cache!StopWaiting
  <1>9. ASSUME NEW d \in Deleter, Cache!BeginDelete(d) PROVE CacheInv'
    <2>1. Cache!TypeOK'
      BY <1>0, <1>9 DEF Cache!BeginDelete
    <2> QED
      BY <2>1, <1>9 DEF Cache!BeginDelete
  <1>10. ASSUME NEW d \in Deleter, Cache!EnterDelete(d) PROVE CacheInv'
    BY <1>10 DEF Cache!EnterDelete, Cache!GateOpen
  <1>11. ASSUME NEW d \in Deleter, Cache!DeleteAgain(d) PROVE CacheInv'
    <2>1. Cache!TypeOK'
      BY <1>0, <1>11 DEF Cache!DeleteAgain, Cache!AtLeast
    <2> QED
      BY <2>1, <1>11 DEF Cache!DeleteAgain, Cache!AtLeast
  <1>12. ASSUME NEW d \in Deleter, Cache!GiveUpDelete(d) PROVE CacheInv'
    BY <1>12 DEF Cache!GiveUpDelete
  <1>13. CASE Cache!Expire
    BY <1>13 DEF Cache!Expire
  <1>14. CASE Cache!Evict
    <2>1. Cache!TypeOK'
      BY <1>0, <1>14 DEF Cache!Evict
    <2> QED
      BY <2>1, <1>14 DEF Cache!Evict
  <1>15. CASE Cache!Change
    BY <1>15 DEF Cache!Change
  <1>16. CASE UNCHANGED Cache!vars
    BY <1>16 DEF Cache!vars
  <1> QED
    BY <1>1, <1>2, <1>3, <1>4, <1>5, <1>6, <1>7, <1>8, <1>9, <1>10, <1>11, <1>12, <1>13, <1>14,
       <1>15, <1>16 DEF Cache!Next

\* Nothing stale is stored after a deletion or a newer fill, for any number of requests, deletions
\* and changes of the source (usageResultCache.Delete, loadOrFill).
THEOREM CacheNeverStale == CacheConstants => (Cache!Spec => []Cache!NeverStale)
  <1> SUFFICES ASSUME CacheConstants PROVE Cache!Spec => []Cache!NeverStale
    OBVIOUS
  <1> QED
    BY CacheFirst, CacheStep, CacheImplies, PTL DEF Cache!Spec

-----------------------------------------------------------------------------
(* The account of an upstream: what an operation knows of its token, from   *)
(* the gate to the row it saves.                                            *)

CONSTANTS Op, NoOp, MaxToken

VARIABLES valid, issued, stored, isolated, holder, op, wanted, harm

Account == INSTANCE UpstreamAccount

AccountConstants == NoOp \notin Op /\ MaxToken \in Nat \ {0}

Waiting == {"try", "wait"}
Unread == {"try", "wait", "took", "load"}
Renewed == {"keep", "query", "settle", "save"}
Inside == {"took", "load", "refresh"} \cup Renewed
Read == {"refresh"} \cup Renewed

\* Whoever is past the gate holds it.
GateHeld == \A o \in Op : holder = o <=> op[o].at \in Inside

\* An operation that has read the row, or was given a token, knows one.
Knows(o) == op[o].at \in Read \/ (op[o].at # "idle" /\ op[o].import)

\* A token that an administrator brought is known to nobody else before it is saved.
Imported(o) ==
    op[o].at # "idle" /\ op[o].import =>
        /\ op[o].lane = "account"
        /\ op[o].token # stored.token
        /\ \A q \in Op : q # o /\ Knows(q) => op[q].token # op[o].token
        /\ op[o].at \notin Renewed => op[o].token \in valid
        /\ op[o].at \in Renewed => op[o].fresh

\* What an operation has at each of its stages.
Staged(o) ==
    /\ op[o].at # "idle" => op[o].token <= issued
    /\ op[o].at \in Unread => op[o].result = "ok"
    /\ op[o].at \in Unread \cup {"refresh"} => ~op[o].fresh
    /\ op[o].at \in Renewed /\ op[o].fresh => op[o].token \in valid
    /\ op[o].at \in {"settle", "save"} => op[o].lane # "funds"
    /\ op[o].at = "keep" => op[o].lane = "funds" /\ op[o].fresh
    /\ op[o].at \notin {"idle", "save"} => op[o].ctx # "detached"

\* What its copy of the row still says of the row.
Copied(o) ==
    op[o].at \in Read =>
        /\ op[o].row.enabled = stored.enabled
        /\ op[o].lane \in {"balance", "usage"} => op[o].row = stored
        /\ ~op[o].import /\ ~op[o].fresh => op[o].token = stored.token
        /\ op[o].lane = "funds" /\ op[o].at = "query" => op[o].token = stored.token

\* The stored token is a consumed one only while the operation that renewed it goes on to save.
WillSave(o) ==
    /\ op[o].at \in Renewed /\ op[o].fresh /\ ~op[o].import
    /\ op[o].ctx # "canceled"
    /\ op[o].ctx = "expired" => op[o].lane \notin {"funds", "account"} /\ op[o].at # "save"

Unharmed ==
    /\ isolated = {}
    /\ Account!AtStake => holder # NoOp /\ WillSave(holder)
    /\ \A o \in Op : op[o].at # "idle" => op[o].result # "refused"

AccountInv ==
    /\ Account!TypeOK
    /\ stored.enabled = wanted
    /\ stored.token <= issued /\ \A t \in valid : t <= issued
    /\ GateHeld
    /\ \A o \in Op : Imported(o) /\ Staged(o) /\ Copied(o)
    /\ ~harm => Unharmed

\* The invariant says what the runs check.
LEMMA AccountImplies == AccountInv => Account!TypeOK /\ Account!AccountKept
  BY DEF AccountInv, Unharmed, WillSave, Staged, Account!AccountKept, Account!AtStake, Account!TypeOK

\* An account nobody has touched is kept.
LEMMA AccountFirst == AccountConstants => (Account!Init => AccountInv)
  <1> SUFFICES ASSUME AccountConstants, Account!Init PROVE AccountInv
    OBVIOUS
  <1>1. 1 \in Account!Token
    BY DEF AccountConstants, Account!Token
  <1>2. \A o \in Op : op[o] = Account!None /\ op[o].at = "idle"
    BY DEF Account!Init, Account!None
  <1>3. Account!TypeOK
    BY <1>1, <1>2 DEF Account!Init, Account!TypeOK
  <1>4. GateHeld
    BY <1>2 DEF GateHeld, Inside, Renewed, AccountConstants, Account!Init
  <1>5. \A o \in Op : Imported(o) /\ Staged(o) /\ Copied(o)
    BY <1>2 DEF Imported, Staged, Copied, Unread, Renewed, Read
  <1>6. Unharmed
    BY <1>2 DEF Unharmed, Account!AtStake, Account!Init
  <1> QED
    BY <1>3, <1>4, <1>5, <1>6 DEF AccountInv, Account!Init

\* An operation in progress is a record of its own; an idle one is none.
LEMMA OpShape ==
  ASSUME Account!TypeOK, NEW o \in Op
  PROVE  \/ op[o] = Account!None /\ op[o].at = "idle"
         \/ op[o] \in Account!Operation /\ op[o] # Account!None /\ op[o].at # "idle"
  BY DEF Account!TypeOK, Account!None, Account!Operation

\* A step of one operation.
LEMMA OneOp ==
  ASSUME Account!TypeOK, NEW o \in Op, NEW p \in Account!Operation \cup {Account!None},
         op' = [op EXCEPT ![o] = p]
  PROVE  /\ op' \in [Op -> Account!Operation \cup {Account!None}]
         /\ op'[o] = p /\ \A q \in Op : q # o => op'[q] = op[q]
  BY DEF Account!TypeOK

\* A step of one operation that touches neither the row nor the tokens.
LEMMA OpStep ==
  ASSUME AccountConstants, AccountInv, NEW o \in Op,
         NEW p \in Account!Operation \cup {Account!None}, op' = [op EXCEPT ![o] = p],
         UNCHANGED <<valid, issued, stored, wanted>>,
         isolated' \subseteq Account!Lane, harm' \in BOOLEAN,
         \/ holder' = holder /\ (p.at \in Inside <=> op[o].at \in Inside)
         \/ holder = NoOp /\ holder' = o /\ p.at \in Inside
         \/ op[o].at \in Inside /\ holder' = NoOp /\ p.at \notin Inside,
         Knows(o)' => p.token = stored.token \/ (Knows(o) /\ p.token = op[o].token),
         Imported(o)', Staged(o)', Copied(o)',
         ~harm' => /\ ~harm /\ isolated' = isolated
                   /\ p.at # "idle" => p.result # "refused"
                   /\ Account!AtStake => holder' # NoOp /\ (holder' = o => WillSave(o)')
  PROVE  AccountInv'
  <1>1. /\ op' \in [Op -> Account!Operation \cup {Account!None}]
        /\ op'[o] = p /\ \A q \in Op : q # o => op'[q] = op[q]
    BY OneOp DEF AccountInv
  <1>2. Account!TypeOK'
    BY <1>1 DEF AccountInv, Account!TypeOK
  <1>3. GateHeld'
    BY <1>1 DEF AccountInv, GateHeld, AccountConstants
  <1>4. ASSUME NEW q \in Op, q # o PROVE Imported(q)' /\ Staged(q)' /\ Copied(q)'
    <2>1. Imported(q) /\ Staged(q) /\ Copied(q) /\ op'[q] = op[q]
      BY <1>1, <1>4 DEF AccountInv
    <2>2. \A r \in Op : r # o => (Knows(r)' <=> Knows(r))
      BY <1>1 DEF Knows
    <2>3. Imported(q)'
      BY <1>1, <1>4, <2>1, <2>2 DEF Imported
    <2>4. Staged(q)' /\ Copied(q)'
      BY <2>1 DEF Staged, Copied
    <2> QED
      BY <2>3, <2>4
  <1>5. ~harm' => Unharmed'
    <2> SUFFICES ASSUME ~harm' PROVE Unharmed'
      OBVIOUS
    <2>1. Unharmed
      BY DEF AccountInv
    <2>2. Account!AtStake' <=> Account!AtStake
      BY DEF Account!AtStake
    <2>3. Account!AtStake => holder' # NoOp /\ WillSave(holder)'
      <3> SUFFICES ASSUME Account!AtStake PROVE holder' # NoOp /\ WillSave(holder)'
        OBVIOUS
      <3>1. CASE holder' = o
        BY <3>1 DEF WillSave
      <3>2. CASE holder' # o
        <4>1. holder' = holder /\ holder # NoOp /\ holder \in Op /\ WillSave(holder)
          BY <2>1, <3>2 DEF Unharmed, AccountInv, Account!TypeOK
        <4> QED
          BY <1>1, <3>2, <4>1 DEF WillSave
      <3> QED
        BY <3>1, <3>2
    <2> QED
      BY <1>1, <2>1, <2>2, <2>3 DEF Unharmed
  <1> QED
    BY <1>2, <1>3, <1>4, <1>5 DEF AccountInv

\* An operation asks for the account, or for its turn behind the others.
LEMMA StartStep ==
  ASSUME AccountConstants, AccountInv, NEW o \in Op, NEW lane \in Account!Lane,
         Account!StartBackground(o, lane) \/ Account!StartAdmin(o, lane)
  PROVE  AccountInv'
  <1>1. PICK stage \in {"try", "wait"} : op' = [op EXCEPT ![o] = Account!New(stage, lane)]
    BY DEF Account!StartBackground, Account!StartAdmin
  <1> DEFINE p == Account!New(stage, lane)
  <1>2. /\ p \in Account!Operation /\ p.at = stage /\ p.result = "ok" /\ ~p.import /\ ~p.fresh
        /\ p.token = stored.token /\ p.ctx = "live"
    BY DEF Account!New, Account!Operation, AccountInv, Account!TypeOK, Account!Token
  <1>3. /\ UNCHANGED <<valid, issued, stored, isolated, holder, wanted, harm>> /\ op[o].at = "idle"
    BY OpShape DEF Account!StartBackground, Account!StartAdmin, Account!provider, Account!row,
                   Account!ghosts, Account!None
  <1> HIDE DEF p
  <1>4. op'[o] = p
    BY <1>1, <1>2, OneOp DEF AccountInv, p
  <1>5. Imported(o)' /\ Staged(o)' /\ Copied(o)'
    BY <1>2, <1>3, <1>4 DEF Imported, Staged, Copied, Unread, Renewed, Read, AccountInv
  <1>6. ~Knows(o)'
    BY <1>2, <1>4 DEF Knows, Read, Renewed
  <1>7. p.at \notin Inside /\ op[o].at \notin Inside
    BY <1>2, <1>3 DEF Inside, Renewed
  <1>8. Account!AtStake /\ ~harm => holder # NoOp /\ holder # o
    BY <1>7 DEF AccountInv, Unharmed, GateHeld
  <1> QED
    BY <1>1, <1>2, <1>3, <1>5, <1>6, <1>7, <1>8, OpStep DEF AccountInv, Account!TypeOK, p

\* An administrator's save, which may bring the token of a new session.
LEMMA StartSaveStep ==
  ASSUME AccountConstants, AccountInv, NEW o \in Op, NEW import \in BOOLEAN, NEW enable \in BOOLEAN,
         Account!StartSave(o, import, enable)
  PROVE  AccountInv'
  <1> DEFINE p == [Account!New("wait", "account") EXCEPT
                      !.import = import, !.enable = enable, !.token = issued']
  <1>1. /\ issued' = IF import THEN issued + 1 ELSE issued
        /\ valid' = IF import THEN valid \cup {issued + 1} ELSE valid
        /\ op' = [op EXCEPT ![o] = p] /\ issued' \in Account!Token /\ issued \in Nat
    BY DEF Account!StartSave, AccountInv, Account!TypeOK, Account!Token, AccountConstants
  <1>2. /\ UNCHANGED <<stored, isolated, holder, wanted, harm>> /\ op[o].at = "idle"
    BY OpShape DEF Account!StartSave, Account!row, Account!ghosts, Account!None
  <1>3. /\ p \in Account!Operation /\ p.at = "wait" /\ p.result = "ok" /\ p.import = import
        /\ ~p.fresh /\ p.token = issued' /\ p.ctx = "live" /\ p.lane = "account"
    BY <1>1 DEF Account!New, Account!Operation, AccountInv, Account!TypeOK
  <1> HIDE DEF p
  <1>4. /\ op' \in [Op -> Account!Operation \cup {Account!None}]
        /\ op'[o] = p /\ \A q \in Op : q # o => op'[q] = op[q]
    BY <1>1, <1>3, OneOp DEF AccountInv
  <1>5. Account!TypeOK'
    BY <1>1, <1>2, <1>4 DEF AccountInv, Account!TypeOK
  <1>6. GateHeld'
    BY <1>2, <1>3, <1>4 DEF AccountInv, GateHeld, Inside, Renewed
  <1>7. /\ stored.token \in Nat /\ stored.token <= issued
        /\ \A q \in Op : op[q].at # "idle" => op[q].token \in Nat /\ op[q].token <= issued
    <2>1. \A q \in Op : op[q].at # "idle" => op[q] \in Account!Operation
      BY OpShape DEF AccountInv
    <2> QED
      BY <2>1 DEF AccountInv, Staged, Account!TypeOK, Account!Operation, Account!Token
  <1>8. Imported(o)' /\ Staged(o)' /\ Copied(o)'
    <2>1. Staged(o)' /\ Copied(o)'
      BY <1>1, <1>3, <1>4 DEF Staged, Copied, Unread, Renewed, Read
    <2>2. ASSUME import PROVE Imported(o)'
      BY <1>1, <1>2, <1>3, <1>4, <1>7, <2>2 DEF Imported, Renewed, Knows, Read
    <2> QED
      BY <1>3, <1>4, <2>1, <2>2 DEF Imported
  <1>9. ASSUME NEW q \in Op, q # o PROVE Imported(q)' /\ Staged(q)' /\ Copied(q)'
    <2>1. Imported(q) /\ Staged(q) /\ Copied(q) /\ op'[q] = op[q] /\ valid \subseteq valid'
      BY <1>1, <1>4, <1>9 DEF AccountInv
    <2>2. Knows(o)' => op'[o].token = issued + 1
      BY <1>1, <1>3, <1>4 DEF Knows, Read, Renewed
    <2>3. \A r \in Op : r # o => (Knows(r)' <=> Knows(r))
      BY <1>4 DEF Knows
    <2>4. op[q].at # "idle" => op[q].token # issued + 1
      BY <1>1, <1>7
    <2>5. Imported(q)'
      BY <1>2, <1>4, <1>9, <2>1, <2>2, <2>3, <2>4 DEF Imported
    <2>6. Staged(q)' /\ Copied(q)'
      BY <1>1, <1>2, <1>7, <2>1 DEF Staged, Copied
    <2> QED
      BY <2>5, <2>6
  <1>10. ~harm' => Unharmed'
    <2> SUFFICES ASSUME ~harm' PROVE Unharmed'
      OBVIOUS
    <2>1. Unharmed
      BY <1>2 DEF AccountInv
    <2>2. Account!AtStake' => Account!AtStake
      BY <1>1, <1>2 DEF Account!AtStake
    <2>3. Account!AtStake => holder # NoOp /\ holder # o /\ holder \in Op /\ WillSave(holder)
      BY <1>2, <2>1 DEF Unharmed, WillSave, Renewed, AccountInv, Account!TypeOK
    <2>4. Account!AtStake => holder' # NoOp /\ WillSave(holder)'
      BY <1>2, <1>4, <2>3 DEF WillSave
    <2>5. \A q \in Op : op'[q].at # "idle" => op'[q].result # "refused"
      BY <1>3, <1>4, <2>1 DEF Unharmed
    <2> QED
      BY <1>2, <2>1, <2>2, <2>4, <2>5 DEF Unharmed
  <1>11. (stored.enabled = wanted)' /\ (stored.token <= issued)' /\ (\A t \in valid : t <= issued)'
    <2>1. \A t \in valid : t \in Nat /\ t <= issued
      BY DEF AccountInv, Account!TypeOK, Account!Token
    <2> QED
      BY <1>1, <1>2, <1>7, <2>1 DEF AccountInv
  <1> QED
    BY <1>5, <1>6, <1>8, <1>9, <1>10, <1>11 DEF AccountInv

\* What an operation has while it stands at the gate; giving it up costs nothing.
LEMMA GateStep ==
  ASSUME AccountConstants, AccountInv, NEW o \in Op,
         Account!TryTake(o) \/ Account!LookAgain(o) \/ Account!AdminTakes(o) \/ Account!AdminLeaves(o)
  PROVE  AccountInv'
  <1>1. UNCHANGED <<valid, issued, stored, isolated, wanted, harm>>
    BY DEF Account!TryTake, Account!LookAgain, Account!AdminTakes, Account!AdminLeaves,
           Account!provider, Account!row, Account!ghosts
  <1>2. op[o].at \in {"try", "took", "wait"} /\ op[o] \in Account!Operation
    BY OpShape DEF Account!TryTake, Account!LookAgain, Account!AdminTakes, Account!AdminLeaves, AccountInv
  <1>3. Account!AtStake /\ ~harm => holder # NoOp /\ holder # o
    BY <1>2 DEF AccountInv, Unharmed, WillSave, Renewed
  <1>4. /\ Imported(o) /\ Staged(o) /\ (~harm => isolated = {} /\ op[o].result # "refused")
        /\ isolated \subseteq Account!Lane /\ harm \in BOOLEAN
    BY <1>2 DEF AccountInv, Account!TypeOK, Unharmed
  <1>5. ASSUME op' = [op EXCEPT ![o] = Account!None],
               \/ holder' = holder /\ op[o].at \in {"try", "wait"}
               \/ holder' = NoOp /\ op[o].at = "took"
        PROVE  AccountInv'
    <2>1. op'[o] = Account!None /\ Account!None.at = "idle"
      BY <1>5, OneOp DEF AccountInv, Account!None
    <2>2. Imported(o)' /\ Staged(o)' /\ Copied(o)' /\ ~Knows(o)'
      BY <2>1 DEF Imported, Staged, Copied, Knows, Unread, Renewed, Read
    <2>3. Account!None.at \notin Inside /\ (op[o].at \in Inside <=> op[o].at = "took")
      BY <1>2, <2>1 DEF Inside, Renewed
    <2>4. Account!AtStake /\ ~harm => holder' # NoOp /\ holder' # o
      BY <1>2, <1>3, <1>5, <2>3 DEF AccountInv, GateHeld
    <2> QED
      BY <1>1, <1>4, <1>5, <2>1, <2>2, <2>3, <2>4, OpStep
  <1>6. ASSUME NEW s \in {"took", "load"}, op' = [op EXCEPT ![o].at = s],
               \/ holder = NoOp /\ holder' = o
               \/ holder' = holder /\ op[o].at = "took"
        PROVE  AccountInv'
    <2> DEFINE p == [op[o] EXCEPT !.at = s]
    <2>1. /\ p \in Account!Operation /\ p.at = s /\ p.token = op[o].token /\ p.import = op[o].import
          /\ p.lane = op[o].lane /\ p.result = op[o].result /\ p.fresh = op[o].fresh /\ p.ctx = op[o].ctx
      BY <1>2 DEF Account!Operation
    <2>2. op' = [op EXCEPT ![o] = p]
      BY <1>6
    <2> HIDE DEF p
    <2>3. op'[o] = p /\ \A q \in Op : q # o => op'[q] = op[q]
      BY <2>1, <2>2, OneOp DEF AccountInv
    <2>4. Staged(o)' /\ Copied(o)'
      BY <1>1, <1>2, <1>4, <2>1, <2>3 DEF Staged, Copied, Unread, Renewed, Read
    <2>5. Imported(o)' /\ (Knows(o)' <=> Knows(o))
      BY <1>1, <1>2, <1>4, <2>1, <2>3 DEF Imported, Knows, Renewed, Read
    <2>6. s \in Inside /\ (op[o].at \in Inside <=> op[o].at = "took")
      BY <1>2 DEF Inside, Renewed
    <2>7. Account!AtStake /\ ~harm => holder' # NoOp /\ holder' # o
      BY <1>2, <1>3, <1>6, <2>6 DEF AccountInv, GateHeld
    <2> QED
      BY <1>1, <1>4, <1>6, <2>1, <2>2, <2>4, <2>5, <2>6, <2>7, OpStep
  <1>7. CASE Account!TryTake(o)
    BY <1>5, <1>6, <1>7 DEF Account!TryTake, Account!Goes
  <1>8. CASE Account!LookAgain(o)
    BY <1>5, <1>6, <1>8 DEF Account!LookAgain, Account!Goes, Account!Ends
  <1>9. CASE Account!AdminTakes(o)
    BY <1>5, <1>6, <1>9 DEF Account!AdminTakes, Account!Goes
  <1>10. CASE Account!AdminLeaves(o)
    BY <1>5, <1>10 DEF Account!AdminLeaves
  <1> QED
    BY <1>7, <1>8, <1>9, <1>10

\* Whoever is past the gate may leave it when the stored token is one the provider accepts.
LEMMA LeaveStep ==
  ASSUME AccountConstants, AccountInv, NEW o \in Op, op[o].at \in Inside, Account!Ends(o),
         UNCHANGED <<valid, issued, stored, wanted>>,
         isolated' \subseteq Account!Lane, harm' \in BOOLEAN,
         ~harm' => ~harm /\ isolated' = isolated /\ ~Account!AtStake
  PROVE  AccountInv'
  <1>1. op' = [op EXCEPT ![o] = Account!None] /\ holder' = NoOp
    BY DEF Account!Ends
  <1>2. op'[o] = Account!None /\ Account!None.at = "idle"
    BY <1>1, OneOp DEF AccountInv, Account!None
  <1>3. Imported(o)' /\ Staged(o)' /\ Copied(o)' /\ ~Knows(o)'
    BY <1>2 DEF Imported, Staged, Copied, Knows, Unread, Renewed, Read
  <1>4. Account!None.at \notin Inside
    BY <1>2 DEF Inside, Renewed
  <1> QED
    BY <1>1, <1>2, <1>3, <1>4, OpStep

\* The row is read under the gate.
LEMMA LoadStep ==
  ASSUME AccountConstants, AccountInv, NEW o \in Op, Account!Load(o)
  PROVE  AccountInv'
  <1>1. /\ op[o].at = "load" /\ UNCHANGED <<valid, issued, stored, isolated, wanted, harm>>
        /\ op[o] \in Account!Operation
    BY OpShape DEF Account!Load, Account!provider, Account!row, Account!ghosts, AccountInv
  <1>2. /\ Imported(o) /\ Staged(o) /\ (~harm => isolated = {} /\ op[o].result # "refused")
        /\ isolated \subseteq Account!Lane /\ harm \in BOOLEAN
        /\ stored \in [token : Account!Token, enabled : BOOLEAN] /\ stored.token <= issued
    BY <1>1 DEF AccountInv, Account!TypeOK, Unharmed
  <1>3. op[o].at \in Inside /\ holder = o
    BY <1>1 DEF Inside, AccountInv, GateHeld
  <1>4. ~harm => ~Account!AtStake
    BY <1>1, <1>3 DEF AccountInv, Unharmed, WillSave, Renewed
  <1>5. CASE Account!Ends(o)
    BY <1>1, <1>2, <1>3, <1>4, <1>5, LeaveStep
  <1> DEFINE q == [op[o] EXCEPT !.row = stored,
                                !.token = IF op[o].import THEN @ ELSE stored.token]
             p(s) == [q EXCEPT !.at = s]
  <1>6. ASSUME NEW s \in {"refresh", "query", "settle"}, op' = [op EXCEPT ![o] = p(s)],
               holder' = holder, op[o].lane # "account" => s \in {"refresh", "query"},
               op[o].import => s = "refresh"
        PROVE  AccountInv'
    <2> DEFINE r == p(s)
    <2>0. /\ q \in Account!Operation /\ q.row = stored /\ q.import = op[o].import
          /\ q.token = (IF op[o].import THEN op[o].token ELSE stored.token)
          /\ q.lane = op[o].lane /\ q.result = op[o].result /\ q.fresh = op[o].fresh
          /\ q.ctx = op[o].ctx
      BY <1>1, <1>2 DEF Account!Operation
    <2> HIDE DEF q
    <2>1. /\ r \in Account!Operation /\ r.at = s /\ r.row = stored /\ r.import = op[o].import
          /\ r.token = (IF op[o].import THEN op[o].token ELSE stored.token)
          /\ r.lane = op[o].lane /\ r.result = op[o].result /\ r.fresh = op[o].fresh
          /\ r.ctx = op[o].ctx
      BY <2>0 DEF Account!Operation
    <2>2. op' = [op EXCEPT ![o] = r]
      BY <1>6
    <2> HIDE DEF r
    <2>3. op'[o] = r /\ \A x \in Op : x # o => op'[x] = op[x]
      BY <2>1, <2>2, OneOp DEF AccountInv
    <2>4. Staged(o)'
      BY <1>1, <1>2, <1>6, <2>1, <2>3 DEF Staged, Unread, Renewed
    <2>5. Copied(o)'
      BY <1>1, <1>2, <1>6, <2>1, <2>3 DEF Copied, Read, Renewed
    <2>6. Imported(o)'
      <3>1. \A x \in Op : x # o => (Knows(x)' <=> Knows(x))
        BY <2>3 DEF Knows
      <3>2. op[o].import => r.token = op[o].token /\ s = "refresh"
        BY <1>6, <2>1
      <3>3. op[o].import => /\ op[o].lane = "account" /\ op[o].token # stored.token
                            /\ op[o].token \in valid
                            /\ \A x \in Op : x # o /\ Knows(x) => op[x].token # op[o].token
        BY <1>1, <1>2 DEF Imported, Renewed
      <3>4. r.import => r.at \notin Renewed
        BY <2>1, <3>2 DEF Renewed
      <3> QED
        BY <1>1, <2>1, <2>3, <3>1, <3>2, <3>3, <3>4 DEF Imported
    <2>7. Knows(o)' => r.token = stored.token \/ (Knows(o) /\ r.token = op[o].token)
      BY <1>1, <2>1 DEF Knows
    <2>8. s \in Inside
      BY DEF Inside, Renewed
    <2> QED
      BY <1>1, <1>2, <1>3, <1>4, <1>6, <2>1, <2>2, <2>4, <2>5, <2>6, <2>7, <2>8, OpStep
  <1>7. ASSUME ~Account!Ends(o)
        PROVE  \E s \in {"refresh", "query", "settle"} :
                  /\ op' = [op EXCEPT ![o] = p(s)] /\ holder' = holder
                  /\ op[o].lane # "account" => s \in {"refresh", "query"}
                  /\ op[o].import => s = "refresh"
    <2>1. CASE op[o].lane # "account"
      <3>1. ~op[o].import
        BY <1>1, <1>2, <2>1 DEF Imported
      <3> QED
        BY <1>7, <2>1, <3>1 DEF Account!Load
    <2>2. CASE op[o].lane = "account" /\ op[o].import
      BY <1>7, <2>2 DEF Account!Load
    <2>3. CASE op[o].lane = "account" /\ ~op[o].import /\ op[o].enable
      BY <1>7, <2>3 DEF Account!Load
    <2>4. CASE op[o].lane = "account" /\ ~op[o].import /\ ~op[o].enable
      BY <1>7, <2>4 DEF Account!Load
    <2> QED
      BY <1>1, <2>1, <2>2, <2>3, <2>4 DEF Account!Operation
  <1> HIDE DEF p, q
  <1> QED
    BY <1>5, <1>6, <1>7

\* An operation goes on with the token and the copy of the row that it has.
LEMMA GoesOn ==
  ASSUME AccountConstants, AccountInv, NEW o \in Op, op[o].at # "idle",
         NEW p \in Account!Operation, op' = [op EXCEPT ![o] = p],
         p.lane = op[o].lane, p.row = op[o].row, p.token = op[o].token, p.fresh = op[o].fresh,
         p.import = op[o].import,
         \/ p.at = op[o].at /\ p.result = op[o].result
         \/ op[o].at \in Read /\ p.at \in {"refresh", "settle", "save"},
         p.at = "refresh" => ~p.fresh,
         p.at \in {"settle", "save"} => p.lane # "funds" /\ (p.import => p.fresh),
         p.ctx = "detached" => p.at = "save",
         UNCHANGED <<valid, issued, stored, wanted, holder>>,
         isolated' \subseteq Account!Lane, harm' \in BOOLEAN,
         ~harm' => /\ ~harm /\ isolated' = isolated /\ p.result # "refused"
                   /\ Account!AtStake /\ holder = o =>
                         /\ p.at # "refresh" /\ p.ctx # "canceled"
                         /\ p.ctx = "expired" => p.lane \notin {"funds", "account"} /\ p.at # "save"
  PROVE  AccountInv'
  <1>1. op'[o] = p /\ \A q \in Op : q # o => op'[q] = op[q]
    BY OneOp DEF AccountInv
  <1>2. Imported(o) /\ Staged(o) /\ Copied(o) /\ op[o] \in Account!Operation
    BY OpShape DEF AccountInv
  <1>3. /\ p.at \in Inside <=> op[o].at \in Inside
        /\ p.at \in Read <=> op[o].at \in Read
        /\ p.at # "idle"
    BY DEF Inside, Read, Renewed
  <1>4. Staged(o)'
    BY <1>1, <1>2, <1>3 DEF Staged, Unread, Read, Renewed
  <1>5. Copied(o)'
    BY <1>1, <1>2, <1>3 DEF Copied
  <1>6. Imported(o)' /\ (Knows(o)' <=> Knows(o))
    <2>1. \A q \in Op : Knows(q)' <=> Knows(q)
      BY <1>1, <1>3 DEF Knows
    <2>2. p.import => /\ p.at \notin Renewed => op[o].at \notin Renewed
                      /\ p.at \in Renewed => p.fresh
      BY <1>2 DEF Imported, Renewed, Read
    <2>3. Imported(o)'
      BY <1>1, <1>2, <1>3, <2>1, <2>2 DEF Imported
    <2> QED
      BY <2>1, <2>3
  <1>7. ~harm' /\ Account!AtStake => holder # NoOp /\ (holder = o => WillSave(o)')
    <2> SUFFICES ASSUME ~harm', Account!AtStake PROVE holder # NoOp /\ (holder = o => WillSave(o)')
      OBVIOUS
    <2>1. holder # NoOp /\ WillSave(holder)
      BY DEF AccountInv, Unharmed
    <2>2. ASSUME holder = o PROVE WillSave(o)'
      <3>1. p.at \in Renewed
        BY <2>1, <2>2, <1>3 DEF WillSave, Read, Renewed
      <3> QED
        BY <1>1, <2>1, <2>2, <3>1 DEF WillSave
    <2> QED
      BY <2>1, <2>2
  <1> QED
    BY <1>1, <1>3, <1>4, <1>5, <1>6, <1>7, OpStep

\* A context that ends, a save that begins.
LEMMA ContextStep ==
  ASSUME AccountConstants, AccountInv, NEW o \in Op,
         Account!Settle(o) \/ Account!Cancel(o) \/ Account!Expire(o)
  PROVE  AccountInv'
  <1>1. /\ op[o] \in Account!Operation /\ op[o].at # "idle"
        /\ UNCHANGED <<valid, issued, stored, isolated, holder, wanted>>
        /\ isolated \subseteq Account!Lane /\ harm \in BOOLEAN
    BY OpShape DEF Account!Settle, Account!Cancel, Account!Expire, AccountInv, Account!TypeOK,
                   Account!provider, Account!row, Account!ghosts
  <1>2. Staged(o) /\ Imported(o) /\ (~harm => op[o].result # "refused")
    BY <1>1 DEF AccountInv, Unharmed
  <1>3. ~harm /\ Account!AtStake /\ holder = o => WillSave(o)
    BY DEF AccountInv, Unharmed
  <1>4. CASE Account!Settle(o)
    <2> DEFINE c == Account!CommitContext(op[o])
               p == [op[o] EXCEPT !.at = "save", !.ctx = c]
    <2>1. /\ op[o].at = "settle" /\ op' = [op EXCEPT ![o] = p] /\ harm' = harm
          /\ c = "expired" => op[o].ctx = "expired" /\ op[o].lane = "account"
          /\ c = "canceled" => op[o].ctx = "canceled"
          /\ c \in {"live", "expired", "canceled", "detached"}
      BY <1>1, <1>4 DEF Account!Settle, Account!CommitContext, Account!ghosts, Account!Operation
    <2> HIDE DEF c
    <2>2. /\ p \in Account!Operation /\ p.at = "save" /\ p.ctx = c /\ p.lane = op[o].lane
          /\ p.row = op[o].row /\ p.token = op[o].token /\ p.fresh = op[o].fresh
          /\ p.import = op[o].import /\ p.result = op[o].result
      BY <1>1, <2>1 DEF Account!Operation
    <2> HIDE DEF p
    <2>3. p.lane # "funds" /\ (p.import => p.fresh)
      BY <1>2, <2>1, <2>2 DEF Staged, Imported, Renewed
    <2>4. ~harm' /\ Account!AtStake /\ holder = o => p.ctx \notin {"canceled", "expired"}
      BY <1>3, <2>1, <2>2 DEF WillSave
    <2> QED
      BY <1>1, <1>2, <2>1, <2>2, <2>3, <2>4, GoesOn DEF Read, Renewed
  <1>5. ASSUME NEW c \in {"canceled", "expired"}, op' = [op EXCEPT ![o].ctx = c],
               harm' \in BOOLEAN,
               ~harm' => /\ ~harm
                         /\ Account!AtStake /\ holder = o =>
                               c = "expired" /\ op[o].lane \notin {"funds", "account"} /\ op[o].at # "save"
        PROVE  AccountInv'
    <2> DEFINE p == [op[o] EXCEPT !.ctx = c]
    <2>1. /\ p \in Account!Operation /\ p.at = op[o].at /\ p.ctx = c /\ p.lane = op[o].lane
          /\ p.row = op[o].row /\ p.token = op[o].token /\ p.fresh = op[o].fresh
          /\ p.import = op[o].import /\ p.result = op[o].result
      BY <1>1 DEF Account!Operation
    <2>2. op' = [op EXCEPT ![o] = p]
      BY <1>5
    <2> HIDE DEF p
    <2>3. /\ p.at = "refresh" => ~p.fresh
          /\ p.at \in {"settle", "save"} => p.lane # "funds" /\ (p.import => p.fresh)
      BY <1>2, <2>1 DEF Staged, Imported, Renewed
    <2>4. ~harm' /\ Account!AtStake /\ holder = o => p.at # "refresh"
      BY <1>3, <1>5, <2>1 DEF WillSave, Renewed
    <2> QED
      BY <1>1, <1>2, <1>5, <2>1, <2>2, <2>3, <2>4, GoesOn
  <1>6. CASE Account!Cancel(o)
    BY <1>1, <1>5, <1>6 DEF Account!Cancel
  <1>7. CASE Account!Expire(o)
    <2>1. ~harm' => ~harm /\ (Account!AtStake /\ holder = o =>
                                op[o].lane \notin {"funds", "account"} /\ op[o].at # "save")
      BY <1>7 DEF Account!Expire
    <2>2. op' = [op EXCEPT ![o].ctx = "expired"] /\ harm' \in BOOLEAN
      BY <1>1, <1>7 DEF Account!Expire
    <2> QED
      BY <1>5, <2>1, <2>2
  <1> QED
    BY <1>4, <1>6, <1>7

\* Only who is past the gate renews a token and writes the row; the others wait and have read nothing.
LEMMA HolderStep ==
  ASSUME AccountConstants, AccountInv, NEW o \in Op, op[o].at \in Read,
         NEW p \in Account!Operation \cup {Account!None}, op' = [op EXCEPT ![o] = p],
         issued' \in Account!Token, issued' \in {issued, issued + 1},
         valid \ {op[o].token} \subseteq valid', valid' \subseteq valid \cup {issued'},
         stored' \in [token : Account!Token, enabled : BOOLEAN],
         stored'.token \in {stored.token, op[o].token},
         wanted' \in BOOLEAN, stored'.enabled = wanted',
         \/ p.at \in Read /\ holder' = holder /\ p.token \in {op[o].token, issued + 1}
         \/ p = Account!None /\ holder' = NoOp,
         Imported(o)', Staged(o)', Copied(o)',
         isolated' \subseteq Account!Lane, harm' \in BOOLEAN,
         ~harm' => /\ isolated' = {}
                   /\ Account!AtStake' => holder' = o /\ WillSave(o)'
                   /\ p.at # "idle" => p.result # "refused"
  PROVE  AccountInv'
  <1>1. /\ op' \in [Op -> Account!Operation \cup {Account!None}]
        /\ op'[o] = p /\ \A q \in Op : q # o => op'[q] = op[q]
    BY OneOp DEF AccountInv
  <1>2. holder = o /\ Account!None.at = "idle"
    BY DEF AccountInv, GateHeld, Inside, Read, Account!None
  <1>3. /\ issued \in Nat /\ issued' \in Nat /\ issued <= issued' /\ stored.token \in Nat
        /\ stored.token <= issued /\ stored'.token \in Nat
        /\ \A t \in valid : t \in Nat /\ t <= issued
    BY DEF AccountInv, Account!TypeOK, Account!Token
  <1>4. ASSUME NEW q \in Op, op[q].at # "idle"
        PROVE  op[q].token \in Nat /\ op[q].token <= issued
    <2>1. op[q] \in Account!Operation
      BY <1>4, OpShape DEF AccountInv
    <2> QED
      BY <1>4, <2>1 DEF AccountInv, Staged, Account!Operation, Account!Token
  <1>5. ASSUME NEW q \in Op, q # o
        PROVE  op[q].at \notin Inside /\ (op[q].at # "idle" => op[q].at \in Unread)
    <2>1. op[q].at \notin Inside
      BY <1>2, <1>5 DEF AccountInv, GateHeld
    <2>2. op[q].at = "idle" \/ op[q] \in Account!Operation
      BY OpShape DEF AccountInv
    <2> QED
      BY <2>1, <2>2 DEF Inside, Unread, Renewed, Account!Operation
  <1>6. Account!TypeOK'
    <2>1. valid' \subseteq Account!Token
      BY DEF AccountInv, Account!TypeOK
    <2> QED
      BY <1>1, <1>2, <2>1 DEF AccountInv, Account!TypeOK
  <1>7. GateHeld'
    BY <1>1, <1>2, <1>5 DEF GateHeld, AccountConstants, Inside, Read, Renewed
  <1>8. ASSUME NEW q \in Op, q # o PROVE Imported(q)' /\ Staged(q)' /\ Copied(q)'
    <2>1. Imported(q) /\ Staged(q) /\ op'[q] = op[q]
      BY <1>1, <1>8 DEF AccountInv
    <2>2. op[q].at \notin Renewed /\ op[q].at \notin Read
      BY <1>5, <1>8 DEF Inside, Read
    <2>3. Staged(q)' /\ Copied(q)'
      BY <1>3, <1>4, <2>1, <2>2 DEF Staged, Copied
    <2>4. ASSUME op[q].at # "idle", op[q].import PROVE Imported(q)'
      <3>1. /\ op[q].token # stored.token /\ op[q].token \in valid
            /\ op[q].token # op[o].token /\ op[q].token # issued + 1
        BY <1>3, <1>4, <1>8, <2>1, <2>2, <2>4 DEF Imported, Knows
      <3>2. op[q].token \in valid' /\ op[q].token # stored'.token
        BY <3>1
      <3>3. Knows(o)' => op'[o].token # op[q].token
        <4>1. Knows(o)' => p # Account!None
          BY <1>1, <1>2 DEF Knows, Read, Renewed
        <4> QED
          BY <1>1, <3>1, <4>1
      <3>4. \A r \in Op : r # o => (Knows(r)' <=> Knows(r))
        BY <1>1 DEF Knows
      <3> QED
        BY <1>1, <2>1, <2>2, <2>4, <3>2, <3>3, <3>4 DEF Imported
    <2> QED
      BY <2>1, <2>3, <2>4 DEF Imported
  <1>9. ~harm' => Unharmed'
    <2>1. \A q \in Op : q # o /\ op[q].at # "idle" => op[q].result # "refused"
      BY <1>5 DEF AccountInv, Staged
    <2> QED
      BY <1>1, <2>1, AccountConstants DEF Unharmed, AccountConstants
  <1>10. /\ (stored.enabled = wanted)' /\ (stored.token <= issued)'
         /\ (\A t \in valid : t <= issued)'
    <2>1. op[o].token <= issued /\ op[o].token \in Nat
      BY <1>4 DEF Read, Renewed
    <2> QED
      BY <1>3, <2>1
  <1> QED
    BY <1>6, <1>7, <1>8, <1>9, <1>10 DEF AccountInv

\* A request that fails or is refused leaves the token where it was.
LEMMA FailsStep ==
  ASSUME AccountConstants, AccountInv, NEW o \in Op, op[o].at \in {"refresh", "keep", "query"},
         op[o].at = "keep" => op[o].ctx # "live",
         NEW r \in {"failed", "refused"}, r = "refused" => harm,
         Account!Fails(o, r), UNCHANGED <<valid, issued, wanted, harm>>
  PROVE  AccountInv'
  <1>1. /\ op[o] \in Account!Operation /\ op[o].at # "idle" /\ op[o].at \in Read
        /\ op[o].at \in Inside /\ isolated \subseteq Account!Lane /\ harm \in BOOLEAN
        /\ Staged(o) /\ Imported(o) /\ Copied(o)
    BY OpShape DEF AccountInv, Account!TypeOK, Read, Renewed, Inside
  <1>2. ~harm /\ Account!AtStake => WillSave(o)
    BY <1>1 DEF AccountInv, Unharmed, GateHeld
  <1>3. /\ stored' = stored /\ isolated' \subseteq Account!Lane
        /\ ~harm => isolated' = isolated
    BY <1>1 DEF Account!Fails, Account!Lane
  <1> DEFINE drops == \/ op[o].lane = "account" /\ op[o].import /\ ~op[o].fresh
                      \/ op[o].lane = "usage" /\ op[o].ctx = "canceled"
                      \/ op[o].lane = "funds"
             p == [op[o] EXCEPT !.at = "settle", !.result = r]
  <1>4. CASE drops
    <2>1. Account!Ends(o)
      BY <1>4 DEF Account!Fails
    <2>2. ~harm => ~Account!AtStake
      <3> SUFFICES ASSUME ~harm, WillSave(o) PROVE ~Account!AtStake
        BY <1>2
      <3>1. op[o].lane = "funds"
        BY <1>4 DEF WillSave
      <3>2. op[o].at # "keep"
        BY <1>1, <3>1 DEF WillSave, Staged, Account!Operation
      <3>3. op[o].at = "query"
        BY <1>1, <3>2 DEF WillSave, Renewed
      <3> QED
        BY <1>1, <3>1, <3>3 DEF WillSave, Staged, Copied, Renewed, Account!AtStake
    <2> QED
      BY <1>1, <1>3, <2>1, <2>2, LeaveStep
  <1>5. CASE ~drops
    <2>1. op' = [op EXCEPT ![o] = p] /\ holder' = holder
      <3>1. op' = [op EXCEPT ![o].at = "settle", ![o].result = r] /\ holder' = holder
        BY <1>5 DEF Account!Fails
      <3> QED
        BY <3>1 DEF AccountInv, Account!TypeOK
    <2>2. /\ p \in Account!Operation /\ p.at = "settle" /\ p.result = r /\ p.lane = op[o].lane
          /\ p.row = op[o].row /\ p.token = op[o].token /\ p.fresh = op[o].fresh
          /\ p.import = op[o].import /\ p.ctx = op[o].ctx
      BY <1>1 DEF Account!Operation
    <2> HIDE DEF p
    <2>3. p.lane # "funds" /\ (p.import => p.fresh)
      BY <1>1, <1>5, <2>2 DEF Imported
    <2>4. p.ctx # "detached"
      BY <1>1, <2>2 DEF Staged
    <2>5. ~harm /\ Account!AtStake =>
            p.ctx # "canceled" /\ (p.ctx = "expired" => p.lane \notin {"funds", "account"})
      BY <1>2, <2>2 DEF WillSave
    <2> HIDE DEF drops
    <2> QED
      BY <1>1, <1>3, <2>1, <2>2, <2>3, <2>4, <2>5, GoesOn
  <1> QED
    BY <1>4, <1>5

\* A refresh consumes the token of the operation, and no other.
LEMMA RefreshStep ==
  ASSUME AccountConstants, AccountInv, NEW o \in Op, Account!Refresh(o)
  PROVE  AccountInv'
  <1>1. /\ op[o] \in Account!Operation /\ op[o].at = "refresh" /\ op[o].at \in Read
        /\ isolated \subseteq Account!Lane /\ harm \in BOOLEAN /\ ~op[o].fresh
        /\ Staged(o) /\ Imported(o) /\ Copied(o)
    BY OpShape DEF Account!Refresh, AccountInv, Account!TypeOK, Read, Staged, Account!None
  <1>2. /\ stored \in [token : Account!Token, enabled : BOOLEAN] /\ wanted \in BOOLEAN
        /\ stored.enabled = wanted /\ issued \in Nat /\ stored.token \in Nat
        /\ stored.token <= issued /\ op[o].token \in Nat /\ op[o].token <= issued
    BY <1>1 DEF AccountInv, Account!TypeOK, Account!Token, Staged, Account!Operation
  <1>3. ~harm => /\ stored.token \in valid /\ isolated = {} /\ op[o].token \in valid
                 /\ op[o].result # "refused"
    <2> SUFFICES ASSUME ~harm PROVE stored.token \in valid /\ isolated = {} /\ op[o].token \in valid
                                    /\ op[o].result # "refused"
      OBVIOUS
    <2>1. ~Account!AtStake
      BY <1>1 DEF AccountInv, Unharmed, WillSave, GateHeld, Inside, Renewed
    <2>2. op[o].import => op[o].token \in valid
      BY <1>1 DEF Imported, Renewed
    <2> QED
      BY <1>1, <2>1, <2>2 DEF Copied, Account!AtStake, AccountInv, Unharmed
  <1>4. ASSUME Account!Rotates(o)
        PROVE  /\ op[o].ctx = "live" /\ op[o].token \in valid
               /\ issued' = issued + 1 /\ issued' \in Account!Token
               /\ valid' = (valid \ {op[o].token}) \cup {issued + 1}
    BY <1>2, <1>4 DEF Account!Rotates, Account!Token, AccountConstants
  <1>5. CASE /\ Account!Rotates(o)
             /\ op' = [op EXCEPT ![o].token = issued', ![o].fresh = TRUE,
                                 ![o].at = Account!AfterRefresh(op[o])]
             /\ UNCHANGED <<Account!row, holder, Account!ghosts>>
    <2> DEFINE s == Account!AfterRefresh(op[o])
               p == [op[o] EXCEPT !.token = issued', !.fresh = TRUE, !.at = s]
    <2>1. /\ s \in {"keep", "query", "settle"} /\ (s = "keep" <=> op[o].lane = "funds")
          /\ s = "settle" => op[o].lane = "account"
      BY DEF Account!AfterRefresh
    <2>3. op' = [op EXCEPT ![o] = p]
      BY <1>5 DEF AccountInv, Account!TypeOK
    <2> HIDE DEF s
    <2>2. /\ p \in Account!Operation /\ p.at = s /\ p.token = issued + 1 /\ p.fresh
          /\ p.lane = op[o].lane /\ p.row = op[o].row /\ p.import = op[o].import
          /\ p.ctx = op[o].ctx /\ p.result = op[o].result
      BY <1>1, <1>4, <1>5, <2>1 DEF Account!Operation
    <2> HIDE DEF p
    <2>4. op'[o] = p /\ \A q \in Op : q # o => op'[q] = op[q]
      BY <2>2, <2>3, OneOp DEF AccountInv
    <2>5. UNCHANGED <<stored, isolated, holder, wanted, harm>>
      BY <1>5 DEF Account!row, Account!ghosts
    <2>6. Staged(o)'
      <3>1. op'[o].token \in valid' /\ op'[o].token <= issued'
        BY <1>2, <1>4, <1>5, <2>2, <2>4
      <3>2. op'[o].at \notin Unread \cup {"refresh", "save"}
        BY <2>1, <2>2, <2>4 DEF Unread
      <3>3. op'[o].ctx = "live" /\ op'[o].fresh /\ op'[o].at = s /\ op'[o].lane = op[o].lane
        BY <1>4, <1>5, <2>2, <2>4
      <3> QED
        BY <2>1, <3>1, <3>2, <3>3 DEF Staged
    <2>7. Copied(o)'
      BY <1>1, <2>1, <2>2, <2>4, <2>5 DEF Copied
    <2>8. Imported(o)'
      <3>1. ASSUME NEW q \in Op, q # o, Knows(q)' PROVE op'[q].token # issued + 1
        <4>1. op'[q] = op[q] /\ op[q].at # "idle"
          BY <2>4, <3>1 DEF Knows, Read, Renewed
        <4>2. op[q].token <= issued /\ op[q] \in Account!Operation
          BY <4>1, OpShape DEF AccountInv, Staged
        <4> QED
          BY <1>2, <4>1, <4>2 DEF Account!Operation, Account!Token
      <3>2. op'[o].at \in Renewed
        BY <2>1, <2>2, <2>4 DEF Renewed
      <3>3. op[o].import => op[o].lane = "account"
        BY <1>1 DEF Imported
      <3> QED
        BY <1>2, <2>2, <2>4, <2>5, <3>1, <3>2, <3>3 DEF Imported
    <2>9. ~harm' /\ Account!AtStake' => holder' = o /\ WillSave(o)'
      <3> SUFFICES ASSUME ~harm', Account!AtStake' PROVE holder' = o /\ WillSave(o)'
        OBVIOUS
      <3>1. stored.token = op[o].token
        BY <1>3, <1>4, <1>5, <2>5 DEF Account!AtStake
      <3>2. ~op[o].import
        BY <1>1, <3>1 DEF Imported
      <3>3. holder = o
        BY <1>1 DEF AccountInv, GateHeld, Inside
      <3> QED
        BY <1>4, <1>5, <2>1, <2>2, <2>4, <2>5, <3>2, <3>3 DEF WillSave, Renewed
    <2>10. p.at \in Read
      BY <2>1, <2>2 DEF Read, Renewed
    <2>11. valid \ {op[o].token} \subseteq valid' /\ valid' \subseteq valid \cup {issued'}
      BY <1>4, <1>5
    <2> QED
      BY <1>1, <1>2, <1>3, <1>4, <1>5, <2>2, <2>3, <2>5, <2>6, <2>7, <2>8, <2>9, <2>10, <2>11,
         HolderStep
  <1>6. CASE /\ Account!Rotates(o)
             /\ harm' = (harm \/ op[o].token = stored.token)
             /\ Account!Fails(o, "failed")
             /\ UNCHANGED wanted
    <2> DEFINE p == [op[o] EXCEPT !.at = "settle", !.result = "failed"]
    <2>1. /\ stored' = stored /\ isolated' = isolated
          /\ \/ Account!Ends(o)
             \/ /\ op' = [op EXCEPT ![o].at = "settle", ![o].result = "failed"] /\ holder' = holder
                /\ ~(op[o].lane = "account" /\ op[o].import) /\ op[o].lane # "funds"
      BY <1>1, <1>6 DEF Account!Fails
    <2>2. valid \ {op[o].token} \subseteq valid' /\ valid' \subseteq valid \cup {issued'}
      BY <1>4, <1>6
    <2>3. ~harm' => ~harm /\ op[o].import /\ ~Account!AtStake'
      <3> SUFFICES ASSUME ~harm' PROVE ~harm /\ op[o].import /\ ~Account!AtStake'
        OBVIOUS
      <3>1. ~harm /\ op[o].token # stored.token
        BY <1>1, <1>6
      <3>2. op[o].import
        BY <1>1, <3>1 DEF Copied
      <3> QED
        BY <1>3, <1>4, <1>6, <2>1, <3>1, <3>2 DEF Account!AtStake
    <2>4. harm' \in BOOLEAN
      BY <1>1, <1>6
    <2>5. CASE Account!Ends(o)
      <3>1. op' = [op EXCEPT ![o] = Account!None] /\ holder' = NoOp
        BY <2>5 DEF Account!Ends
      <3>2. op'[o] = Account!None /\ Account!None.at = "idle"
        BY <3>1, OneOp DEF AccountInv, Account!None
      <3>3. Imported(o)' /\ Staged(o)' /\ Copied(o)'
        BY <3>2 DEF Imported, Staged, Copied, Unread, Renewed, Read
      <3> QED
        BY <1>1, <1>2, <1>3, <1>4, <1>6, <2>1, <2>2, <2>3, <2>4, <3>1, <3>2, <3>3, HolderStep
    <2>6. CASE /\ op' = [op EXCEPT ![o].at = "settle", ![o].result = "failed"] /\ holder' = holder
               /\ ~(op[o].lane = "account" /\ op[o].import) /\ op[o].lane # "funds"
      <3>1. /\ p \in Account!Operation /\ p.at = "settle" /\ p.lane = op[o].lane
            /\ p.row = op[o].row /\ p.token = op[o].token /\ p.fresh = op[o].fresh
            /\ p.import = op[o].import /\ p.ctx = op[o].ctx
        BY <1>1 DEF Account!Operation
      <3>2. op' = [op EXCEPT ![o] = p]
        BY <2>6 DEF AccountInv, Account!TypeOK
      <3> HIDE DEF p
      <3>3. op'[o] = p
        BY <3>1, <3>2, OneOp DEF AccountInv
      <3>4. ~p.import
        BY <1>1, <2>6, <3>1 DEF Imported
      <3>5. Imported(o)' /\ Copied(o)'
        BY <1>1, <2>1, <3>1, <3>3, <3>4 DEF Imported, Copied
      <3>6. Staged(o)'
        BY <1>1, <1>2, <1>4, <1>6, <2>6, <3>1, <3>3 DEF Staged, Unread, Renewed
      <3>7. p.at \in Read /\ harm'
        BY <2>3, <3>1, <3>4 DEF Read, Renewed
      <3> QED
        BY <1>1, <1>2, <1>4, <1>6, <2>1, <2>2, <2>4, <2>6, <3>1, <3>2, <3>5, <3>6, <3>7, HolderStep
    <2> QED
      BY <2>1, <2>5, <2>6
  <1>7. CASE /\ op[o].ctx = "live" /\ op[o].token \notin valid
             /\ Account!Fails(o, "refused")
             /\ UNCHANGED <<Account!provider, Account!ghosts>>
    BY <1>1, <1>3, <1>7, FailsStep DEF Account!provider, Account!ghosts
  <1>8. CASE Account!Fails(o, "failed") /\ UNCHANGED <<Account!provider, Account!ghosts>>
    BY <1>1, <1>8, FailsStep DEF Account!provider, Account!ghosts
  <1> QED
    BY <1>5, <1>6, <1>7, <1>8 DEF Account!Refresh

\* The funds lane saves the new token before it asks for anything else.
LEMMA KeepStep ==
  ASSUME AccountConstants, AccountInv, NEW o \in Op, Account!Keep(o)
  PROVE  AccountInv'
  <1>1. /\ op[o] \in Account!Operation /\ op[o].at = "keep" /\ op[o].at \in Read
        /\ UNCHANGED <<valid, issued, wanted, harm>>
        /\ isolated \subseteq Account!Lane /\ harm \in BOOLEAN
        /\ Staged(o) /\ Imported(o) /\ Copied(o) /\ issued \in Account!Token
    BY OpShape DEF Account!Keep, AccountInv, Account!TypeOK, Read, Renewed, Account!None,
                   Account!provider, Account!ghosts
  <1>2. CASE op[o].ctx # "live"
    <2>1. Account!Fails(o, "failed")
      BY <1>2 DEF Account!Keep
    <2> QED
      BY <1>1, <1>2, <2>1, FailsStep
  <1>3. CASE op[o].ctx = "live"
    <2> DEFINE p == [op[o] EXCEPT !.at = "query"]
    <2>1. /\ op' = [op EXCEPT ![o] = p] /\ stored' = [op[o].row EXCEPT !.token = op[o].token]
          /\ isolated' = isolated /\ holder' = holder
      BY <1>3 DEF Account!Keep, Account!Goes
    <2>2. /\ p \in Account!Operation /\ p.at = "query" /\ p.token = op[o].token /\ p.lane = op[o].lane
          /\ p.fresh = op[o].fresh /\ p.row = op[o].row /\ p.import = op[o].import
          /\ p.ctx = op[o].ctx /\ p.result = op[o].result
      BY <1>1 DEF Account!Operation
    <2> HIDE DEF p
    <2>3. op'[o] = p
      BY <2>1, <2>2, OneOp DEF AccountInv
    <2>4. /\ op[o].lane = "funds" /\ op[o].fresh /\ op[o].token \in valid /\ ~op[o].import
      BY <1>1 DEF Staged, Imported, Renewed, Account!Operation
    <2>5. /\ stored' \in [token : Account!Token, enabled : BOOLEAN]
          /\ stored'.token = op[o].token /\ stored'.enabled = wanted /\ wanted \in BOOLEAN
      BY <1>1, <2>1 DEF Account!Operation, Copied, AccountInv, Account!TypeOK
    <2>6. Imported(o)' /\ Copied(o)'
      BY <1>1, <2>2, <2>3, <2>4, <2>5 DEF Imported, Copied, AccountInv
    <2>7. Staged(o)'
      BY <1>1, <1>3, <2>2, <2>3, <2>4 DEF Staged, Unread, Renewed
    <2>8. ~Account!AtStake' /\ p.at \in Read
      BY <1>1, <2>2, <2>4, <2>5 DEF Account!AtStake, Read, Renewed
    <2>9. ~harm => isolated = {} /\ p.result # "refused"
      BY <1>1, <2>2 DEF AccountInv, Unharmed
    <2> QED
      BY <1>1, <2>1, <2>2, <2>5, <2>6, <2>7, <2>8, <2>9, HolderStep
  <1> QED
    BY <1>2, <1>3

\* The requests proper: they succeed, ask for a fresh access token once, or fail.
LEMMA QueryStep ==
  ASSUME AccountConstants, AccountInv, NEW o \in Op, Account!Query(o)
  PROVE  AccountInv'
  <1>1. /\ op[o] \in Account!Operation /\ op[o].at = "query" /\ op[o].at # "idle" /\ op[o].at \in Read
        /\ op[o].at \in Inside
        /\ UNCHANGED <<valid, issued, wanted, harm>>
        /\ isolated \subseteq Account!Lane /\ harm \in BOOLEAN
        /\ Staged(o) /\ Imported(o) /\ Copied(o)
        /\ ~harm => op[o].result # "refused"
    BY OpShape DEF Account!Query, AccountInv, Account!TypeOK, Read, Renewed, Account!None, Inside,
                   Account!provider, Account!ghosts, Unharmed
  <1>2. ~harm /\ Account!AtStake => WillSave(o)
    BY <1>1 DEF AccountInv, Unharmed, GateHeld
  <1>3. CASE Account!Fails(o, "failed")
    BY <1>1, <1>3, FailsStep
  <1>4. ASSUME op[o].ctx = "live", stored' = stored, isolated' = isolated, holder' = holder,
               NEW s \in {"settle", "refresh"}, NEW r \in {"ok", op[o].result},
               op' = [op EXCEPT ![o].at = s, ![o].result = r],
               s = "refresh" => ~op[o].fresh, s = "settle" => op[o].lane # "funds"
        PROVE  AccountInv'
    <2> DEFINE p == [op[o] EXCEPT !.at = s, !.result = r]
    <2>1. op' = [op EXCEPT ![o] = p]
      BY <1>4 DEF AccountInv, Account!TypeOK
    <2>2. /\ p \in Account!Operation /\ p.at = s /\ p.token = op[o].token /\ p.lane = op[o].lane
          /\ p.fresh = op[o].fresh /\ p.row = op[o].row /\ p.import = op[o].import
          /\ p.ctx = op[o].ctx /\ p.result = r
      BY <1>1 DEF Account!Operation
    <2> HIDE DEF p
    <2>3. p.at = "settle" => p.lane # "funds" /\ (p.import => p.fresh)
      BY <1>1, <1>4, <2>2 DEF Imported, Renewed
    <2>4. ~harm /\ Account!AtStake /\ holder = o => p.at # "refresh"
      BY <1>2, <1>4, <2>2 DEF WillSave
    <2>5. p.at \in {"settle", "save"} => p.lane # "funds" /\ (p.import => p.fresh)
      BY <1>4, <2>2, <2>3
    <2>6. /\ op[o].at \in Read /\ p.at \in {"refresh", "settle", "save"}
          /\ (p.at = "refresh" => ~p.fresh) /\ (p.ctx = "detached" => p.at = "save")
      BY <1>1, <1>4, <2>2
    <2> QED
      BY <1>1, <1>4, <2>1, <2>2, <2>4, <2>5, <2>6, GoesOn
  <1>5. CASE /\ op[o].ctx = "live" /\ UNCHANGED Account!row
             /\ IF op[o].lane = "funds"
                THEN Account!Ends(o)
                ELSE op' = [op EXCEPT ![o].at = "settle", ![o].result = "ok"] /\ UNCHANGED holder
    <2>1. stored' = stored /\ isolated' = isolated
      BY <1>5 DEF Account!row
    <2>2. CASE op[o].lane = "funds"
      <3>1. ~harm => ~Account!AtStake
        BY <1>1, <1>2, <2>2 DEF WillSave, Staged, Copied, Renewed, Account!AtStake
      <3> QED
        BY <1>1, <1>5, <2>1, <2>2, <3>1, LeaveStep
    <2>3. CASE op[o].lane # "funds"
      BY <1>4, <1>5, <2>1, <2>3
    <2> QED
      BY <2>2, <2>3
  <1>6. CASE /\ ~op[o].fresh /\ op[o].ctx = "live"
             /\ Account!Goes(o, "refresh") /\ UNCHANGED <<Account!row, holder>>
    <2>1. [op[o] EXCEPT !.at = "refresh"] = [op[o] EXCEPT !.at = "refresh", !.result = op[o].result]
      BY <1>1 DEF Account!Operation
    <2>2. op' = [op EXCEPT ![o].at = "refresh", ![o].result = op[o].result]
      BY <1>6, <2>1 DEF Account!Goes, AccountInv, Account!TypeOK
    <2> QED
      BY <1>4, <1>6, <2>2 DEF Account!row
  <1> QED
    BY <1>3, <1>5, <1>6 DEF Account!Query

\* A result that is saved brings the token along; a new credential that worked reopens every lane.
LEMMA SaveStep ==
  ASSUME AccountConstants, AccountInv, NEW o \in Op, Account!Save(o)
  PROVE  AccountInv'
  <1>1. /\ op[o] \in Account!Operation /\ op[o].at = "save" /\ op[o].at \in Read
        /\ UNCHANGED <<valid, issued>>
        /\ isolated \subseteq Account!Lane /\ harm \in BOOLEAN /\ wanted \in BOOLEAN
        /\ Staged(o) /\ Imported(o) /\ Copied(o) /\ issued \in Account!Token
        /\ stored \in [token : Account!Token, enabled : BOOLEAN] /\ stored.enabled = wanted
    BY OpShape DEF Account!Save, AccountInv, Account!TypeOK, Read, Renewed, Account!None,
                   Account!provider
  <1>2. /\ wanted' = IF op[o].lane = "account" THEN op[o].enable ELSE wanted
        /\ harm' = (harm /\ ~(op[o].lane = "account" /\ Account!Reopens(op[o])))
        /\ op' = [op EXCEPT ![o] = Account!None] /\ holder' = NoOp
    BY DEF Account!Save, Account!Ends
  <1>3. op'[o] = Account!None /\ Account!None.at = "idle"
    BY <1>2, OneOp DEF AccountInv, Account!None
  <1>4. Imported(o)' /\ Staged(o)' /\ Copied(o)'
    BY <1>3 DEF Imported, Staged, Copied, Unread, Renewed, Read
  <1>5. op[o].lane \in {"balance", "usage", "account"}
    BY <1>1 DEF Account!Operation, Account!Lane, Staged
  <1>6. /\ stored' \in [token : Account!Token, enabled : BOOLEAN] /\ stored'.token = op[o].token
        /\ stored'.enabled = wanted' /\ wanted' \in BOOLEAN
    <2>1. /\ op[o].enable \in BOOLEAN /\ op[o].token \in Account!Token
          /\ op[o].row \in [token : Account!Token, enabled : BOOLEAN]
      BY <1>1 DEF Account!Operation
    <2>2. CASE op[o].lane = "balance"
      <3>1. stored' = [stored EXCEPT !.token = op[o].token]
        BY <1>1, <2>2 DEF Account!Save, Account!SaveBalance, Copied
      <3> QED
        BY <1>1, <1>2, <2>1, <2>2, <3>1
    <2>3. CASE op[o].lane = "usage"
      <3>1. stored' = [op[o].row EXCEPT !.token = op[o].token] /\ op[o].row = stored
        BY <1>1, <2>3 DEF Account!Save, Account!SaveUsage, Copied
      <3> QED
        BY <1>1, <1>2, <2>1, <2>3, <3>1
    <2>4. CASE op[o].lane = "account"
      <3>1. stored' = [token |-> op[o].token, enabled |-> op[o].enable]
        BY <2>4 DEF Account!Save, Account!SaveAccount
      <3> QED
        BY <1>2, <2>1, <2>4, <3>1
    <2> QED
      BY <1>5, <2>2, <2>3, <2>4
  <1>7. /\ isolated' \subseteq Account!Lane
        /\ ~harm' => isolated' = {}
    <2>1. isolated' \in {{}, Account!Isolate("balance", op[o].result), Account!Isolate("usage", op[o].result)}
      BY <1>1, <1>5 DEF Account!Save, Account!SaveBalance, Account!SaveUsage, Account!SaveAccount, Copied
    <2>2. \A l \in Account!Lane : Account!Isolate(l, op[o].result) \subseteq Account!Lane
      BY <1>1 DEF Account!Isolate
    <2>3. ~harm => \A l \in Account!Lane : Account!Isolate(l, op[o].result) = {}
      BY <1>1 DEF Account!Isolate, AccountInv, Unharmed
    <2>4. op[o].lane = "account" /\ Account!Reopens(op[o]) => isolated' = {}
      BY DEF Account!Save, Account!SaveAccount
    <2>5. "balance" \in Account!Lane /\ "usage" \in Account!Lane
      BY DEF Account!Lane
    <2> QED
      BY <1>1, <1>2, <2>1, <2>2, <2>3, <2>4, <2>5
  <1>8. ~harm' => op[o].token \in valid
    <2>1. op[o].fresh => op[o].token \in valid
      BY <1>1 DEF Staged, Renewed
    <2>2. ASSUME ~op[o].fresh, ~harm' PROVE op[o].token \in valid
      <3>1. ~op[o].import /\ op[o].token = stored.token
        BY <1>1, <2>2 DEF Imported, Copied, Renewed
      <3>2. ~harm
        BY <1>1, <1>2, <2>2, <3>1 DEF Account!Reopens
      <3>3. ~Account!AtStake
        BY <1>1, <2>2, <3>2 DEF AccountInv, Unharmed, WillSave, GateHeld, Inside, Read
      <3> QED
        BY <3>1, <3>3 DEF Account!AtStake
    <2> QED
      BY <2>1, <2>2
  <1>9. ~harm' => ~Account!AtStake'
    BY <1>1, <1>6, <1>8 DEF Account!AtStake
  <1>10. harm' \in BOOLEAN
    BY <1>1, <1>2
  <1> QED
    BY <1>1, <1>2, <1>3, <1>4, <1>6, <1>7, <1>9, <1>10, HolderStep

\* Nothing more can be written: the stored token is then a good one, or the harm is noted.
LEMMA GivesUpStep ==
  ASSUME AccountConstants, AccountInv, NEW o \in Op, Account!SaveTooLate(o) \/ Account!StoreFails(o)
  PROVE  AccountInv'
  <1>1. /\ op[o].at \in {"keep", "save", "settle"} /\ op[o].at \in Inside
        /\ UNCHANGED <<valid, issued, stored, isolated, wanted>> /\ Account!Ends(o)
        /\ isolated \subseteq Account!Lane /\ harm \in BOOLEAN
    BY DEF Account!SaveTooLate, Account!StoreFails, AccountInv, Account!TypeOK, Inside, Renewed,
           Account!provider, Account!row, Account!ghosts
  <1>2. CASE Account!SaveTooLate(o)
    <2>1. op[o].at = "save" /\ op[o].ctx \in {"expired", "canceled"} /\ harm' = harm
      BY <1>2 DEF Account!SaveTooLate, Account!ghosts
    <2>2. ~harm => ~Account!AtStake
      BY <1>1, <2>1 DEF AccountInv, Unharmed, WillSave, GateHeld
    <2> QED
      BY <1>1, <2>1, <2>2, LeaveStep
  <1>3. CASE Account!StoreFails(o)
    <2>1. harm' = (harm \/ Account!AtStake)
      BY <1>3 DEF Account!StoreFails
    <2> QED
      BY <1>1, <2>1, LeaveStep DEF Account!AtStake
  <1> QED
    BY <1>2, <1>3

\* A crash ends every operation at once.
LEMMA CrashStep ==
  ASSUME AccountConstants, AccountInv, Account!Crash
  PROVE  AccountInv'
  <1>1. /\ op' = [o \in Op |-> Account!None] /\ holder' = NoOp
        /\ harm' = (harm \/ Account!AtStake)
        /\ UNCHANGED <<valid, issued, stored, isolated, wanted>>
    BY DEF Account!Crash, Account!provider, Account!row
  <1>2. \A o \in Op : op'[o] = Account!None /\ op'[o].at = "idle"
    BY <1>1 DEF Account!None
  <1>3. Account!TypeOK'
    BY <1>1 DEF AccountInv, Account!TypeOK, Account!AtStake
  <1>4. GateHeld'
    BY <1>1, <1>2 DEF GateHeld, AccountConstants, Inside, Renewed
  <1>5. \A o \in Op : Imported(o)' /\ Staged(o)' /\ Copied(o)'
    BY <1>2 DEF Imported, Staged, Copied, Unread, Renewed, Read
  <1>6. ~harm' => Unharmed'
    BY <1>1, <1>2 DEF AccountInv, Unharmed, Account!AtStake
  <1> QED
    BY <1>1, <1>3, <1>4, <1>5, <1>6 DEF AccountInv

\* Every step keeps the invariant.
LEMMA AccountStep ==
  AccountConstants => (AccountInv /\ [Account!Next]_(Account!vars) => AccountInv')
  <1> SUFFICES ASSUME AccountConstants, AccountInv, [Account!Next]_(Account!vars) PROVE AccountInv'
    OBVIOUS
  <1>1. CASE UNCHANGED Account!vars
    BY <1>1 DEF Account!vars, AccountInv, Account!TypeOK, GateHeld, Imported, Knows, Staged, Copied,
                Unharmed, WillSave, Account!AtStake
  <1>2. CASE Account!Next
    <2>1. ASSUME NEW o \in Op,
                 \/ \E l \in Account!Lane : Account!StartBackground(o, l) \/ Account!StartAdmin(o, l)
                 \/ \E import, enable \in BOOLEAN : Account!StartSave(o, import, enable)
          PROVE  AccountInv'
      BY <2>1, StartStep, StartSaveStep
    <2>2. ASSUME NEW o \in Op,
                 \/ Account!TryTake(o) \/ Account!LookAgain(o) \/ Account!AdminTakes(o)
                 \/ Account!AdminLeaves(o)
          PROVE  AccountInv'
      BY <2>2, GateStep
    <2>3. ASSUME NEW o \in Op,
                 Account!Settle(o) \/ Account!Cancel(o) \/ Account!Expire(o)
          PROVE  AccountInv'
      BY <2>3, ContextStep
    <2> QED
      BY <1>2, <2>1, <2>2, <2>3, LoadStep, RefreshStep, KeepStep, QueryStep, SaveStep, GivesUpStep,
         CrashStep DEF Account!Next
  <1> QED
    BY <1>1, <1>2

\* The account keeps a valid token and its lanes as long as no operation is cut off while only it
\* knows the token, for any number of operations and tokens (syncStoredUpstreamUsageWithPriority).
THEOREM AccountAlwaysKept == AccountConstants => (Account!Spec => []Account!AccountKept)
  <1> SUFFICES ASSUME AccountConstants PROVE Account!Spec => []Account!AccountKept
    OBVIOUS
  <1> QED
    BY AccountFirst, AccountStep, AccountImplies, PTL DEF Account!Spec

-----------------------------------------------------------------------------
(* The guard of an upstream host: who may send, and what is remembered of   *)
(* its cooldown.                                                            *)

CONSTANTS Host, Req, host, NoReq, Concurrency, Threshold, OpenDurations, RetryAfters, MaxTime

VARIABLES now, globalNext, nextStart, circuit, loaded, saved, asked, forgotten

Guard == INSTANCE UpstreamGuard

\* How long a circuit may open.
Durations == Guard!Range(OpenDurations) \cup RetryAfters

\* What the configuration says: a request has its host, and of all the cooldowns one is the longest.
GuardConstants ==
    /\ host \in [Req -> Host] /\ NoReq \notin Req
    /\ MaxTime \in Nat /\ Threshold \in Nat /\ RetryAfters \subseteq Nat
    /\ OpenDurations \in Seq(Nat) /\ OpenDurations # <<>>
    /\ \E d \in Durations : \A e \in Durations : e <= d

\* What a circuit can be.
Circuits ==
    [fails : 0 .. Threshold, opens : 0 .. Len(OpenDurations), until : 0 .. Guard!Horizon]

\* Steps with the host's semaphore.
AtHost == {"check", "pace", "go", "sent", "saveBody", "saveEnd", "body", "recorded"}

\* Who has the host's semaphore is alone with it, has its row, and has seen the cooldown pass.
Attends(r) ==
    /\ pc[r] \in AtHost => holder[host[r]] = r
    /\ pc[r] \in AtHost \ {"check"} => loaded[host[r]]
    /\ pc[r] \in {"pace", "go"} => circuit[host[r]].until <= now
    /\ pc[r] = "go" => nextStart[host[r]] <= now

\* The circuit, in memory or in the store, is the cooldown imposed last.
Remembers(h) ==
    (IF loaded[h] THEN circuit[h] ELSE saved[h]).until = asked[h] \/ forgotten[h]

GuardInv ==
    /\ Guard!TypeOK
    /\ circuit \in [Host -> Circuits] /\ saved \in [Host -> Circuits]
    /\ \A r \in Req : Attends(r)
    /\ \A h \in Host : Remembers(h)

\* The longest cooldown bounds all times.
LEMMA CooldownBounds ==
  ASSUME GuardConstants
  PROVE /\ Guard!Horizon \in Nat /\ MaxTime <= Guard!Horizon
        /\ \A t \in 0 .. MaxTime : \A d \in Durations : t + d \in 0 .. Guard!Horizon
        /\ Durations \subseteq Nat
        /\ Len(OpenDurations) \in Nat \ {0}
        /\ \A n \in 1 .. Len(OpenDurations) : OpenDurations[n] \in Durations
        /\ Guard!Clear \in Circuits
  <1> USE DEF GuardConstants
  <1>1. Len(OpenDurations) \in Nat \ {0} /\ DOMAIN OpenDurations = 1 .. Len(OpenDurations)
    OBVIOUS
  <1>2. \A n \in 1 .. Len(OpenDurations) : /\ OpenDurations[n] \in Durations
                                          /\ OpenDurations[n] \in Nat
    BY <1>1 DEF Durations, Guard!Range
  <1>3. Durations \subseteq Nat
    BY <1>1, <1>2 DEF Durations, Guard!Range
  <1>4. Guard!Max(Durations) \in Durations /\ \A e \in Durations : e <= Guard!Max(Durations)
    <2>1. PICK d \in Durations : \A e \in Durations : d >= e
      BY <1>3
    <2> QED
      BY <2>1, <1>3 DEF Guard!Max
  <1>5. PICK m \in Durations : Guard!Horizon = MaxTime + m /\ \A e \in Durations : e <= m
    BY <1>4 DEF Guard!Horizon, Durations
  <1>6. m \in Nat /\ Guard!Horizon \in Nat /\ MaxTime <= Guard!Horizon
    BY <1>3, <1>5
  <1>7. ASSUME NEW t \in 0 .. MaxTime, NEW d \in Durations PROVE t + d \in 0 .. Guard!Horizon
    <2>1. d \in Nat /\ d <= m
      BY <1>3, <1>5
    <2> QED
      BY <1>5, <1>6, <2>1
  <1>8. Guard!Clear \in Circuits
    BY <1>1, <1>6 DEF Guard!Clear, Circuits
  <1> QED
    BY <1>1, <1>2, <1>3, <1>6, <1>7, <1>8
\* A circuit stays one, whatever a request reports.
LEMMA CircuitAfter ==
  ASSUME GuardConstants, now \in 0 .. MaxTime, NEW c \in Circuits
  PROVE  /\ \A d \in RetryAfters : Guard!AfterLimit(c, d) \in Circuits
         /\ \A d \in RetryAfters \cup {0} : Guard!AfterError(c, d) \in Circuits
         /\ Guard!AfterNetwork(c) \in Circuits
  <1>0. /\ Guard!Horizon \in Nat /\ MaxTime <= Guard!Horizon
        /\ \A t \in 0 .. MaxTime : \A d \in Durations : t + d \in 0 .. Guard!Horizon
        /\ Durations \subseteq Nat
        /\ Len(OpenDurations) \in Nat \ {0} /\ Threshold \in Nat
        /\ \A n \in 1 .. Len(OpenDurations) : OpenDurations[n] \in Durations
        /\ RetryAfters \subseteq Durations
    BY CooldownBounds DEF Durations, GuardConstants
  <1>1. ASSUME NEW k \in Circuits, NEW u \in 0 .. Guard!Horizon
        PROVE Guard!Opened(k, u) \in Circuits
    <2> DEFINE n == Guard!CapAt(k.opens + 1, Len(OpenDurations))
    <2>1. n \in 0 .. Len(OpenDurations)
      BY <1>0 DEF Guard!CapAt, Circuits
    <2>2. Guard!Opened(k, u) = [k EXCEPT !.opens = n, !.until = u]
      BY DEF Guard!Opened
    <2> HIDE DEF n
    <2> QED
      BY <2>1, <2>2 DEF Circuits
  <1>2. ASSUME NEW k \in Circuits PROVE now + Guard!OpenFor(k) \in 0 .. Guard!Horizon
    <2>1. Guard!CapAt(k.opens + 1, Len(OpenDurations)) \in 1 .. Len(OpenDurations)
      BY <1>0, <1>2 DEF Guard!CapAt, Circuits
    <2>2. Guard!OpenFor(k) \in Durations
      BY <1>0, <2>1 DEF Guard!OpenFor
    <2> QED
      BY <1>0, <2>2
  <1>3. Guard!Counted(c) \in Circuits
    <2> DEFINE n == Guard!CapAt(c.fails + 1, Threshold)
    <2>1. n \in 0 .. Threshold
      BY <1>0 DEF Guard!CapAt, Circuits
    <2>2. Guard!Counted(c) = [c EXCEPT !.fails = n]
      BY DEF Guard!Counted
    <2> HIDE DEF n
    <2> QED
      BY <2>1, <2>2 DEF Circuits
  <1>4. \A d \in RetryAfters : Guard!AfterLimit(c, d) \in Circuits
    BY <1>0, <1>1, <1>3 DEF Guard!AfterLimit
  <1>5. Guard!AfterNetwork(c) \in Circuits
    BY <1>1, <1>2, <1>3 DEF Guard!AfterNetwork
  <1>6. ASSUME NEW d \in RetryAfters \cup {0} PROVE Guard!AfterError(c, d) \in Circuits
    <2> DEFINE k == Guard!Counted(c)
               x == IF k.fails >= Threshold THEN now + Guard!OpenFor(k) ELSE 0
               y == IF d > 0 THEN now + d ELSE 0
    <2>1. x \in 0 .. Guard!Horizon /\ y \in 0 .. Guard!Horizon /\ k.until \in 0 .. Guard!Horizon
      BY <1>0, <1>2, <1>3, <1>6 DEF Circuits
    <2> HIDE DEF x, y, k
    <2>2. /\ Guard!Larger(x, y) \in 0 .. Guard!Horizon
          /\ Guard!Larger(k.until, Guard!Larger(x, y)) \in 0 .. Guard!Horizon
      BY <2>1 DEF Guard!Larger
    <2>3. /\ k \in Circuits
          /\ Guard!AfterError(c, d) =
                IF Guard!Larger(x, y) > 0
                THEN Guard!Opened(k, Guard!Larger(k.until, Guard!Larger(x, y))) ELSE k
      BY <1>3 DEF Guard!AfterError, x, y, k
    <2> QED
      BY <1>1, <2>2, <2>3
  <1> QED
    BY <1>4, <1>5, <1>6

\* No step sends a request too early.
LEMMA GuardImplies ==
  GuardConstants => (GuardInv => Guard!TypeOK /\ Guard!StartsAfterCooldown)
  <1> SUFFICES ASSUME GuardConstants, GuardInv
               PROVE  Guard!TypeOK /\ Guard!StartsAfterCooldown
    OBVIOUS
  <1> SUFFICES ASSUME NEW r \in Req, Guard!Starts(r)
               PROVE  (now >= asked[host[r]] \/ forgotten[host[r]]) /\ now >= nextStart[host[r]]
    BY DEF GuardInv, Guard!StartsAfterCooldown
  <1>1. /\ pc[r] = "go" /\ host[r] \in Host /\ Attends(r) /\ Remembers(host[r])
        /\ now \in 0 .. MaxTime /\ nextStart[host[r]] \in 0 .. MaxTime + 1
    BY DEF GuardInv, GuardConstants, Guard!Starts, Guard!TypeOK
  <1> QED
    BY <1>1, CooldownBounds DEF Attends, Remembers, AtHost, GuardConstants

\* Every host is clear at first.
LEMMA GuardFirst == GuardConstants => (Guard!Init => GuardInv)
  <1> SUFFICES ASSUME GuardConstants, Guard!Init
               PROVE  GuardInv
    OBVIOUS
  <1>1. /\ Guard!Clear \in Circuits /\ Guard!Horizon \in Nat /\ Threshold \in Nat
        /\ Len(OpenDurations) \in Nat
    BY CooldownBounds DEF Guard!Clear, Circuits, GuardConstants
  <1>2. circuit \in [Host -> Circuits] /\ saved \in [Host -> Circuits]
    BY <1>1 DEF Guard!Init
  <1>3. \A h \in Host : circuit[h] = Guard!Clear /\ saved[h] = Guard!Clear
    BY DEF Guard!Init
  <1>4. Guard!TypeOK
    BY <1>1, <1>3 DEF Guard!Init, Guard!TypeOK, Guard!Stages, Circuits, GuardConstants
  <1>5. \A r \in Req : Attends(r)
    BY DEF Guard!Init, Attends, AtHost, GuardConstants
  <1>6. \A h \in Host : Remembers(h)
    BY <1>3 DEF Guard!Init, Remembers, Guard!Clear
  <1> QED
    BY <1>2, <1>4, <1>5, <1>6 DEF GuardInv

\* Every step of a request, a restart and the clock keep the invariant.
LEMMA GuardStep == GuardConstants => (GuardInv /\ [Guard!Next]_(Guard!vars) => GuardInv')
  <1> SUFFICES ASSUME GuardConstants, GuardInv, [Guard!Next]_(Guard!vars)
               PROVE  GuardInv'
    OBVIOUS
  <1>0. /\ Guard!Horizon \in Nat /\ MaxTime <= Guard!Horizon /\ Threshold \in Nat
        /\ MaxTime \in Nat /\ Len(OpenDurations) \in Nat
        /\ \A h \in Host : circuit[h] \in Circuits /\ saved[h] \in Circuits
        /\ \A r \in Req : host[r] \in Host /\ r # NoReq
        /\ now \in 0 .. MaxTime /\ Guard!Clear \in Circuits
    BY CooldownBounds DEF GuardConstants, GuardInv, Guard!TypeOK
  <1>a. ASSUME circuit' \in [Host -> Circuits], saved' \in [Host -> Circuits],
               now' \in 0 .. MaxTime, pc' \in [Req -> Guard!Stages],
               holder' \in [Host -> Req \cup {NoReq}],
               globalNext' \in 0 .. MaxTime + 1, nextStart' \in [Host -> 0 .. MaxTime + 1],
               loaded' \in [Host -> BOOLEAN], asked' \in [Host -> 0 .. Guard!Horizon],
               forgotten' \in [Host -> BOOLEAN],
               \A r \in Req : Attends(r)', \A h \in Host : Remembers(h)'
        PROVE GuardInv'
    <2>1. \A h \in Host : circuit'[h] \in Circuits /\ saved'[h] \in Circuits
      BY <1>a
    <2>2. Guard!TypeOK'
      BY <1>a, <2>1 DEF Guard!TypeOK, Circuits, Guard!Horizon
    <2> QED
      BY <1>a, <2>2 DEF GuardInv, Circuits, Guard!Horizon
  <1> USE DEF GuardInv, Guard!TypeOK, AtHost, Attends, Remembers, Guard!pacing, Guard!ghosts,
     Guard!Goes, Guard!Release, Guard!Stages
  <1>1. ASSUME NEW r \in Req, Guard!Begin(r) PROVE GuardInv'
    BY <1>0, <1>1, <1>a DEF Guard!Begin
  <1>2. ASSUME NEW r \in Req, Guard!AcquireGlobal(r) PROVE GuardInv'
    BY <1>0, <1>2, <1>a DEF Guard!AcquireGlobal
  <1>3. ASSUME NEW r \in Req, Guard!AcquireHost(r) PROVE GuardInv'
    BY <1>0, <1>3, <1>a DEF Guard!AcquireHost, Guard!HostFree
  <1>9. ASSUME NEW r \in Req, Guard!Release(r),
               UNCHANGED <<now, Guard!pacing, circuit, loaded, Guard!ghosts>>,
               saved' \in [Host -> Circuits],
               \A h \in Host : loaded[h] \/ saved'[h] = saved[h] PROVE GuardInv'
    BY <1>0, <1>9, <1>a
  <1>4. ASSUME NEW r \in Req, Guard!Check(r) PROVE GuardInv'
    <2> DEFINE h == host[r]
               c == Guard!Known(h)
    <2>1. h \in Host /\ c \in Circuits /\ (c.until = asked[h] \/ forgotten[h])
      BY <1>0 DEF Guard!Known
    <2>2. pc[r] = "check" /\ UNCHANGED <<now, globalNext, nextStart, saved, asked, forgotten>>
      BY <1>4 DEF Guard!Check
    <2>3. CASE /\ circuit' = [circuit EXCEPT ![h] = c] /\ loaded' = [loaded EXCEPT ![h] = TRUE]
               /\ c.until <= now /\ Guard!Goes(r, "pace") /\ UNCHANGED holder
      <3> HIDE DEF h, c
      <3>1. h = host[r]
        BY DEF h
      <3>2. \A q \in Req : Attends(q)'
        BY <1>0, <2>1, <2>2, <2>3, <3>1
      <3>3. \A x \in Host : Remembers(x)'
        BY <1>0, <2>1, <2>2, <2>3, <3>1
      <3>4. /\ circuit' \in [Host -> Circuits] /\ loaded' \in [Host -> BOOLEAN]
            /\ pc' \in [Req -> Guard!Stages] /\ holder' \in [Host -> Req \cup {NoReq}]
        BY <1>0, <2>1, <2>2, <2>3, <3>1
      <3> QED
        BY <1>0, <2>2, <3>2, <3>3, <3>4, <1>a
    <2>4. CASE /\ circuit' = [circuit EXCEPT ![h] = c] /\ loaded' = [loaded EXCEPT ![h] = TRUE]
               /\ Guard!Release(r)
      <3> HIDE DEF h, c
      <3>1. h = host[r]
        BY DEF h
      <3>2. \A q \in Req : q # r /\ pc[q] \in AtHost => host[q] # h
        BY <2>2, <3>1
      <3>3. \A q \in Req : Attends(q)'
        BY <1>0, <2>1, <2>2, <2>4, <3>1, <3>2
      <3>4. \A x \in Host : Remembers(x)'
        BY <1>0, <2>1, <2>2, <2>4, <3>1
      <3>5. /\ circuit' \in [Host -> Circuits] /\ loaded' \in [Host -> BOOLEAN]
            /\ pc' \in [Req -> Guard!Stages] /\ holder' \in [Host -> Req \cup {NoReq}]
        BY <1>0, <2>1, <2>2, <2>4, <3>1
      <3> QED
        BY <1>0, <2>2, <3>3, <3>4, <3>5, <1>a
    <2>5. CASE Guard!Release(r) /\ UNCHANGED <<circuit, loaded>>
      BY <1>9, <2>2, <2>5
    <2> QED
      BY <1>4, <2>3, <2>4, <2>5 DEF Guard!Check, Guard!Closed
  <1>5. ASSUME NEW r \in Req, Guard!Pace(r) PROVE GuardInv'
    BY <1>0, <1>5, <1>a DEF Guard!Pace
  <1>6. ASSUME NEW r \in Req, Guard!Start(r) PROVE GuardInv'
    BY <1>0, <1>6, <1>a DEF Guard!Start
  <1>7. ASSUME NEW r \in Req, pc[r] \in {"sent", "body"}, NEW c \in Circuits, Guard!Record(r, c),
               NEW s \in {"saveBody", "saveEnd"}, Guard!Goes(r, s),
               UNCHANGED <<now, holder, Guard!pacing, loaded, saved>> PROVE GuardInv'
    <2> DEFINE h == host[r]
    <2>1. h \in Host /\ c.until \in 0 .. Guard!Horizon /\ loaded[h]
      BY <1>0, <1>7 DEF Circuits
    <2>2. /\ circuit' = [circuit EXCEPT ![h] = c] /\ asked' = [asked EXCEPT ![h] = c.until]
          /\ forgotten' = [forgotten EXCEPT ![h] = FALSE]
      BY <1>7 DEF Guard!Record
    <2>3. \A q \in Req : q # r /\ pc[q] \in AtHost => host[q] # h
      BY <1>7
    <2> HIDE DEF h
    <2>4. \A q \in Req : Attends(q)'
      BY <1>0, <1>7, <2>1, <2>2, <2>3
    <2>5. \A x \in Host : Remembers(x)'
      BY <1>0, <1>7, <2>1, <2>2
    <2>6. /\ circuit' \in [Host -> Circuits] /\ asked' \in [Host -> 0 .. Guard!Horizon]
          /\ forgotten' \in [Host -> BOOLEAN]
      BY <2>1, <2>2
    <2> QED
      BY <1>0, <1>7, <2>4, <2>5, <2>6, <1>a
  <1>8. ASSUME NEW r \in Req, NEW s \in {"body", "recorded"},
               pc[r] \in {"sent", "saveBody"}, Guard!Goes(r, s),
               UNCHANGED <<now, holder, Guard!pacing, circuit, loaded, Guard!ghosts>>,
               saved' \in [Host -> Circuits],
               \A h \in Host : loaded[h] \/ saved'[h] = saved[h] PROVE GuardInv'
    BY <1>0, <1>8, <1>a
  <1>10. ASSUME NEW r \in Req, Guard!Respond(r) PROVE GuardInv'
    BY <1>0, <1>7, <1>8, <1>9, <1>10, CircuitAfter DEF Guard!Respond
  <1>11. ASSUME NEW r \in Req, Guard!EndBody(r) PROVE GuardInv'
    BY <1>0, <1>7, <1>9, <1>11, CircuitAfter DEF Guard!EndBody
  <1>12. ASSUME NEW r \in Req, Guard!EndRecordedBody(r) PROVE GuardInv'
    BY <1>0, <1>9, <1>12 DEF Guard!EndRecordedBody
  <1>13. ASSUME NEW r \in Req, Guard!Save(r) PROVE GuardInv'
    <2>1. /\ saved' \in [Host -> Circuits] /\ loaded[host[r]]
          /\ \A h \in Host : loaded[h] \/ saved'[h] = saved[h]
      <3>1. /\ pc[r] \in {"saveBody", "saveEnd"}
            /\ saved' = [saved EXCEPT ![host[r]] = circuit[host[r]]] \/ saved' = saved
        BY <1>13 DEF Guard!Save
      <3>2. /\ loaded[host[r]] /\ host[r] \in Host /\ circuit[host[r]] \in Circuits
            /\ saved \in [Host -> Circuits]
        BY <1>0, <3>1
      <3> HIDE DEF GuardInv, Guard!TypeOK, Attends, Remembers
      <3>3. saved' \in [Host -> Circuits]
        BY <3>1, <3>2
      <3>4. \A h \in Host : loaded[h] \/ saved'[h] = saved[h]
        BY <3>1, <3>2
      <3> QED
        BY <3>2, <3>3, <3>4
    <2>2. /\ UNCHANGED <<now, Guard!pacing, circuit, loaded, Guard!ghosts>>
          /\ \/ pc[r] = "saveBody" /\ Guard!Goes(r, "recorded") /\ UNCHANGED holder
             \/ Guard!Release(r)
      BY <1>13 DEF Guard!Save
    <2> HIDE DEF Guard!Goes, Guard!Release, Guard!pacing, Guard!ghosts
    <2> QED
      BY <2>1, <2>2, <1>8, <1>9
  <1>14. ASSUME NEW r \in Req, Guard!GiveUp(r) PROVE GuardInv'
    BY <1>0, <1>9, <1>14 DEF Guard!GiveUp
  <1>15. CASE Guard!Restart
    <2>1. \A r \in Req : Attends(r)'
      BY <1>15 DEF Guard!Restart
    <2>2. \A h \in Host : Remembers(h)'
      BY <1>15 DEF Guard!Restart
    <2> QED
      BY <1>0, <1>15, <2>1, <2>2, <1>a DEF Guard!Restart
  <1>16. CASE Guard!Tick
    <2>1. /\ now' = now + 1 /\ now' \in 0 .. MaxTime
          /\ UNCHANGED <<pc, holder, Guard!pacing, circuit, loaded, saved, Guard!ghosts>>
      BY <1>0, <1>16 DEF Guard!Tick
    <2>2. \A h \in Host : circuit[h].until \in Nat /\ nextStart[h] \in Nat
      BY <1>0 DEF Circuits
    <2> QED
      BY <1>0, <1>a, <2>1, <2>2
  <1>17. CASE UNCHANGED Guard!vars
    BY <1>0, <1>17, <1>a DEF Guard!vars
  <1> QED
    BY <1>1, <1>2, <1>3, <1>4, <1>5, <1>6, <1>10, <1>11, <1>12, <1>13, <1>14, <1>15, <1>16,
       <1>17 DEF Guard!Next

\* No request is sent before the cooldown of its host is over, and requests to a host keep their
\* distance, for any number of hosts and requests and all durations (loadCircuit, persistCircuit).
THEOREM CooldownAlwaysKept ==
  GuardConstants => (Guard!Spec => [][Guard!StartsAfterCooldown]_(Guard!vars))
  <1> SUFFICES ASSUME GuardConstants
               PROVE  Guard!Spec => [][Guard!StartsAfterCooldown]_(Guard!vars)
    OBVIOUS
  <1> QED
    BY GuardFirst, GuardStep, GuardImplies, PTL DEF Guard!Spec

-----------------------------------------------------------------------------
(* The session directories of the export managers: who holds which lock at *)
(* which step of a recovery and of a session.                               *)

CONSTANTS Proc, Session, MaxEntries

VARIABLES guard, parts, flock, used, step, own, todo, at

Sessions == INSTANCE ExportSessions

SessionsConstants == Nobody \notin Proc \cup Session

\* Steps behind the base guard, at the entry of another session, and with a session of one's own.
Guarded == {"scan", "open", "lock", "recheck", "remove", "lease", "marker"}
Visiting == {"open", "lock", "recheck", "remove"}
Owning == {"lease", "marker", "live", "closing", "kept"}

\* Who looks at an entry has the guard, and its lease before it removes anything.
Visits(p) ==
    /\ step[p] \in Guarded => guard = p
    /\ step[p] \in Visiting <=> at[p] # Nobody
    /\ step[p] \in {"recheck", "remove"} => flock[at[p]] = p

\* A session is its process's own, which has the lease, and before it lives all of its parts.
Owns(p) ==
    /\ step[p] \in Owning <=> own[p] # Nobody
    /\ step[p] \in Owning \ {"lease"} => flock[own[p]] = p
    /\ step[p] = "lease" => "dir" \in parts[own[p]]
    /\ step[p] = "marker" => {"dir", "lease"} \subseteq parts[own[p]]
    /\ step[p] = "live" => parts[own[p]] = Sessions!Parts
    /\ own[p] # Nobody => own[p] \in used
    /\ \A q \in Proc : own[p] # Nobody /\ own[q] = own[p] => q = p

SessionsInv == Sessions!TypeOK /\ \A p \in Proc : Visits(p) /\ Owns(p)

\* Nobody is in a base directory at first.
LEMMA SessionsFirst == SessionsConstants => (Sessions!Init => SessionsInv)
  <1> SUFFICES ASSUME SessionsConstants, Sessions!Init
               PROVE  SessionsInv
    OBVIOUS
  <1> QED
    BY DEF Sessions!Init, SessionsInv, Visits, Owns, Sessions!TypeOK, SessionsConstants, Guarded,
       Visiting,
       Owning, Sessions!Parts

\* The invariant says what the runs check.
LEMMA SessionsImplies ==
  SessionsConstants => (SessionsInv => Sessions!TypeOK /\ Sessions!LiveSessionKept)
  <1> SUFFICES ASSUME SessionsConstants, SessionsInv
               PROVE  Sessions!TypeOK /\ Sessions!LiveSessionKept
    OBVIOUS
  <1> QED
    BY DEF SessionsInv, Visits, Owns, Sessions!TypeOK, Sessions!LiveSessionKept, SessionsConstants,
       Visiting,
       Owning, Guarded

\* Every step of a recovery, of a session and of its removal keeps the invariant.
LEMMA SessionsStep ==
  SessionsConstants => (SessionsInv /\ [Sessions!Next]_(Sessions!vars) => SessionsInv')
  <1> SUFFICES ASSUME SessionsConstants, SessionsInv, [Sessions!Next]_(Sessions!vars)
               PROVE  SessionsInv'
    OBVIOUS
  <1> USE DEF SessionsConstants, SessionsInv, Visits, Owns, Sessions!TypeOK, Guarded, Visiting,
     Owning,
     Sessions!Goes
  <1>1. ASSUME NEW p \in Proc, Sessions!TakeGuard(p) PROVE SessionsInv'
    BY <1>1 DEF Sessions!TakeGuard
  <1>2. ASSUME NEW p \in Proc, Sessions!Look(p) PROVE SessionsInv'
    BY <1>2 DEF Sessions!Look, Sessions!Known
  <1>3. ASSUME NEW p \in Proc, Sessions!OpenLease(p) PROVE SessionsInv'
    BY <1>3 DEF Sessions!OpenLease, Sessions!Skip
  <1>4. ASSUME NEW p \in Proc, Sessions!LockLease(p) PROVE SessionsInv'
    BY <1>4 DEF Sessions!LockLease, Sessions!Skip, Sessions!Abandoned
  <1>5. ASSUME NEW p \in Proc, Sessions!Recheck(p) PROVE SessionsInv'
    BY <1>5 DEF Sessions!Recheck, Sessions!Skip, Sessions!Parts
  <1>6. ASSUME NEW p \in Proc, Sessions!Remove(p) PROVE SessionsInv'
    BY <1>6 DEF Sessions!Remove, Sessions!Skip, Sessions!RemovePart, Sessions!Parts
  <1>7. ASSUME NEW p \in Proc, Sessions!EndRecovery(p) PROVE SessionsInv'
    BY <1>7 DEF Sessions!EndRecovery
  <1>8. ASSUME NEW p \in Proc, Sessions!MakeDir(p) PROVE SessionsInv'
    BY <1>8 DEF Sessions!MakeDir, Sessions!Parts
  <1>9. ASSUME NEW p \in Proc, Sessions!MakeLease(p) PROVE SessionsInv'
    BY <1>9 DEF Sessions!MakeLease, Sessions!Parts
  <1>10. ASSUME NEW p \in Proc, Sessions!MakeMarker(p) PROVE SessionsInv'
    BY <1>10 DEF Sessions!MakeMarker, Sessions!Parts
  <1>11. ASSUME NEW p \in Proc, Sessions!MakeFails(p) PROVE SessionsInv'
    BY <1>11 DEF Sessions!MakeFails, Sessions!Parts
  <1>12. ASSUME NEW p \in Proc, Sessions!BeginRemoval(p) PROVE SessionsInv'
    BY <1>12 DEF Sessions!BeginRemoval
  <1>13. ASSUME NEW p \in Proc, Sessions!RemoveOwn(p) PROVE SessionsInv'
    BY <1>13 DEF Sessions!RemoveOwn, Sessions!RemovePart
  <1>14. ASSUME NEW p \in Proc, Sessions!Crash(p) PROVE SessionsInv'
    BY <1>14 DEF Sessions!Crash
  <1>15. CASE UNCHANGED Sessions!vars
    BY <1>15 DEF Sessions!vars
  <1> QED
    BY <1>1, <1>2, <1>3, <1>4, <1>5, <1>6, <1>7, <1>8, <1>9, <1>10, <1>11, <1>12, <1>13, <1>14,
       <1>15 DEF Sessions!Next

\* A recovery leaves the sessions of living managers alone, for any number of processes, sessions
\* and entries of the base directory (Recover, CreateSession).
THEOREM LiveSessionsKept == SessionsConstants => (Sessions!Spec => []Sessions!LiveSessionKept)
  <1> SUFFICES ASSUME SessionsConstants PROVE Sessions!Spec => []Sessions!LiveSessionKept
    OBVIOUS
  <1> QED
    BY SessionsFirst, SessionsStep, SessionsImplies, PTL DEF Sessions!Spec

-----------------------------------------------------------------------------
(* A restore into an empty directory, next to Monitors that start there:    *)
(* what is in the directory, and what a power failure leaves of it.          *)

CONSTANT Restore

VARIABLES dir, disk, rstage, run, early

Restoring == INSTANCE StoreRestore

RestoreConstants == Nobody \notin Restore \cup {"monitor"} /\ "monitor" \notin Restore

\* The names of a restored pair, and whoever made what stands there or what a power failure brings
\* back.
Content == Restoring!Name \ {"busy"}
Makers == {dir[n] : n \in Content} \cup {disk[n] : n \in Content}

\* What of a restore is there, and would be after a power failure.
FenceStands(r) == dir["busy"] = r /\ disk["busy"] = r
Has(files, r) == files["active"] = r \/ files["ready"] = r
PairStands(r) ==
    /\ \A d \in Restoring!Database : dir[d] = r /\ disk[d] = r
    /\ Has(dir, r) /\ Has(disk, r)
ActiveStands == dir["active"] # Nobody /\ disk["active"] # Nobody

\* Steps behind the fence, and steps with all of the pair there.
Building == {"alone", "staged", "main", "facts"}
Late == {"marked", "failing"}

\* One restore has made all there is; a Monitor, if it has, both databases.
OneMaker ==
    /\ \A n \in {"busy", "ready", "active"} : dir[n] # "monitor" /\ disk[n] # "monitor"
    /\ \A a, b \in Makers \ {Nobody} : a = b
    /\ "monitor" \in Makers =>
          \A d \in Restoring!Database : dir[d] = "monitor" /\ disk[d] = "monitor"
    /\ disk["active"] # Nobody => dir["active"] # Nobody

\* What a restore has left is behind its fence until the pair stands, or a start was too early.
Covered(r) ==
    /\ r \in Makers => /\ FenceStands(r) \/ PairStands(r) \/ (early /\ ActiveStands)
                       /\ rstage[r] \notin {"idle", "empty", "fenced", "alone", "staged"}
    /\ rstage[r] = "fenced" =>
          \/ dir["busy"] = r
          \/ dir["active"] # Nobody
          \/ \E x \in Restore : PairStands(x) /\ rstage[x] \in {"committed", "done"}
    /\ rstage[r] \in Late /\ r \in Makers => FenceStands(r) \/ (early /\ ActiveStands)
    /\ rstage[r] \in Late \cup Building /\ r \in Makers /\ ~early =>
          run \notin {"verified", "activated"} /\ dir["active"] = Nobody

\* How far it is says what is there.
AsFar(r) ==
    /\ rstage[r] \in Building =>
          /\ FenceStands(r) /\ Makers \subseteq {r, Nobody}
          /\ Restoring!There =
                {"busy"} \cup (IF rstage[r] \in {"main", "facts"} THEN {"main"} ELSE {})
                         \cup (IF rstage[r] = "facts" THEN {"facts"} ELSE {})
    /\ rstage[r] \in {"marked", "committed"} =>
          dir["main"] = r /\ dir["facts"] = r /\ Has(dir, r)
    /\ rstage[r] = "committed" => PairStands(r)

\* What a Monitor has checked.
Checked ==
    /\ run = "verified" => dir["active"] = Nobody
    /\ run = "activated" => dir["active"] # Nobody
    /\ run \in {"verified", "activated"} =>
          \E r \in Restore : /\ rstage[r] \in Late \cup {"committed", "done"}
                             /\ FenceStands(r) \/ PairStands(r) \/ dir["active"] # Nobody
    /\ run # "off" /\ ~early =>
          /\ dir["main"] = dir["facts"] /\ dir["main"] # Nobody
          /\ run # "running" => dir["main"] \in Restore
          /\ run = "verified" => dir["ready"] = dir["main"]
          /\ run # "activated" /\ dir["main"] \in Restore =>
                rstage[dir["main"]] \in {"committed", "done"}
    /\ dir["active"] # Nobody /\ ~early => rstage[dir["active"]] \in {"committed", "done"}

RestoreInv == Restoring!TypeOK /\ OneMaker /\ (\A r \in Restore : Covered(r) /\ AsFar(r)) /\ Checked

\* An empty directory holds nothing of a restore.
LEMMA RestoreFirst == RestoreConstants => (Restoring!Init => RestoreInv)
  <1> SUFFICES ASSUME RestoreConstants, Restoring!Init
               PROVE  RestoreInv
    OBVIOUS
  <1>1. Makers = {Nobody}
    BY DEF Restoring!Init, Makers, Restoring!Name, Content, Restoring!Database
  <1>2. Restoring!TypeOK
    BY DEF Restoring!Init, Restoring!TypeOK, Restoring!Files, Restoring!Name, Restoring!Database
  <1> QED
    BY <1>1, <1>2 DEF Restoring!Init, RestoreInv, OneMaker, Covered, AsFar, Checked,
       Restoring!TypeOK, Restoring!Files, Makers, Restoring!Name, Restoring!Database, Content,
       RestoreConstants, Late, Building, Has, ActiveStands, PairStands, FenceStands

\* The invariant says what the runs check.
LEMMA RestoreImplies ==
  RestoreConstants => (RestoreInv => Restoring!TypeOK /\ Restoring!RunsOnPair)
  <1> SUFFICES ASSUME RestoreConstants, RestoreInv
               PROVE  Restoring!TypeOK /\ Restoring!RunsOnPair
    OBVIOUS
  <1> QED
    BY DEF RestoreInv, OneMaker, Covered, AsFar, Checked, Restoring!TypeOK, Restoring!RunsOnPair,
       Restoring!RestoredIsMarked, Restoring!Restored, Restoring!There, RestoreConstants,
       Restoring!Files, Makers, Restoring!Name, Restoring!Database, Content, Late, Building, Has,
       ActiveStands, PairStands, FenceStands, Restoring!Whole

\* Every step of a restore, of a Monitor that starts, and a power failure keeps the invariant.
LEMMA RestoreStep ==
  RestoreConstants => (RestoreInv /\ [Restoring!Next]_(Restoring!vars) => RestoreInv')
  <1> SUFFICES ASSUME RestoreConstants, RestoreInv, [Restoring!Next]_(Restoring!vars)
               PROVE  RestoreInv'
    OBVIOUS
  <1> USE DEF RestoreInv, OneMaker, Covered, AsFar, Checked, Restoring!TypeOK, Restoring!There,
     RestoreConstants, Restoring!Files, Makers, Restoring!Name, Restoring!Database, Content, Late,
     Building, Has, ActiveStands, PairStands, FenceStands, Restoring!Goes, Restoring!Create,
     Restoring!Remove, Restoring!Sync
  <1>1. ASSUME NEW r \in Restore, Restoring!SeeEmpty(r) PROVE RestoreInv'
    BY <1>1 DEF Restoring!SeeEmpty
  <1>2. ASSUME NEW r \in Restore, Restoring!Fence(r) PROVE RestoreInv'
    BY <1>2 DEF Restoring!Fence
  <1>3. ASSUME NEW r \in Restore, Restoring!SeeAlone(r) PROVE RestoreInv'
    BY <1>3 DEF Restoring!SeeAlone
  <1>4. ASSUME NEW r \in Restore, Restoring!Stage(r) PROVE RestoreInv'
    BY <1>4 DEF Restoring!Stage
  <1>5. ASSUME NEW r \in Restore, Restoring!LinkMain(r) PROVE RestoreInv'
    BY <1>5 DEF Restoring!LinkMain
  <1>6. ASSUME NEW r \in Restore, Restoring!LinkFacts(r) PROVE RestoreInv'
    BY <1>6 DEF Restoring!LinkFacts
  <1>7. ASSUME NEW r \in Restore, Restoring!Mark(r) PROVE RestoreInv'
    BY <1>7 DEF Restoring!Mark
  <1>8. ASSUME NEW r \in Restore, Restoring!Commit(r) PROVE RestoreInv'
    BY <1>8 DEF Restoring!Commit
  <1>9. ASSUME NEW r \in Restore, Restoring!EndRestore(r) PROVE RestoreInv'
    BY <1>9 DEF Restoring!EndRestore
  <1>10. ASSUME NEW r \in Restore, Restoring!Failing(r) PROVE RestoreInv'
    BY <1>10 DEF Restoring!Failing
  <1>11. ASSUME NEW r \in Restore, Restoring!CleanUp(r) PROVE RestoreInv'
    <2>1. CASE /\ {n \in Restoring!Database \cup {"ready"} : dir[n] = r} = {}
               /\ Restoring!Goes(r, "done") /\ Restoring!Sync /\ UNCHANGED <<dir, run, early>>
      BY <1>11, <2>1 DEF Restoring!CleanUp
    <2>2. ASSUME NEW n \in Restoring!Database \cup {"ready"}, dir[n] = r, Restoring!Remove({n}),
                 n = "ready" => \A d \in Restoring!Database : dir[d] # r,
                 UNCHANGED <<disk, rstage, run, early>>
          PROVE RestoreInv'
      BY <1>11, <2>2 DEF Restoring!CleanUp
    <2> HIDE DEF RestoreInv, OneMaker, Covered, AsFar, Checked, Restoring!Remove, Restoring!Sync,
                 Restoring!Goes
    <2>3. \/ /\ {n \in Restoring!Database \cup {"ready"} : dir[n] = r} = {}
             /\ Restoring!Goes(r, "done") /\ Restoring!Sync /\ UNCHANGED <<dir, run, early>>
          \/ /\ \E n \in Restoring!Database \cup {"ready"} :
                   /\ dir[n] = r /\ Restoring!Remove({n})
                   /\ n = "ready" => \A d \in Restoring!Database : dir[d] # r
             /\ UNCHANGED <<disk, rstage, run, early>>
      BY <1>11 DEF Restoring!CleanUp
    <2> QED
      BY <2>1, <2>2, <2>3
  <1>12. ASSUME NEW r \in Restore, Restoring!Kill(r) PROVE RestoreInv'
    BY <1>12 DEF Restoring!Kill
  <1>13. CASE Restoring!StartActivated
    BY <1>13 DEF Restoring!StartActivated
  <1>14. CASE Restoring!VerifyReady
    <2> DEFINE x == dir["ready"]
    <2>1. /\ x \in Restore /\ x \in Makers /\ dir["main"] = x /\ dir["facts"] = x
          /\ dir["active"] = Nobody /\ rstage[x] \in Late \cup {"committed", "done"}
          /\ FenceStands(x) \/ PairStands(x)
      BY <1>14 DEF Restoring!VerifyReady, Restoring!Admissible
    <2>2. /\ UNCHANGED <<dir, disk, rstage>> /\ run' = "verified" /\ early' \in BOOLEAN
          /\ ~early' => ~early /\ \A r \in Restore : rstage[r] \notin {"marked", "failing"}
      BY <1>14 DEF Restoring!VerifyReady
    <2> QED
      BY <2>1, <2>2
  <1>15. CASE Restoring!Activate
    BY <1>15 DEF Restoring!Activate
  <1>16. CASE Restoring!ConsumeBusy
    BY <1>16 DEF Restoring!ConsumeBusy
  <1>17. CASE Restoring!StartOrdinary
    BY <1>17 DEF Restoring!StartOrdinary, Restoring!Unmarked
  <1>18. CASE Restoring!Exit
    BY <1>18 DEF Restoring!Exit
  <1>19. CASE Restoring!PowerFailure
    BY <1>19 DEF Restoring!PowerFailure
  <1>20. CASE UNCHANGED Restoring!vars
    BY <1>20 DEF Restoring!vars
  <1> QED
    BY <1>1, <1>2, <1>3, <1>4, <1>5, <1>6, <1>7, <1>8, <1>9, <1>10, <1>11, <1>12, <1>13, <1>14,
       <1>15, <1>16, <1>17, <1>18, <1>19, <1>20 DEF Restoring!Next

\* A Monitor runs on both halves of one restored pair, for any number of restore commands, whatever
\* power failure comes between (restoreStoreBackup, preflightStoreRestoreActivation).
THEOREM AlwaysRunsOnPair == RestoreConstants => (Restoring!Spec => []Restoring!RunsOnPair)
  <1> SUFFICES ASSUME RestoreConstants PROVE Restoring!Spec => []Restoring!RunsOnPair
    OBVIOUS
  <1> QED
    BY RestoreFirst, RestoreStep, RestoreImplies, PTL DEF Restoring!Spec

-----------------------------------------------------------------------------
(* Log chain investigations: what a result claims of its audit rows, in the *)
(* draft of its goroutine, in the task and in the cache of its operator.     *)

CONSTANTS Owner, Id, NoTask

VARIABLES owner, status, claims, stage, draft, canceling, active, cache, missed, closing

Logs == INSTANCE LogChainInvestigation

Settled == {"complete", "failed", "pending_delivery"}

\* A goroutine's draft, and once it is done its task, claims no audit row that is missing.
DraftsTrue ==
    \A i \in Id :
       /\ stage[i] \in {"new", "hit"} => status[i] = "absent"
       /\ stage[i] = "new" => ~missed[i] /\ draft[i].claims
       /\ stage[i] \notin {"wait", "done"} => (draft[i].claims => ~missed[i])
       /\ stage[i] \in {"wait", "done"} /\ status[i] \in Settled => (claims[i] => ~missed[i])

\* Nor does an entry of the cache.
CachesTrue == \A o \in Owner : \A e \in cache[o] : e.claims => ~e.missed

LogsInv == Logs!TypeOK /\ DraftsTrue /\ CachesTrue /\ Logs!ReleasedIsQuiet

\* What every step keeps, and does not do.
LogsKept == LogsInv' /\ Logs!StaysCancelled

\* Without tasks nothing is claimed.
LEMMA LogsFirst == Logs!Init => LogsInv
  <1> SUFFICES ASSUME Logs!Init
               PROVE  LogsInv
    OBVIOUS
  <1> QED
    BY DEF Logs!Init, LogsInv, DraftsTrue, CachesTrue, Logs!TypeOK, Logs!Results, Logs!Nothing,
       Logs!ReleasedIsQuiet, Logs!AllDone, Settled

\* The invariant says what the runs check.
LEMMA LogsImplies == LogsInv => Logs!TypeOK /\ Logs!NoAuditOverclaimed /\ Logs!ReleasedIsQuiet
  <1> SUFFICES ASSUME LogsInv
               PROVE  Logs!TypeOK /\ Logs!NoAuditOverclaimed /\ Logs!ReleasedIsQuiet
    OBVIOUS
  <1> QED
    BY DEF LogsInv, DraftsTrue, CachesTrue, Logs!NoAuditOverclaimed, Settled

\* Every step of an investigation, of a cancellation and of Close keeps the invariant, and a
\* cancelled task cancelled.
LEMMA LogsStep == LogsInv /\ [Logs!Next]_(Logs!vars) => LogsKept
  <1> SUFFICES ASSUME LogsInv, [Logs!Next]_(Logs!vars)
               PROVE  LogsKept
    OBVIOUS
  <1> USE DEF LogsKept, LogsInv, DraftsTrue, CachesTrue, Logs!TypeOK, Logs!Results, Logs!Nothing,
     Logs!ReleasedIsQuiet, Logs!AllDone, Settled, Logs!Goes, Logs!StaysCancelled
  <1>0. /\ Logs!Nothing \in Logs!Results
        /\ \A i \in Id : /\ draft[i] \in Logs!Results
                         /\ draft[i].status \in Settled /\ draft[i].claims \in BOOLEAN
    OBVIOUS
  <1>1. ASSUME NEW i \in Id, Logs!CreateTask(i) PROVE LogsKept
    BY <1>1 DEF Logs!CreateTask, Logs!Accepting, Logs!Cleaned, Logs!Evictable
  <1>2. ASSUME NEW i \in Id, Logs!Refuse(i) PROVE LogsKept
    BY <1>2 DEF Logs!Refuse, Logs!Cleaned, Logs!Evictable
  <1>3. ASSUME NEW i \in Id, Logs!CreateFromCache(i) PROVE LogsKept
    BY <1>3 DEF Logs!CreateFromCache, Logs!Cleaned, Logs!Evictable, Logs!Unreserve, Logs!Accepting
  <1>4. ASSUME NEW i \in Id, Logs!AuditHit(i) PROVE LogsKept
    BY <1>4 DEF Logs!AuditHit, Logs!Forget
  <1>5. ASSUME NEW i \in Id, Logs!AuditCreated(i) PROVE LogsKept
    <2>1. Logs!TypeOK'
      BY <1>5 DEF Logs!AuditCreated, Logs!Unreserve
    <2>2. DraftsTrue' /\ CachesTrue'
      BY <1>5 DEF Logs!AuditCreated, Logs!Unreserve
    <2>3. Logs!StaysCancelled /\ Logs!ReleasedIsQuiet'
      BY <1>5 DEF Logs!AuditCreated, Logs!Unreserve
    <2> QED
      BY <2>1, <2>2, <2>3
  <1>6. ASSUME NEW i \in Id, Logs!Begin(i) PROVE LogsKept
    <2>1. CASE Logs!Dropped(i)
      BY <1>6, <2>1 DEF Logs!Begin, Logs!Dropped
    <2>2. CASE ~Logs!Dropped(i)
      <3>1. Logs!TypeOK'
        BY <1>6, <2>2 DEF Logs!Begin, Logs!Dropped
      <3>2. DraftsTrue'
        BY <1>6, <2>2 DEF Logs!Begin, Logs!Dropped
      <3>3. CachesTrue'
        BY <1>6, <2>2 DEF Logs!Begin, Logs!Dropped
      <3>4. Logs!StaysCancelled /\ Logs!ReleasedIsQuiet'
        BY <1>6, <2>2 DEF Logs!Begin, Logs!Dropped
      <3> QED
        BY <3>1, <3>2, <3>3, <3>4
    <2> QED
      BY <2>1, <2>2
  <1>7. ASSUME NEW i \in Id, Logs!AuditStarted(i) PROVE LogsKept
    BY <1>7 DEF Logs!AuditStarted, Logs!Audit
  <1>8. ASSUME NEW i \in Id, Logs!Execute(i) PROVE LogsKept
    <2>1. CASE Logs!Dropped(i)
      <3> HIDE DEF Logs!Results, Logs!Nothing
      <3>1. Logs!TypeOK'
        <4>1. draft' \in [Id -> Logs!Results]
          BY <1>0, <1>8, <2>1 DEF Logs!Execute, Logs!Dropped, Logs!Unreserve, Logs!Forget
        <4>2. claims' \in [Id -> BOOLEAN] /\ active' \in [Owner -> Id \cup {NoTask}]
          BY <1>0, <1>8, <2>1 DEF Logs!Execute, Logs!Dropped, Logs!Unreserve, Logs!Forget
        <4>3. status' \in [Id -> {"absent", "queued", "running", "complete", "failed",
                                  "pending_delivery", "cancelled"}]
          BY <1>0, <1>8, <2>1 DEF Logs!Execute, Logs!Dropped, Logs!Unreserve, Logs!Forget
        <4>4. stage' \in [Id -> {"new", "created", "start", "started", "execute", "finished",
                                 "publish", "wait", "rechecked", "republish", "hit", "done"}]
          BY <1>0, <1>8, <2>1 DEF Logs!Execute, Logs!Dropped, Logs!Unreserve, Logs!Forget
        <4>5. cache' \in [Owner -> SUBSET [claims : BOOLEAN, missed : BOOLEAN]]
          BY <1>0, <1>8, <2>1 DEF Logs!Execute, Logs!Dropped, Logs!Unreserve, Logs!Forget
        <4>6. UNCHANGED <<owner, canceling, missed, closing>>
          BY <1>0, <1>8, <2>1 DEF Logs!Execute, Logs!Dropped, Logs!Unreserve, Logs!Forget
        <4> QED BY <4>1, <4>2, <4>3, <4>4, <4>5, <4>6
      <3>2. DraftsTrue'
        BY <1>8, <2>1 DEF Logs!Execute, Logs!Dropped, Logs!Unreserve, Logs!Forget
      <3>3. CachesTrue'
        BY <1>8, <2>1 DEF Logs!Execute, Logs!Dropped, Logs!Unreserve, Logs!Forget
      <3>4. Logs!StaysCancelled /\ Logs!ReleasedIsQuiet'
        BY <1>8, <2>1 DEF Logs!Execute, Logs!Dropped, Logs!Unreserve, Logs!Forget
      <3> QED
        BY <3>1, <3>2, <3>3, <3>4
    <2>2. CASE ~Logs!Dropped(i)
      <3>1. PICK s \in Settled : draft' = [draft EXCEPT ![i].status = s]
        BY <1>8, <2>2 DEF Logs!Execute
      <3> DEFINE d == [draft[i] EXCEPT !.status = s]
      <3>2. /\ d \in Logs!Results /\ d.claims = draft[i].claims
            /\ draft' = [draft EXCEPT ![i] = d]
        BY <1>0, <3>1
      <3> HIDE DEF d
      <3> QED
        BY <1>8, <2>2, <3>2 DEF Logs!Execute
    <2> QED
      BY <2>1, <2>2
  <1>9. ASSUME NEW i \in Id, Logs!AuditFinished(i) PROVE LogsKept
    BY <1>9 DEF Logs!AuditFinished, Logs!Audit
  <1>10. ASSUME NEW i \in Id, Logs!Publish(i) PROVE LogsKept
    <2>1. CASE Logs!Unpublishable(i)
      BY <1>10, <2>1 DEF Logs!Publish, Logs!Unpublishable, Logs!Dropped, Logs!Forget
    <2>2. CASE ~Logs!Unpublishable(i)
      <3> HIDE DEF Logs!Results, Logs!Nothing
      <3>1. Logs!TypeOK'
        <4>1. draft' \in [Id -> Logs!Results]
          BY <1>0, <1>10, <2>2 DEF Logs!Publish, Logs!Unpublishable, Logs!Dropped, Logs!Visible,
             Logs!Unreserve, Logs!Forget
        <4>2. claims' \in [Id -> BOOLEAN] /\ active' \in [Owner -> Id \cup {NoTask}]
          BY <1>0, <1>10, <2>2 DEF Logs!Publish, Logs!Unpublishable, Logs!Dropped, Logs!Visible,
             Logs!Unreserve, Logs!Forget
        <4>3. status' \in [Id -> {"absent", "queued", "running", "complete", "failed",
                                  "pending_delivery", "cancelled"}]
          BY <1>0, <1>10, <2>2 DEF Logs!Publish, Logs!Unpublishable, Logs!Dropped, Logs!Visible,
             Logs!Unreserve, Logs!Forget
        <4>4. stage' \in [Id -> {"new", "created", "start", "started", "execute", "finished",
                                 "publish", "wait", "rechecked", "republish", "hit", "done"}]
          BY <1>0, <1>10, <2>2 DEF Logs!Publish, Logs!Unpublishable, Logs!Dropped, Logs!Visible,
             Logs!Unreserve, Logs!Forget
        <4>5. cache' \in [Owner -> SUBSET [claims : BOOLEAN, missed : BOOLEAN]]
          BY <1>0, <1>10, <2>2 DEF Logs!Publish, Logs!Unpublishable, Logs!Dropped, Logs!Visible,
             Logs!Unreserve, Logs!Forget
        <4>6. UNCHANGED <<owner, canceling, missed, closing>>
          BY <1>0, <1>10, <2>2 DEF Logs!Publish, Logs!Unpublishable, Logs!Dropped, Logs!Visible,
             Logs!Unreserve, Logs!Forget
        <4> QED BY <4>1, <4>2, <4>3, <4>4, <4>5, <4>6
      <3>2. DraftsTrue'
        BY <1>10, <2>2 DEF Logs!Publish, Logs!Unpublishable, Logs!Dropped, Logs!Visible,
           Logs!Unreserve, Logs!Forget
      <3>3. CachesTrue'
        BY <1>10, <2>2 DEF Logs!Publish, Logs!Unpublishable, Logs!Dropped, Logs!Visible,
           Logs!Unreserve, Logs!Forget
      <3>4. Logs!StaysCancelled /\ Logs!ReleasedIsQuiet'
        BY <1>10, <2>2 DEF Logs!Publish, Logs!Unpublishable, Logs!Dropped, Logs!Visible,
           Logs!Unreserve, Logs!Forget
      <3> QED
        BY <3>1, <3>2, <3>3, <3>4
    <2> QED
      BY <2>1, <2>2
  <1>11. ASSUME NEW i \in Id, Logs!Recheck(i) PROVE LogsKept
    <2>1. CASE UNCHANGED draft
      <3>1. Logs!TypeOK'
        BY <1>11, <2>1 DEF Logs!Recheck
      <3>2. DraftsTrue'
        BY <1>11, <2>1 DEF Logs!Recheck
      <3>3. CachesTrue'
        BY <1>11, <2>1 DEF Logs!Recheck
      <3>4. Logs!StaysCancelled /\ Logs!ReleasedIsQuiet'
        BY <1>11, <2>1 DEF Logs!Recheck
      <3> QED
        BY <3>1, <3>2, <3>3, <3>4
    <2>2. ASSUME status[i] = "pending_delivery", NEW s \in Settled,
                 draft' = [draft EXCEPT ![i] = [status |-> s, claims |-> claims[i]]],
                 Logs!Goes(i, "rechecked")
          PROVE LogsKept
      <3> DEFINE d == [status |-> s, claims |-> claims[i]]
      <3>1. d \in Logs!Results /\ d.claims = claims[i]
        OBVIOUS
      <3> HIDE DEF d
      <3> QED
        BY <1>11, <2>2, <3>1 DEF Logs!Recheck
    <2> QED
      BY <1>11, <2>1, <2>2 DEF Logs!Recheck
  <1>12. ASSUME NEW i \in Id, Logs!AuditRecheck(i) PROVE LogsKept
    BY <1>12 DEF Logs!AuditRecheck, Logs!Audit
  <1>13. ASSUME NEW i \in Id, Logs!PublishRecheck(i) PROVE LogsKept
    <2>1. CASE Logs!Dropped(i)
      BY <1>13, <2>1 DEF Logs!PublishRecheck, Logs!Dropped, Logs!Forget
    <2>2. CASE ~Logs!Dropped(i)
      <3> HIDE DEF Logs!Results, Logs!Nothing
      <3>1. Logs!TypeOK'
        <4>1. draft' \in [Id -> Logs!Results]
          BY <1>0, <1>13, <2>2 DEF Logs!PublishRecheck, Logs!Dropped, Logs!Forget, Logs!Visible
        <4>2. claims' \in [Id -> BOOLEAN] /\ active' \in [Owner -> Id \cup {NoTask}]
          BY <1>0, <1>13, <2>2 DEF Logs!PublishRecheck, Logs!Dropped, Logs!Forget, Logs!Visible
        <4>3. status' \in [Id -> {"absent", "queued", "running", "complete", "failed",
                                  "pending_delivery", "cancelled"}]
          BY <1>0, <1>13, <2>2 DEF Logs!PublishRecheck, Logs!Dropped, Logs!Forget, Logs!Visible
        <4>4. stage' \in [Id -> {"new", "created", "start", "started", "execute", "finished",
                                 "publish", "wait", "rechecked", "republish", "hit", "done"}]
          BY <1>0, <1>13, <2>2 DEF Logs!PublishRecheck, Logs!Dropped, Logs!Forget, Logs!Visible
        <4>5. cache' \in [Owner -> SUBSET [claims : BOOLEAN, missed : BOOLEAN]]
          BY <1>0, <1>13, <2>2 DEF Logs!PublishRecheck, Logs!Dropped, Logs!Forget, Logs!Visible
        <4>6. UNCHANGED <<owner, canceling, missed, closing>>
          BY <1>0, <1>13, <2>2 DEF Logs!PublishRecheck, Logs!Dropped, Logs!Forget, Logs!Visible
        <4> QED BY <4>1, <4>2, <4>3, <4>4, <4>5, <4>6
      <3>2. DraftsTrue'
        BY <1>13, <2>2 DEF Logs!PublishRecheck, Logs!Dropped, Logs!Visible, Logs!Forget
      <3>3. CachesTrue'
        BY <1>13, <2>2 DEF Logs!PublishRecheck, Logs!Dropped, Logs!Visible, Logs!Forget
      <3>4. Logs!StaysCancelled /\ Logs!ReleasedIsQuiet'
        BY <1>13, <2>2 DEF Logs!PublishRecheck, Logs!Dropped, Logs!Visible, Logs!Forget
      <3> QED
        BY <3>1, <3>2, <3>3, <3>4
    <2> QED
      BY <2>1, <2>2
  <1>14. ASSUME NEW i \in Id, Logs!Cancel(i) PROVE LogsKept
    BY <1>14 DEF Logs!Cancel, Logs!Unreserve
  <1>15. ASSUME NEW i \in Id, Logs!AuditCancel(i) PROVE LogsKept
    BY <1>15 DEF Logs!AuditCancel
  <1>16. ASSUME NEW o \in Owner, Logs!ExpireCache(o) PROVE LogsKept
    BY <1>16 DEF Logs!ExpireCache
  <1>17. CASE Logs!BeginClose
    BY <1>17 DEF Logs!BeginClose
  <1>18. CASE Logs!EndClose
    BY <1>18 DEF Logs!EndClose
  <1>19. CASE UNCHANGED Logs!vars
    BY <1>19 DEF Logs!vars
  <1> QED
    BY <1>1, <1>2, <1>3, <1>4, <1>5, <1>6, <1>7, <1>8, <1>9, <1>10, <1>11, <1>12, <1>13, <1>14,
       <1>15, <1>16, <1>17, <1>18, <1>19 DEF Logs!Next

\* A result claims no audit row that was not written, and Close waits for every investigation, for
\* any number of operators and tasks (appendInvestigationAudit, investigationWG).
THEOREM AuditNeverOverclaimed == Logs!Spec => [](Logs!NoAuditOverclaimed /\ Logs!ReleasedIsQuiet)
  <1>1. LogsInv /\ [Logs!Next]_(Logs!vars) => LogsInv'
    BY LogsStep DEF LogsKept
  <1> QED
    BY <1>1, LogsFirst, LogsImplies, PTL DEF Logs!Spec

\* A cancelled investigation never shows a result (cancelLogChainInvestigation).
THEOREM CancelledForGood == Logs!Spec => [][Logs!StaysCancelled]_(Logs!vars)
  <1>1. LogsInv /\ [Logs!Next]_(Logs!vars) => LogsInv' /\ Logs!StaysCancelled
    BY LogsStep DEF LogsKept
  <1> QED
    BY <1>1, LogsFirst, PTL DEF Logs!Spec

-----------------------------------------------------------------------------
(* The gate before a migration: what the reference pins, while starts end   *)
(* at any point and other processes write.                                  *)

CONSTANTS MaxPlan, MaxSnapshots, MaxWrites, Retention

VARIABLES plan, present, mark, data, copy, snaps, made, ref, had, column, filled, born

Migration == INSTANCE StoreMigration

\* Stages with the main store locked and the snapshot in the making, and stages past the gate.
Gated == {"main", "both", "half", "copied", "published"}
Past == {"open", "probed", "tables", "columns", "filled", "running"}

Before(x, p) == \A t \in Migration!Store : x.mark[t] < p

\* What the reference names is there and whole, and older than its plan.
PinServes ==
    ref = Migration!NoRef
    \/ \E x \in Migration!Pinned :
          /\ x.whole /\ x.cut /\ x.plan = ref.plan
          /\ ref.plan > born => Before(x, ref.plan)

\* Nothing is ahead of the latest start, and the reference is not without a main store.
UpTo ==
    /\ born <= plan /\ \A s \in Migration!Store : mark[s] <= plan
    /\ present["facts"] => present["main"]
    /\ ~present["main"] => ref = Migration!NoRef
    /\ stage # "off" => plan > 0
    /\ ref.id <= made /\ \A x \in snaps : x.id <= made

\* The snapshot in the making is of the stores as they are.
CopyIsCurrent ==
    /\ stage \in Gated => ref.plan # plan
    /\ stage \in Gated \ {"main"} => present["main"]
    /\ stage \in {"half", "copied"} =>
          copy.mark["main"] = mark["main"] /\ copy.data["main"] = data["main"]
    /\ stage = "copied" =>
          copy.mark["facts"] = mark["facts"] /\ copy.data["facts"] = data["facts"]
    /\ stage = "published" =>
          \E x \in snaps : x.id = made /\ x.whole /\ x.cut /\ x.plan = plan /\ x.mark = mark

\* Past the gate, and in a store that a plan has touched, the reference is that of the plan.
PlanIsPinned ==
    /\ stage = "pinned" => ref.plan = plan
    /\ stage \in Past => ref.plan = plan \/ plan <= born \/ ~present["main"]
    /\ stage \in Past \ {"open", "probed"} => present["main"]
    /\ \A s \in Migration!Store : mark[s] = plan /\ plan > born => ref.plan = plan

MigrationInv == Migration!TypeOK /\ PinServes /\ UpTo /\ CopyIsCurrent /\ PlanIsPinned

\* The stores of an older image need no way back yet.
LEMMA MigrationFirst == Migration!Init => MigrationInv
  <1> SUFFICES ASSUME Migration!Init
               PROVE  MigrationInv
    OBVIOUS
  <1>1. Migration!TypeOK
    <2>1. present \in [Migration!Store -> BOOLEAN]
      <3>1. PICK old \in SUBSET Migration!Store : present = [s \in Migration!Store |-> s \in old]
        BY DEF Migration!Init
      <3>2. \A s \in Migration!Store : (s \in old) \in BOOLEAN
        OBVIOUS
      <3> QED
        BY <3>1, <3>2
    <2>2. Migration!Zero \in [Migration!Store -> Nat] /\ (~present["main"]) \in BOOLEAN
      BY DEF Migration!Zero
    <2>3. /\ snaps \subseteq Migration!Snapshot
          /\ copy \in [mark : [Migration!Store -> Nat], data : [Migration!Store -> Nat]]
      BY <2>2 DEF Migration!Init
    <2>4. <<had, column, filled>> \in BOOLEAN \X BOOLEAN \X BOOLEAN
      BY <2>2 DEF Migration!Init
    <2> QED
      BY <2>1, <2>2, <2>3, <2>4 DEF Migration!Init, Migration!TypeOK, Migration!NoRef,
         Migration!Stages
  <1>2. PinServes /\ UpTo
    <2>1. present["facts"] => present["main"]
      <3>1. PICK old \in SUBSET Migration!Store :
               /\ "facts" \in old => "main" \in old
               /\ present = [s \in Migration!Store |-> s \in old]
        BY DEF Migration!Init
      <3> QED
        BY <3>1 DEF Migration!Store
    <2> QED
      BY <2>1 DEF Migration!Init, PinServes, UpTo, Migration!Zero, Migration!Store,
         Migration!NoRef
  <1>3. CopyIsCurrent /\ PlanIsPinned
    BY DEF Migration!Init, CopyIsCurrent, PlanIsPinned, Migration!Zero, Migration!Store, Gated,
       Past
  <1> QED
    BY <1>1, <1>2, <1>3 DEF MigrationInv

\* The invariant says what the runs check.
LEMMA MigrationImplies == MigrationInv => Migration!TypeOK /\ Migration!RollbackPoint
  <1> SUFFICES ASSUME MigrationInv
               PROVE  Migration!TypeOK /\ Migration!RollbackPoint
    OBVIOUS
  <1> QED
    BY DEF MigrationInv, Migration!TypeOK, PinServes, UpTo, PlanIsPinned, Migration!RollbackPoint,
       Migration!NoRef, Before, Migration!Store

\* Every step of a start, its end at any point and the writes of another process keep the invariant.
LEMMA MigrationStep == MigrationInv /\ [Migration!Next]_(Migration!vars) => MigrationInv'
  <1> SUFFICES ASSUME MigrationInv, [Migration!Next]_(Migration!vars)
               PROVE  MigrationInv'
    OBVIOUS
  <1> USE DEF MigrationInv, Migration!TypeOK, Migration!stores, Migration!backup, Migration!alerts,
     Migration!Stages, Migration!Store
  <1>1. ASSUME UNCHANGED <<Migration!stores, data, Migration!backup>>,
               Migration!TypeOK', plan' \in Nat, plan' = plan \/ plan' > plan,
               stage' # "off" => plan' > 0,
               stage' \in Gated => /\ ref.plan # plan'
                                   /\ stage' \in {"main", "both"}
                                   /\ stage' # "main" => present["main"],
               stage' = "pinned" => stage = "pinned" /\ plan' = plan,
               stage' \in Past => ref.plan = plan' \/ plan' <= born \/ ~present["main"],
               stage' \in Past \ {"open", "probed"} => present["main"]
        PROVE MigrationInv'
    BY <1>1 DEF PinServes, UpTo, CopyIsCurrent, PlanIsPinned, Migration!Pinned, Before, Gated
  <1>2. ASSUME NEW p \in 1 .. MaxPlan, Migration!Start(p) PROVE MigrationInv'
    BY <1>1, <1>2 DEF Migration!Start, Gated, Past
  <1>3. CASE Migration!Reuse
    BY <1>1, <1>3 DEF Migration!Reuse, Gated, Past, UpTo, Migration!Reusable
  <1>4. CASE Migration!LockMain
    BY <1>1, <1>4 DEF Migration!LockMain, Gated, Past, UpTo, Migration!Reusable
  <1>5. CASE Migration!LockFacts
    BY <1>1, <1>5 DEF Migration!LockFacts, Gated, Past, UpTo, CopyIsCurrent
  <1>6. CASE Migration!CopyMain
    BY <1>6 DEF Migration!CopyMain, Migration!Copied, Gated, Past, UpTo, CopyIsCurrent, PinServes,
       Migration!Pinned, PlanIsPinned, Before
  <1>7. CASE Migration!CopyFacts
    BY <1>7 DEF Migration!CopyFacts, Migration!Copied, Gated, Past, UpTo, CopyIsCurrent, PinServes,
       Migration!Pinned, PlanIsPinned, Before
  <1>8. CASE Migration!Publish
    <2> DEFINE x == [id |-> made + 1, plan |-> plan, mark |-> copy.mark, cut |-> copy.data = data,
                     whole |-> TRUE]
    <2>1. /\ copy.mark = mark /\ copy.data = data
      BY <1>8 DEF Migration!Publish, CopyIsCurrent
    <2>2. /\ x \in Migration!Snapshot /\ x.id = made + 1 /\ x.whole /\ x.cut /\ x.plan = plan
          /\ x.mark = mark
      <3>1. /\ copy.mark \in [Migration!Store -> Nat] /\ made + 1 \in Nat
            /\ (copy.data = data) \in BOOLEAN
        OBVIOUS
      <3>2. x \in Migration!Snapshot
        BY <3>1, Zenon DEF Migration!Snapshot
      <3> QED
        BY <2>1, <3>2
    <2>3. /\ snaps' = snaps \cup {x} /\ made' = made + 1 /\ stage = "copied"
          /\ stage' = "published"
          /\ UNCHANGED <<plan, Migration!stores, data, copy, ref, Migration!alerts>>
      BY <1>8 DEF Migration!Publish
    <2> HIDE DEF x
    <2>4. Migration!TypeOK' /\ UpTo' /\ CopyIsCurrent'
      BY <2>2, <2>3 DEF UpTo, CopyIsCurrent, Gated, Migration!Snapshot
    <2>5. PinServes'
      BY <2>3 DEF PinServes, Migration!Pinned, Before, Migration!NoRef
    <2> QED
      BY <2>3, <2>4, <2>5 DEF PlanIsPinned, Past
  <1>9. CASE Migration!Pin
    <2>1. PICK x \in snaps : x.id = made /\ x.whole /\ x.cut /\ x.plan = plan /\ x.mark = mark
      BY <1>9 DEF Migration!Pin, CopyIsCurrent
    <2>2. ref' = [plan |-> plan, id |-> made] /\ stage = "published" /\ stage' = "pinned"
          /\ UNCHANGED <<plan, Migration!stores, data, copy, snaps, made, Migration!alerts>>
      BY <1>9 DEF Migration!Pin
    <2>3. ref'.plan = plan /\ ref'.id = made /\ ref' \in [plan : Nat, id : Nat]
      BY <2>2
    <2>4. plan > born => Before(x, plan)
      BY <2>1, <2>2 DEF CopyIsCurrent, PlanIsPinned, UpTo, Before, Gated
    <2>5. PinServes'
      BY <2>1, <2>2, <2>3, <2>4 DEF PinServes, Migration!Pinned, Before
    <2>6. Migration!TypeOK' /\ UpTo' /\ CopyIsCurrent' /\ PlanIsPinned'
      BY <2>2, <2>3 DEF UpTo, CopyIsCurrent, PlanIsPinned, Gated, Past, Migration!NoRef
    <2> QED
      BY <2>5, <2>6
  <1>10. CASE Migration!Prune
    <2>1. PICK x \in Migration!Surplus :
             \/ snaps' = snaps \ {x} /\ UNCHANGED stage
             \/ snaps' = (snaps \ {x}) \cup {[x EXCEPT !.whole = FALSE]} /\ stage' = "off"
      BY <1>10 DEF Migration!Prune
    <2> DEFINE y == [x EXCEPT !.whole = FALSE]
    <2>2. x \in snaps /\ x.id # ref.id /\ y \in Migration!Snapshot /\ y.id = x.id
      <3>1. x \in snaps /\ x.id # ref.id
        BY <2>1 DEF Migration!Surplus, Migration!Pinned
      <3>2. x \in Migration!Snapshot
        BY <3>1
      <3>3. y \in Migration!Snapshot /\ y.id = x.id
        BY <3>2 DEF Migration!Snapshot
      <3> QED
        BY <3>1, <3>3
    <2>3. /\ snaps' \subseteq snaps \cup {y} /\ Migration!Pinned \subseteq snaps'
          /\ stage = "pinned" /\ stage' \in {"off", "pinned"}
          /\ UNCHANGED <<plan, Migration!stores, data, copy, made, ref, Migration!alerts>>
      BY <1>10, <2>1, <2>2 DEF Migration!Prune, Migration!Pinned
    <2> HIDE DEF y
    <2>4. Migration!TypeOK' /\ UpTo' /\ CopyIsCurrent' /\ PlanIsPinned'
      BY <2>2, <2>3 DEF UpTo, CopyIsCurrent, PlanIsPinned, Gated, Past
    <2>5. PinServes'
      BY <2>3 DEF PinServes, Migration!Pinned, Before
    <2> QED
      BY <2>4, <2>5
  <1>11. CASE Migration!EndGate
    BY <1>1, <1>11 DEF Migration!EndGate, Gated, Past, PlanIsPinned, UpTo
  <1>12. CASE Migration!Probe
    BY <1>1, <1>12 DEF Migration!Probe, Gated, Past, PlanIsPinned, UpTo
  <1>13. CASE Migration!MigrateTables
    BY <1>13 DEF Migration!MigrateTables, Migration!Touch, PinServes, Migration!Pinned, Before,
       UpTo, CopyIsCurrent, PlanIsPinned, Gated, Past
  <1>14. CASE Migration!AddColumns
    BY <1>1, <1>14 DEF Migration!AddColumns, Gated, Past, PlanIsPinned, UpTo
  <1>15. CASE Migration!FillColumns
    BY <1>1, <1>15 DEF Migration!FillColumns, Gated, Past, PlanIsPinned, UpTo
  <1>16. CASE Migration!MigrateFacts
    <2>1. CASE Migration!Touch("facts")
      <3>1. /\ present' = [present EXCEPT !["facts"] = TRUE]
            /\ mark' = [mark EXCEPT !["facts"] = plan]
            /\ present["main"] /\ born' = born
        BY <1>16, <2>1 DEF Migration!Touch, Migration!MigrateFacts, PlanIsPinned, Past
      <3>2. /\ stage = "filled" /\ stage' = "running"
            /\ UNCHANGED <<plan, data, copy, snaps, made, ref, Migration!alerts>>
        BY <1>16 DEF Migration!MigrateFacts
      <3>3. Migration!TypeOK' /\ UpTo'
        BY <3>1, <3>2 DEF UpTo
      <3>4. PinServes' /\ CopyIsCurrent' /\ PlanIsPinned'
        BY <3>1, <3>2 DEF PinServes, Migration!Pinned, Before, CopyIsCurrent, PlanIsPinned, Gated,
           Past
      <3> QED
        BY <3>3, <3>4
    <2>2. CASE UNCHANGED Migration!stores
      BY <1>1, <1>16, <2>2 DEF Migration!MigrateFacts, Gated, Past, PlanIsPinned, UpTo
    <2> QED
      BY <1>16, <2>1, <2>2 DEF Migration!MigrateFacts
  <1>17. CASE Migration!Stop
    BY <1>1, <1>17 DEF Migration!Stop, Gated, Past
  <1>18. ASSUME NEW s \in Migration!Store, Migration!Write(s) PROVE MigrationInv'
    BY <1>18 DEF Migration!Write, Migration!Locked, PinServes, Migration!Pinned, Before, UpTo,
       CopyIsCurrent, PlanIsPinned, Gated, Past
  <1>19. CASE UNCHANGED Migration!vars
    BY <1>19 DEF Migration!vars, PinServes, Migration!Pinned, Before, UpTo, CopyIsCurrent,
       PlanIsPinned, Gated, Past
  <1> QED
    BY <1>2, <1>3, <1>4, <1>5, <1>6, <1>7, <1>8, <1>9, <1>10, <1>11, <1>12, <1>13, <1>14, <1>15,
       <1>16, <1>17, <1>18, <1>19 DEF Migration!Next

\* A migrated store has its way back, for any number of plans, snapshots and writes
\* (createPreMigrationSnapshot, prunePreMigrationSnapshots).
THEOREM RollbackAlwaysPossible == Migration!Spec => []Migration!RollbackPoint
  BY MigrationFirst, MigrationStep, MigrationImplies, PTL DEF Migration!Spec

-----------------------------------------------------------------------------
(* The archive of one lane: the journal of the agent is a chain, of which   *)
(* the bucket holds a part and the acceptance knows a prefix.               *)

CONSTANTS Batch, Seal, Root, Absent, JournalLimit

VARIABLES agent, journal, previous, head, carried, closer, sent, bucket, acked, receipt

Chain == INSTANCE ArchiveChain

ChainConstants ==
    /\ Seal \notin Batch /\ Root \notin Batch \cup {Seal}
    /\ Absent \notin Batch \cup {Seal, Root}

\* An entry comes after the root or another entry, and only the head has no successor.
Linked(e) ==
    /\ previous[e] \in Chain!Journaled \cup {Root}
    /\ previous[e] # head
    /\ e = head \/ \E f \in Chain!Journaled : previous[f] = e

\* Any part of a chain has a first and a last entry: it does not loop.
HasEnds(S) ==
    /\ \E e \in S : previous[e] \notin S
    /\ \E e \in S : \A f \in S : previous[f] # e

\* The journal is one chain from the root to the head, which the closure ends.
OneChain ==
    /\ head \in Chain!Journaled \cup {Root}
    /\ \A e \in Chain!Journaled : Linked(e)
    /\ \A e, f \in Chain!Journaled : previous[e] = previous[f] => e = f
    /\ \A S \in SUBSET Chain!Journaled : S # {} => HasEnds(S)
    /\ Seal \in Chain!Journaled => head = Seal

\* Whatever is sent, stored or answered is in the journal, with the same predecessor.
AsJournaled ==
    /\ \A r \in Req : /\ stage[r] # "idle" => carried[r] \in Batch
                      /\ stage[r] = "put" => carried[r] \in Chain!Journaled
    /\ \A m \in sent : m.what \in Chain!Journaled /\ m.after = previous[m.what]
    /\ \A e \in Chain!Stored : bucket[e] = previous[e]
    /\ acked \subseteq Chain!Journaled

\* What is accepted is stored, and so is all before it.
InOrder ==
    \A e \in Chain!Accepted : e \in Chain!Stored /\ bucket[e] \in Chain!Accepted \cup {Root}

ChainInv == Chain!TypeOK /\ OneChain /\ AsJournaled /\ InOrder

\* An empty journal is a chain.
LEMMA ChainFirst == ChainConstants => (Chain!Init => ChainInv)
  <1> SUFFICES ASSUME ChainConstants, Chain!Init
               PROVE  ChainInv
    OBVIOUS
  <1>1. Chain!Journaled = {} /\ Chain!Stored = {} /\ Chain!Accepted = {}
    BY DEF Chain!Init, Chain!Journaled, Chain!Stored, Chain!Accepted
  <1>2. Chain!TypeOK
    BY DEF Chain!Init, Chain!TypeOK, Chain!Envelope, Chain!Place
  <1>3. OneChain
    <2>1. \A S \in SUBSET Chain!Journaled : S = {}
      BY <1>1
    <2> QED
      BY <1>1, <2>1 DEF Chain!Init, OneChain
  <1>4. AsJournaled /\ InOrder
    BY <1>1 DEF Chain!Init, AsJournaled, InOrder
  <1> QED
    BY <1>2, <1>3, <1>4 DEF ChainInv

\* The invariant says what the runs check.
LEMMA ChainImplies ==
  ChainConstants => (ChainInv => Chain!TypeOK /\ Chain!ClosureCoversAcks /\ Chain!NoFork)
  <1> SUFFICES ASSUME ChainConstants, ChainInv
               PROVE  Chain!TypeOK /\ Chain!ClosureCoversAcks /\ Chain!NoFork
    OBVIOUS
  <1>1. Chain!NoFork
    <2>1. Chain!Stored \subseteq Chain!Journaled /\ \A e \in Chain!Stored : bucket[e] = previous[e]
      BY DEF ChainInv, Chain!TypeOK, AsJournaled, Chain!Journaled, Chain!Stored
    <2>2. \A e, f \in Chain!Stored : bucket[e] = bucket[f] => e = f
      BY <2>1 DEF ChainInv, OneChain, Linked, HasEnds
    <2>3. ASSUME NEW S \in SUBSET Chain!Stored, S # {} PROVE \E e \in S : bucket[e] \notin S
      <3>1. S \in SUBSET Chain!Journaled
        BY <2>1
      <3>2. PICK e \in S : previous[e] \notin S
        BY <2>3, <3>1 DEF ChainInv, OneChain, Linked, HasEnds
      <3> QED
        BY <2>1, <3>2
    <2> QED
      BY <2>2, <2>3 DEF Chain!NoFork
  <1>2. ASSUME Seal \in Chain!Accepted, NEW b \in Batch, b \in acked \/ b \in Chain!Stored
        PROVE b \in Chain!Accepted
    <2>1. /\ b \in Chain!Journaled /\ Chain!Accepted \subseteq Chain!Journaled
          /\ Seal \in Chain!Journaled
          /\ \A e \in Chain!Accepted : previous[e] \in Chain!Accepted \cup {Root}
      BY <1>2 DEF ChainInv, AsJournaled, InOrder, Chain!Stored, Chain!Journaled, Chain!Accepted,
         Chain!Envelope, Chain!TypeOK
    <2> DEFINE S == Chain!Journaled \ Chain!Accepted
    <2>2. SUFFICES ASSUME S # {} PROVE FALSE
      BY <2>1
    <2>3. PICK e \in S : \A f \in S : previous[f] # e
      BY <2>2 DEF ChainInv, OneChain, Linked, HasEnds
    <2>4. e # head /\ e # Root
      BY <1>2, <2>1 DEF ChainInv, OneChain, ChainConstants, Chain!Journaled, Chain!Envelope,
         Linked
    <2>5. PICK f \in Chain!Journaled : previous[f] = e
      BY <2>4 DEF ChainInv, OneChain, Linked, HasEnds
    <2> QED
      BY <2>1, <2>3, <2>4, <2>5
  <1> QED
    BY <1>1, <1>2 DEF ChainInv, Chain!ClosureCoversAcks

\* A new entry at the head of the journal leaves one chain.
LEMMA ChainGrows ==
  ASSUME ChainConstants, ChainInv, NEW e \in Chain!Envelope,
         e \notin Chain!Journaled, Seal \notin Chain!Journaled, Chain!SaveAtHead(e)
  PROVE  /\ OneChain' /\ Chain!Journaled' = Chain!Journaled \cup {e}
         /\ previous' \in [Chain!Envelope -> Chain!Place \cup {Absent}] /\ head' \in Chain!Place
         /\ \A f \in Chain!Journaled : previous'[f] = previous[f]
         /\ previous'[e] \in Chain!Place
  <1>1. /\ Chain!Journaled' = Chain!Journaled \cup {e}
        /\ \A f \in Chain!Journaled : previous'[f] = previous[f]
        /\ previous'[e] = head /\ head' = e
        /\ previous' \in [Chain!Envelope -> Chain!Place \cup {Absent}] /\ head \in Chain!Place
        /\ head' \in Chain!Place /\ e # Root
    BY DEF ChainInv, Chain!TypeOK, Chain!SaveAtHead, Chain!Journaled, ChainConstants, Chain!Place,
       Chain!Envelope
  <1>2. \A f \in Chain!Journaled \cup {e} : previous'[f] # e
    BY <1>1 DEF ChainInv, OneChain, Linked, HasEnds
  <1>3. ASSUME NEW S \in SUBSET (Chain!Journaled \cup {e}), S # {}
        PROVE (\E x \in S : previous'[x] \notin S) /\ (\E x \in S : \A f \in S : previous'[f] # x)
    <2>1. CASE e \notin S
      <3>1. S \in SUBSET Chain!Journaled /\ \A x \in S : previous'[x] = previous[x]
        <4>1. \A x \in S : x \in Chain!Journaled
          BY <1>3, <2>1
        <4> QED
          BY <1>1, <1>3, <4>1
      <3>2. (\E x \in S : previous[x] \notin S) /\ (\E x \in S : \A f \in S : previous[f] # x)
        BY <1>3, <3>1 DEF ChainInv, OneChain, Linked, HasEnds
      <3> QED
        BY <3>1, <3>2
    <2>2. CASE S = {e}
      BY <1>1, <1>2, <2>2 DEF ChainInv, OneChain, Linked, HasEnds
    <2>3. CASE e \in S /\ S \ {e} # {}
      <3>1. PICK x \in S \ {e} : previous[x] \notin S \ {e}
        BY <1>3, <2>3 DEF ChainInv, OneChain, Linked, HasEnds
      <3> QED
        BY <1>1, <1>2, <1>3, <2>3, <3>1
    <2> QED
      BY <1>3, <2>1, <2>2, <2>3
  <1>4. head' \in Chain!Journaled' \cup {Root} /\ (Seal \in Chain!Journaled' => head' = Seal)
    BY <1>1
  <1>5. \A f \in Chain!Journaled' : Linked(f)'
    BY <1>1, <1>2 DEF ChainInv, OneChain, Linked
  <1>6. \A f, g \in Chain!Journaled' : previous'[f] = previous'[g] => f = g
    BY <1>1, <1>2 DEF ChainInv, OneChain, Linked
  <1>7. \A S \in SUBSET Chain!Journaled' : S # {} => HasEnds(S)'
    BY <1>1, <1>3 DEF HasEnds
  <1> QED
    BY <1>1, <1>4, <1>5, <1>6, <1>7 DEF OneChain

\* The journal stays one chain when nothing is entered.
LEMMA ChainStays ==
  ASSUME ChainConstants, ChainInv, UNCHANGED <<previous, head>>
  PROVE  OneChain' /\ Chain!Journaled' = Chain!Journaled
  BY DEF ChainInv, OneChain, Linked, HasEnds, Chain!Journaled

\* Every step of the agent, of the acceptance and of a request keeps the invariant.
LEMMA ChainStep == ChainConstants => (ChainInv /\ [Chain!Next]_(Chain!vars) => ChainInv')
  <1> SUFFICES ASSUME ChainConstants, ChainInv, [Chain!Next]_(Chain!vars)
               PROVE  ChainInv'
    OBVIOUS
  <1> USE DEF ChainInv, AsJournaled
  <1>1. ASSUME UNCHANGED <<previous, head, sent, bucket, acked, receipt>>, Chain!TypeOK',
               \A r \in Req : \/ stage'[r] = stage[r] /\ carried'[r] = carried[r]
                              \/ stage'[r] = "idle"
                              \/ stage'[r] = "queued" /\ carried'[r] \in Batch
        PROVE ChainInv'
    <2>1. /\ OneChain' /\ Chain!Journaled' = Chain!Journaled /\ Chain!Stored' = Chain!Stored
          /\ Chain!Accepted' = Chain!Accepted
      BY <1>1, ChainStays DEF Chain!Stored, Chain!Accepted
    <2> QED
      BY <1>1, <2>1 DEF InOrder
  <1>2. CASE Chain!Start \/ Chain!WriteJournal \/ Chain!End \/ Chain!BeginClose \/ Chain!EndClose
    <2>1. Chain!TypeOK'
      BY <1>2 DEF Chain!Start, Chain!WriteJournal, Chain!End, Chain!BeginClose, Chain!EndClose,
         Chain!TypeOK
    <2> QED
      <3>1. /\ UNCHANGED <<previous, head, sent, bucket, acked, receipt>>
            /\ \A r \in Req : \/ stage'[r] = stage[r] /\ carried'[r] = carried[r]
                              \/ stage'[r] = "idle"
        BY <1>2 DEF Chain!Start, Chain!WriteJournal, Chain!End, Chain!BeginClose, Chain!EndClose
      <3> QED
        BY <1>1, <2>1, <3>1
  <1>3. ASSUME NEW r \in Req, NEW b \in Batch, Chain!Receive(r, b) PROVE ChainInv'
    BY <1>1, <1>3 DEF Chain!Receive, Chain!TypeOK
  <1>4. ASSUME NEW r \in Req, Chain!Freeze(r) PROVE ChainInv'
    <2> DEFINE b == carried[r]
    <2>1. b \in Batch /\ b \in Chain!Envelope
      BY <1>4 DEF Chain!Freeze, Chain!Envelope
    <2>2. /\ OneChain' /\ Chain!Journaled' = Chain!Journaled \cup {b}
          /\ previous' \in [Chain!Envelope -> Chain!Place \cup {Absent}] /\ head' \in Chain!Place
          /\ \A f \in Chain!Journaled : previous'[f] = previous[f]
          /\ previous'[b] \in Chain!Place
      <3>1. CASE Chain!Placed(b) /\ UNCHANGED <<previous, head>>
        BY <2>1, <3>1, ChainStays DEF Chain!Placed, Chain!TypeOK, Chain!Journaled
      <3>2. CASE ~Chain!Placed(b) /\ Chain!MayPlace /\ Chain!SaveAtHead(b)
        BY <2>1, <3>2, ChainGrows DEF Chain!Placed, Chain!MayPlace
      <3> QED
        BY <1>4, <3>1, <3>2 DEF Chain!Freeze
    <2>3. /\ stage' = [stage EXCEPT ![r] = "put"]
          /\ sent' = sent \cup {[what |-> b, after |-> previous'[b]]}
          /\ UNCHANGED <<agent, journal, carried, closer, bucket, acked, receipt>>
      BY <1>4 DEF Chain!Freeze
    <2>4. /\ Chain!Stored' = Chain!Stored /\ Chain!Accepted' = Chain!Accepted
          /\ Chain!Stored \subseteq Chain!Journaled
      BY <2>3 DEF Chain!Stored, Chain!Accepted, Chain!TypeOK, Chain!Journaled
    <2> HIDE DEF b
    <2>5. Chain!TypeOK'
      BY <2>1, <2>2, <2>3 DEF Chain!TypeOK
    <2>6. b = carried[r]
      BY DEF b
    <2> QED
      BY <2>1, <2>2, <2>3, <2>4, <2>5, <2>6 DEF InOrder, Chain!TypeOK
  <1>5. ASSUME NEW r \in Req, Chain!Refuse(r) PROVE ChainInv'
    <2> DEFINE b == carried[r]
    <2>1. b \in Batch /\ b \in Chain!Envelope
      BY <1>5 DEF Chain!Refuse, Chain!Envelope
    <2>2. /\ OneChain' /\ Chain!Journaled \subseteq Chain!Journaled'
          /\ previous' \in [Chain!Envelope -> Chain!Place \cup {Absent}] /\ head' \in Chain!Place
          /\ \A f \in Chain!Journaled : previous'[f] = previous[f]
      <3>1. CASE UNCHANGED <<previous, head>>
        BY <3>1, ChainStays DEF Chain!TypeOK
      <3>2. CASE ~Chain!Placed(b) /\ Chain!MayPlace /\ Chain!SaveAtHead(b)
        BY <2>1, <3>2, ChainGrows DEF Chain!Placed, Chain!MayPlace
      <3> QED
        BY <1>5, <3>1, <3>2 DEF Chain!Refuse
    <2>3. /\ stage' = [stage EXCEPT ![r] = "idle"] /\ carried' = [carried EXCEPT ![r] = Absent]
          /\ UNCHANGED <<agent, journal, closer, sent, bucket, acked, receipt>>
      BY <1>5 DEF Chain!Refuse, Chain!Finish
    <2>4. /\ Chain!Stored' = Chain!Stored /\ Chain!Accepted' = Chain!Accepted
          /\ Chain!Stored \subseteq Chain!Journaled
      BY <2>3 DEF Chain!Stored, Chain!Accepted, Chain!TypeOK, Chain!Journaled
    <2>5. Chain!TypeOK'
      BY <2>2, <2>3 DEF Chain!TypeOK
    <2> QED
      BY <2>2, <2>3, <2>4, <2>5 DEF InOrder, Chain!TypeOK
  <1>6. ASSUME NEW r \in Req, Chain!Answer(r) PROVE ChainInv'
    BY <1>6, ChainStays DEF Chain!Answer, Chain!Finish, Chain!TypeOK, InOrder, Chain!Stored,
       Chain!Accepted
  <1>7. CASE Chain!Close
    <2>2. /\ OneChain' /\ Chain!Journaled' = Chain!Journaled \cup {Seal}
          /\ previous' \in [Chain!Envelope -> Chain!Place \cup {Absent}] /\ head' \in Chain!Place
          /\ \A f \in Chain!Journaled : previous'[f] = previous[f]
          /\ previous'[Seal] \in Chain!Place
      <3>1. CASE Seal \in Chain!Journaled /\ UNCHANGED <<previous, head>>
        BY <3>1, ChainStays DEF Chain!TypeOK, Chain!Journaled, Chain!Place
      <3>2. CASE Chain!MayPlace /\ Chain!SaveAtHead(Seal)
        BY <3>2, ChainGrows DEF Chain!MayPlace, Chain!Envelope
      <3> QED
        BY <1>7, <3>1, <3>2 DEF Chain!Close
    <2>3. /\ closer' = "put" /\ sent' = sent \cup {[what |-> Seal, after |-> previous'[Seal]]}
          /\ UNCHANGED <<agent, journal, stage, carried, bucket, acked, receipt>>
      BY <1>7 DEF Chain!Close
    <2>4. /\ Chain!Stored' = Chain!Stored /\ Chain!Accepted' = Chain!Accepted
          /\ Chain!Stored \subseteq Chain!Journaled
      BY <2>3 DEF Chain!Stored, Chain!Accepted, Chain!TypeOK, Chain!Journaled
    <2>5. Chain!TypeOK'
      BY <2>2, <2>3 DEF Chain!TypeOK, Chain!Envelope
    <2> QED
      BY <2>2, <2>3, <2>4, <2>5 DEF InOrder, Chain!TypeOK
  <1>8. ASSUME NEW m \in sent, Chain!Create(m) PROVE ChainInv'
    <2>1. m.what \in Chain!Envelope /\ m.after \in Chain!Place /\ m.after # Absent
      BY DEF Chain!TypeOK, Chain!Place, Chain!Envelope, ChainConstants
    <2>2. /\ OneChain' /\ Chain!Journaled' = Chain!Journaled /\ Chain!Accepted' = Chain!Accepted
          /\ sent' \subseteq sent
          /\ UNCHANGED <<agent, journal, previous, head, stage, carried, closer, acked, receipt>>
      BY <1>8, ChainStays DEF Chain!Create, Chain!Accepted
    <2>3. /\ Chain!TypeOK' /\ \A e \in Chain!Stored : e \in Chain!Stored' /\ bucket'[e] = bucket[e]
          /\ Chain!Stored' \subseteq Chain!Stored \cup {m.what}
          /\ m.what \notin Chain!Stored => bucket'[m.what] = m.after
      BY <1>8, <2>1 DEF Chain!Create, Chain!TypeOK, Chain!Stored
    <2> QED
      BY <2>1, <2>2, <2>3 DEF InOrder, Chain!TypeOK
  <1>9. ASSUME NEW m \in sent, Chain!Lose(m) PROVE ChainInv'
    BY <1>9, ChainStays DEF Chain!Lose, Chain!TypeOK, InOrder, Chain!Stored, Chain!Accepted
  <1>10. ASSUME NEW e \in Chain!Envelope, Chain!Accept(e) PROVE ChainInv'
    <2>1. /\ Chain!Accepted' = Chain!Accepted \cup {e} /\ Chain!Stored' = Chain!Stored
          /\ e \in Chain!Stored /\ Chain!TypeOK'
      BY <1>10 DEF Chain!Accept, Chain!Pending, Chain!Accepted, Chain!Stored, Chain!TypeOK,
         Chain!task
    <2> QED
      BY <1>10, <2>1, ChainStays DEF Chain!Accept, Chain!PredecessorAccepted, Chain!task, InOrder
  <1>11. ASSUME NEW e \in Chain!Envelope, Chain!Reject(e) \/ Chain!Postpone(e) PROVE ChainInv'
    <2>1. /\ Chain!Accepted' = Chain!Accepted /\ Chain!Stored' = Chain!Stored /\ Chain!TypeOK'
      BY <1>11 DEF Chain!Reject, Chain!Postpone, Chain!Pending, Chain!Accepted, Chain!Stored,
         Chain!TypeOK, Chain!task
    <2> QED
      BY <1>11, <2>1, ChainStays DEF Chain!Reject, Chain!Postpone, Chain!task, InOrder
  <1>12. CASE UNCHANGED Chain!vars
    BY <1>1, <1>12 DEF Chain!vars, Chain!TypeOK
  <1> QED
    BY <1>2, <1>3, <1>4, <1>5, <1>6, <1>7, <1>8, <1>9, <1>10, <1>11, <1>12 DEF Chain!Next

\* A closed chain is complete, and the stored one neither forks nor loops, for any number of
\* batches and requests (checkArchiveClosure, freezeArchiveEnvelope).
THEOREM ChainAlwaysComplete ==
  ChainConstants => (Chain!Spec => [](Chain!ClosureCoversAcks /\ Chain!NoFork))
  <1> SUFFICES ASSUME ChainConstants
               PROVE  Chain!Spec => [](Chain!ClosureCoversAcks /\ Chain!NoFork)
    OBVIOUS
  <1> QED
    BY ChainFirst, ChainStep, ChainImplies, PTL DEF Chain!Spec
------------------------------------------------------------------------------
(* The supervisor of the source lane: goroutines of an epoch run only under  *)
(* the advisory lock, and a Close that gave up the databases has no          *)
(* goroutine left.                                                           *)

CONSTANTS Process, MaxWorkers

VARIABLES lock, link, sup, next, workers, handler, timedOut, ending

Source == INSTANCE SourceLifecycle WITH Free <- Nobody, plan <- next, closing <- ending

\* What a supervisor between two epochs holds: nothing.
Rests(p) ==
    sup[p] = "retry" => workers[p] = 0 /\ link[p] = "none" /\ ~timedOut[p]

\* An epoch that has begun keeps its lease until it is drained.
Leased(p) == sup[p] \in {"epoch", "ending", "drain"} => link[p] # "none" /\ ~timedOut[p]

\* A supervisor that ended leaves goroutines behind only in quarantine.
Quarantined(p) == sup[p] = "stopped" /\ workers[p] > 0 => timedOut[p] /\ link[p] # "none"

\* The server knows the holder of every intact lease.
Holds(p) == link[p] = "held" => lock = p

\* A Close that succeeded was the last to do anything.
AtRest(p) == ending[p] = "closed" => sup[p] = "stopped" /\ workers[p] = 0

SourceInv ==
    /\ Source!TypeOK
    /\ \A p \in Process : Rests(p) /\ Leased(p) /\ Quarantined(p) /\ Holds(p) /\ AtRest(p)

\* The invariant says what the runs check.
LEMMA SourceImplies == SourceInv => Source!TypeOK /\ Source!Fenced /\ Source!ClosedIsDrained
  BY DEF SourceInv, Source!TypeOK, Rests, Leased, Quarantined, Holds, AtRest,
         Source!Fenced, Source!Broken, Source!ClosedIsDrained

\* A process begins without lock, worker and lease.
LEMMA SourceFirst == Source!Init => SourceInv
  BY DEF Source!Init, SourceInv, Source!TypeOK, Rests, Leased, Quarantined, Holds, AtRest

\* Every step of a supervisor, a goroutine, the server or Close preserves it.
LEMMA SourceStep ==
  ASSUME Nobody \notin Process PROVE SourceInv /\ [Source!Next]_(Source!vars) => SourceInv'
  <1> SUFFICES ASSUME SourceInv, [Source!Next]_(Source!vars) PROVE SourceInv'
    OBVIOUS
  <1> USE DEF SourceInv, Source!TypeOK, Rests, Leased, Quarantined, Holds, AtRest
  <1>1. CASE UNCHANGED Source!vars
    BY <1>1 DEF Source!vars
  <1>2. ASSUME NEW p \in Process, Source!Probe(p) \/ Source!Quit(p) \/ Source!Ask(p) PROVE SourceInv'
    <2>1. CASE Source!Probe(p)
      BY <2>1 DEF Source!Probe
    <2>2. CASE Source!Quit(p)
      BY <2>2 DEF Source!Quit
    <2>3. CASE Source!Ask(p)
      BY <2>3 DEF Source!Ask
    <2> QED
      BY <1>2, <2>1, <2>2, <2>3
  <1>3. ASSUME NEW p \in Process, Source!Acquire(p) PROVE SourceInv'
    BY <1>3 DEF Source!Acquire
  <1>4. ASSUME NEW p \in Process, Source!AcquireFails(p) PROVE SourceInv'
    BY <1>4 DEF Source!AcquireFails
  <1>5. ASSUME NEW p \in Process, Source!EndEpoch(p) \/ Source!Seal(p) \/ Source!DrainTimeout(p)
        PROVE  SourceInv'
    <2>1. CASE Source!EndEpoch(p)
      BY <2>1 DEF Source!EndEpoch
    <2>2. CASE Source!Seal(p)
      BY <2>2 DEF Source!Seal
    <2>3. CASE Source!DrainTimeout(p)
      BY <2>3 DEF Source!DrainTimeout
    <2> QED
      BY <1>5, <2>1, <2>2, <2>3
  <1>6. ASSUME NEW p \in Process, Source!Release(p) PROVE SourceInv'
    BY <1>6 DEF Source!Release, Source!Drained, Source!Unlocked
  <1>7. ASSUME NEW p \in Process, Source!StartChild(p) \/ Source!Join(p) \/ Source!WorkerReturns(p)
        PROVE  SourceInv'
    <2>1. CASE Source!StartChild(p)
      BY <2>1 DEF Source!StartChild, Source!Canceled
    <2>2. CASE Source!Join(p)
      BY <2>2 DEF Source!Join, Source!Admitted, Source!Sealed
    <2>3. CASE Source!WorkerReturns(p)
      BY <2>3 DEF Source!WorkerReturns
    <2> QED
      BY <1>7, <2>1, <2>2, <2>3
  <1>8. ASSUME NEW p \in Process, Source!Cut(p) \/ Source!Failover(p) \/ Source!Reap(p) PROVE SourceInv'
    BY <1>8 DEF Source!Cut, Source!Failover, Source!Reap
  <1>9. ASSUME NEW p \in Process, Source!BeginClose(p) \/ Source!GiveUpClose(p) PROVE SourceInv'
    BY <1>9 DEF Source!BeginClose, Source!GiveUpClose
  <1>10. ASSUME NEW p \in Process, Source!EndClose(p) PROVE SourceInv'
    BY <1>10 DEF Source!EndClose, Source!SourceStopped, Source!Drained, Source!Unlocked
  <1>11. ASSUME NEW p \in Process, Source!Restart(p) PROVE SourceInv'
    BY <1>11 DEF Source!Restart
  <1> QED
    BY <1>1, <1>2, <1>3, <1>4, <1>5, <1>6, <1>7, <1>8, <1>9, <1>10, <1>11 DEF Source!Next

\* The lock, the leases and the supervisors keep the shape the code gives them (source_lifecycle.go).
THEOREM SourceTypeCorrect == ASSUME Nobody \notin Process PROVE Source!Spec => []Source!TypeOK
  <1>1. SourceInv /\ [Source!Next]_(Source!vars) => SourceInv'
    BY SourceStep
  <1> QED
    BY <1>1, SourceFirst, SourceImplies, PTL DEF Source!Spec

\* Workers of an epoch run only under the advisory lock (superviseSource, goSourceEpoch).
THEOREM WorkersAreFenced == ASSUME Nobody \notin Process PROVE Source!Spec => []Source!Fenced
  <1>1. SourceInv /\ [Source!Next]_(Source!vars) => SourceInv'
    BY SourceStep
  <1> QED
    BY <1>1, SourceFirst, SourceImplies, PTL DEF Source!Spec

\* Close gives up the databases only when the last goroutine is gone (stopAndWaitSource).
THEOREM CloseIsQuiet == ASSUME Nobody \notin Process PROVE Source!Spec => []Source!ClosedIsDrained
  <1>1. SourceInv /\ [Source!Next]_(Source!vars) => SourceInv'
    BY SourceStep
  <1> QED
    BY <1>1, SourceFirst, SourceImplies, PTL DEF Source!Spec

\* So two processes whose leases are intact never both work on the source.
THEOREM OneWorksAtATime ==
  ASSUME Nobody \notin Process
  PROVE  Source!Spec => [](\A p, q \in Process :
            workers[p] > 0 /\ workers[q] > 0 /\ ~Source!Broken(p) /\ ~Source!Broken(q) => p = q)
  <1>1. Source!Fenced => (\A p, q \in Process :
            workers[p] > 0 /\ workers[q] > 0 /\ ~Source!Broken(p) /\ ~Source!Broken(q) => p = q)
    BY DEF Source!Fenced
  <1> QED
    BY <1>1, WorkersAreFenced, PTL
------------------------------------------------------------------------------
(* The queue of finance reports, with a history longer than the queue        *)
(* (financeReportQueueCapacity 16, financeReportQueueHistory 32): the        *)
(* history keeps its bound although only ended jobs make room, because the   *)
(* jobs that may not go all have a place in the queue or are the worker's.   *)

CONSTANTS Key, Capacity, History, RaceLimit

VARIABLES jobs, pending, worker, current, shutting

Reports == INSTANCE FinanceQueue WITH NoKey <- Nobody, closing <- shutting

QueueConstants ==
    /\ Capacity \in Nat /\ History \in Nat /\ RaceLimit \in Nat
    /\ Capacity < History

QueueInv ==
    /\ Reports!TypeOK /\ Reports!ReportsServed
    /\ IsFiniteSet(Reports!Known)
    /\ Len(pending) <= Capacity
    /\ worker = "run" => current \in Key
    /\ shutting # "open" => pending = <<>>

-----------------------------------------------------------------------------
(* The keys in a queue.                                                     *)

\* A key that joins the end of a queue it is not in.
LEMMA Joins ==
  ASSUME NEW S, NEW s \in Seq(S), Reports!IsInjective(s), NEW k \in S, k \notin Reports!ToSet(s)
  PROVE  /\ Append(s, k) \in Seq(S) /\ Append(s, k) # <<>>
         /\ Len(Append(s, k)) = Len(s) + 1
         /\ Reports!ToSet(Append(s, k)) = Reports!ToSet(s) \cup {k}
         /\ Reports!IsInjective(Append(s, k))
  <1> DEFINE t == Append(s, k)
  <1>1. /\ t \in Seq(S) /\ t # <<>> /\ Len(t) = Len(s) + 1
        /\ \A i \in 1 .. Len(s) : t[i] = s[i]
        /\ t[Len(s) + 1] = k
    BY AppendProperties
  <1>2. DOMAIN s = 1 .. Len(s) /\ DOMAIN t = 1 .. Len(s) + 1 /\ Len(s) \in Nat
    BY <1>1, LenProperties
  <1> HIDE DEF t
  <1>3. Reports!ToSet(t) = Reports!ToSet(s) \cup {k}
    <2>1. ASSUME NEW i \in DOMAIN t PROVE t[i] \in Reports!ToSet(s) \cup {k}
      <3>1. i \in 1 .. Len(s) \/ i = Len(s) + 1
        BY <1>2
      <3> QED
        BY <1>1, <1>2, <3>1 DEF Reports!ToSet
    <2>2. ASSUME NEW i \in DOMAIN s PROVE s[i] \in Reports!ToSet(t)
      <3>1. i \in DOMAIN t /\ t[i] = s[i]
        BY <1>1, <1>2
      <3> QED
        BY <3>1 DEF Reports!ToSet
    <2>3. k \in Reports!ToSet(t)
      BY <1>1, <1>2 DEF Reports!ToSet
    <2> QED
      BY <2>1, <2>2, <2>3 DEF Reports!ToSet
  <1>4. Reports!IsInjective(t)
    <2> SUFFICES ASSUME NEW a \in DOMAIN t, NEW b \in DOMAIN t, t[a] = t[b] PROVE a = b
      BY DEF Reports!IsInjective
    <2>1. \A i \in DOMAIN s : s[i] # k
      BY DEF Reports!ToSet
    <2> QED
      BY <1>1, <1>2, <2>1 DEF Reports!IsInjective
  <1> QED
    BY <1>1, <1>3, <1>4 DEF t

\* The first key of a queue leaves it.
LEMMA Leaves ==
  ASSUME NEW S, NEW s \in Seq(S), Reports!IsInjective(s), s # <<>>
  PROVE  /\ Head(s) \in S /\ Head(s) \in Reports!ToSet(s)
         /\ Tail(s) \in Seq(S) /\ Len(Tail(s)) = Len(s) - 1
         /\ Reports!ToSet(Tail(s)) = Reports!ToSet(s) \ {Head(s)}
         /\ Reports!IsInjective(Tail(s))
  <1> DEFINE t == Tail(s)
  <1>1. /\ Head(s) \in S /\ t \in Seq(S) /\ Len(t) = Len(s) - 1
        /\ \A i \in 1 .. Len(t) : t[i] = s[i + 1]
    BY HeadTailProperties
  <1>2. /\ DOMAIN s = 1 .. Len(s) /\ DOMAIN t = 1 .. Len(s) - 1
        /\ Len(s) \in Nat \ {0} /\ Head(s) = s[1]
    BY <1>1, LenProperties, EmptySeq
  <1> HIDE DEF t
  <1>3. Reports!ToSet(t) = Reports!ToSet(s) \ {Head(s)}
    <2>1. ASSUME NEW i \in DOMAIN t PROVE t[i] \in Reports!ToSet(s) \ {Head(s)}
      <3>1. i + 1 \in DOMAIN s /\ 1 \in DOMAIN s /\ i + 1 # 1 /\ t[i] = s[i + 1]
        BY <1>1, <1>2
      <3> QED
        BY <1>2, <3>1 DEF Reports!ToSet, Reports!IsInjective
    <2>2. ASSUME NEW i \in DOMAIN s, s[i] # Head(s) PROVE s[i] \in Reports!ToSet(t)
      <3>1. i - 1 \in DOMAIN t /\ t[i - 1] = s[i]
        BY <1>1, <1>2, <2>2
      <3> QED
        BY <3>1 DEF Reports!ToSet
    <2> QED
      BY <2>1, <2>2 DEF Reports!ToSet
  <1>4. Reports!IsInjective(t)
    <2> SUFFICES ASSUME NEW a \in DOMAIN t, NEW b \in DOMAIN t, t[a] = t[b] PROVE a = b
      BY DEF Reports!IsInjective
    <2>1. a + 1 \in DOMAIN s /\ b + 1 \in DOMAIN s /\ s[a + 1] = s[b + 1]
      BY <1>1, <1>2
    <2>2. a + 1 = b + 1
      BY <2>1 DEF Reports!IsInjective
    <2> QED
      BY <1>2, <2>2
  <1>5. Head(s) \in Reports!ToSet(s)
    BY <1>2 DEF Reports!ToSet
  <1> QED
    BY <1>1, <1>3, <1>4, <1>5 DEF t

\* Nothing waits in an empty queue.
LEMMA EmptyQueue ==
  ASSUME NEW S
  PROVE  <<>> \in Seq(S) /\ Len(<<>>) = 0 /\ Reports!ToSet(<<>>) = {} /\ Reports!IsInjective(<<>>)
  BY EmptySeq DEF Reports!ToSet, Reports!IsInjective

\* A queue is at least as long as it has keys.
LEMMA FewKeys ==
  ASSUME NEW S, NEW s \in Seq(S)
  PROVE  IsFiniteSet(Reports!ToSet(s)) /\ Cardinality(Reports!ToSet(s)) <= Len(s)
  <1>1. Len(s) \in Nat /\ DOMAIN s = 1 .. Len(s) /\ s \in [1 .. Len(s) -> S]
    BY LenProperties
  <1>2. s \in Surjection(1 .. Len(s), Reports!ToSet(s))
    BY <1>1 DEF Surjection, Reports!ToSet
  <1>3. ExistsSurjection(1 .. Len(s), Reports!ToSet(s))
    BY <1>2 DEF ExistsSurjection
  <1> QED
    BY <1>1, <1>3, FS_SurjCardinalityBound, FS_NatSurjection

\* Another element makes a set larger by one at most.
LEMMA OneMore ==
  ASSUME NEW S, NEW x, IsFiniteSet(S)
  PROVE  /\ IsFiniteSet(S \cup {x})
         /\ Cardinality(S) \in Nat /\ Cardinality(S \cup {x}) \in Nat
         /\ Cardinality(S \cup {x}) <= Cardinality(S) + 1
  <1>1. IsFiniteSet(S \cup {x})
    BY FS_AddElement
  <1>2. Cardinality(S) \in Nat /\ Cardinality(S \cup {x}) \in Nat
    BY <1>1, FS_CardinalityType
  <1>3. Cardinality(S \cup {x}) = IF x \in S THEN Cardinality(S) ELSE Cardinality(S) + 1
    BY FS_AddElement
  <1> QED
    BY <1>1, <1>2, <1>3

-----------------------------------------------------------------------------
\* The queue counts its jobs as anyone does.
LEMMA SameCount == \A S : Reports!Cardinality(S) = Cardinality(S)
  BY Zenon DEF Reports!Cardinality, Cardinality

\* The queue begins empty.
LEMMA QueueFirst == QueueConstants => (Reports!Init => QueueInv)
  <1> SUFFICES ASSUME QueueConstants, Reports!Init PROVE QueueInv
    OBVIOUS
  <1>1. Reports!Known = {}
    BY DEF Reports!Init, Reports!Known
  <1>2. Reports!TypeOK
    BY EmptyQueue DEF Reports!Init, Reports!TypeOK
  <1>3. Reports!ReportsServed
    BY <1>1, EmptyQueue, FS_EmptySet, SameCount
    DEF Reports!Init, Reports!ReportsServed, Reports!Absent, QueueConstants
  <1> QED
    BY <1>1, <1>2, <1>3, EmptyQueue, FS_EmptySet DEF QueueInv, Reports!Init, QueueConstants

\* The invariant says what the runs check.
LEMMA QueueImplies == QueueInv => Reports!TypeOK /\ Reports!ReportsServed
  BY DEF QueueInv

\* The queued and the running jobs alone never fill the history.
LEMMA WaitingIsBounded ==
  ASSUME QueueConstants, QueueInv, ~\E k \in Reports!Known : Reports!Evictable(k),
         Len(pending) < Capacity
  PROVE  Cardinality(Reports!Known) < History
  <1> DEFINE W == Reports!ToSet(pending) \cup {current}
  <1>1. Reports!Known \subseteq W
    BY DEF Reports!Known, Reports!Evictable, QueueInv, Reports!TypeOK, Reports!ReportsServed, Reports!Job
  <1>2. IsFiniteSet(Reports!ToSet(pending)) /\ Cardinality(Reports!ToSet(pending)) <= Len(pending)
    BY FewKeys DEF QueueInv, Reports!TypeOK
  <1>3. IsFiniteSet(W) /\ Cardinality(W) <= Cardinality(Reports!ToSet(pending)) + 1
    BY <1>2, OneMore
  <1>4. Cardinality(Reports!Known) <= Cardinality(W) /\ Cardinality(Reports!Known) \in Nat
    BY <1>1, <1>3, FS_Subset, FS_CardinalityType
  <1>5. Len(pending) \in Nat /\ Cardinality(W) \in Nat /\ Cardinality(Reports!ToSet(pending)) \in Nat
    BY <1>2, <1>3, LenProperties, FS_CardinalityType DEF QueueInv, Reports!TypeOK
  <1> QED
    BY <1>2, <1>3, <1>4, <1>5 DEF QueueConstants

\* The keys whose records stay.
Left(kept) == {x \in Key : kept[x] # Reports!Absent}

\* Whatever makes room, one more job fits.
LEMMA RoomForOne ==
  ASSUME QueueConstants, QueueInv, NEW kept \in Reports!Rooms,
         Len(pending) < Capacity, NEW k \in Key
  PROVE  /\ kept \in [Key -> Reports!Job \cup {Reports!Absent}]
         /\ \A x \in Key :
              kept[x] = jobs[x] \/ (kept[x] = Reports!Absent /\ jobs[x].state \in Reports!Ended)
         /\ IsFiniteSet(Left(kept) \cup {k}) /\ Cardinality(Left(kept) \cup {k}) <= History
  <1> DEFINE K == Left(kept)
  <1>1. /\ jobs \in [Key -> Reports!Job \cup {Reports!Absent}]
        /\ IsFiniteSet(Reports!Known) /\ Cardinality(Reports!Known) \in Nat
        /\ Cardinality(Reports!Known) <= History /\ History \in Nat
    BY FS_CardinalityType, SameCount DEF QueueInv, Reports!TypeOK, Reports!ReportsServed, QueueConstants
  <1>2. CASE kept = jobs /\ Cardinality(Reports!Known) < History
    <2>1. K = Reports!Known
      BY <1>2 DEF Reports!Known, Left
    <2>2. /\ IsFiniteSet(K \cup {k}) /\ Cardinality(K \cup {k}) \in Nat
          /\ Cardinality(K \cup {k}) <= Cardinality(Reports!Known) + 1
      BY <1>1, <2>1, OneMore
    <2>3. Cardinality(K \cup {k}) <= History
      BY <1>1, <1>2, <2>2
    <2> QED
      BY <1>1, <1>2, <2>2, <2>3
  <1>3. CASE \E x \in Reports!Known : Reports!Evictable(x)
                /\ kept = [jobs EXCEPT ![x] = Reports!Absent]
    <2>1. PICK x \in Reports!Known : Reports!Evictable(x)
                /\ kept = [jobs EXCEPT ![x] = Reports!Absent]
      BY <1>3
    <2>2. K = Reports!Known \ {x}
      BY <1>1, <2>1 DEF Reports!Known, Left
    <2>3. IsFiniteSet(K) /\ Cardinality(K) = Cardinality(Reports!Known) - 1
      <3> HIDE DEF K
      <3>1. Cardinality(Reports!Known \ {x}) = Cardinality(Reports!Known) - 1
            /\ IsFiniteSet(Reports!Known \ {x})
        BY <1>1, <2>1, FS_RemoveElement
      <3> QED
        BY <2>2, <3>1
    <2>4. /\ IsFiniteSet(K \cup {k}) /\ Cardinality(K \cup {k}) \in Nat
          /\ Cardinality(K \cup {k}) <= Cardinality(K) + 1
      BY <2>3, OneMore
    <2>5. Cardinality(K \cup {k}) <= History
      BY <1>1, <2>3, <2>4
    <2>6. kept \in [Key -> Reports!Job \cup {Reports!Absent}]
      BY <1>1, <2>1
    <2>7. jobs[x].state \in Reports!Ended
      BY <2>1 DEF Reports!Evictable
    <2>8. \A y \in Key :
             kept[y] = jobs[y] \/ (kept[y] = Reports!Absent /\ jobs[y].state \in Reports!Ended)
      <3> SUFFICES ASSUME NEW y \in Key PROVE kept[y] = IF y = x THEN Reports!Absent ELSE jobs[y]
        BY <2>7
      <3> QED
        BY <1>1, <2>1
    <2> QED
      BY <2>4, <2>5, <2>6, <2>8
  <1> QED
    BY <1>2, <1>3, WaitingIsBounded, SameCount DEF Reports!Rooms

\* What the records of a job look like, and that the absence of one is none.
LEMMA RecordShapes ==
  ASSUME RaceLimit \in Nat
  PROVE  /\ \A j \in Reports!Job : \A st \in Reports!Ended \cup {"queued", "running"} :
              [j EXCEPT !.state = st] \in Reports!Job
         /\ [state |-> "queued", races |-> 0, unresolved |-> FALSE] \in Reports!Job
         /\ [state |-> "succeeded", races |-> 0, unresolved |-> FALSE] \in Reports!Job
         /\ Reports!Absent \notin Reports!Job
         /\ \A j \in Reports!Job : j # Reports!Absent /\ j.state # "absent"
  BY DEF Reports!Job, Reports!Ended, Reports!Absent

\* A run that ended leaves the record of an ended job (drain).
LEMMA SettledShape ==
  ASSUME RaceLimit \in Nat, NEW j \in Reports!Job, NEW o \in {"ok", "canceled", "failed", "changed"}
  PROVE  Reports!Settled(j, o) \in Reports!Job /\ Reports!Settled(j, o).state \in Reports!Ended
  <1>1. j.races \in 0 .. RaceLimit /\ j.unresolved \in BOOLEAN
    BY DEF Reports!Job
  <1>2. (IF j.races < RaceLimit THEN j.races + 1 ELSE RaceLimit) \in 0 .. RaceLimit
    BY <1>1
  <1>3. ASSUME NEW r \in 0 .. RaceLimit
        PROVE  /\ [j EXCEPT !.state = "retrying", !.races = r] \in Reports!Job
               /\ [j EXCEPT !.state = "failed", !.races = r, !.unresolved = TRUE] \in Reports!Job
    BY DEF Reports!Job, Reports!Ended
  <1>4. CASE o = "ok"
    BY <1>4 DEF Reports!Settled, Reports!Job, Reports!Ended
  <1>5. CASE o = "canceled"
    BY <1>5 DEF Reports!Settled, Reports!Job, Reports!Ended
  <1>6. CASE o = "failed"
    BY <1>6 DEF Reports!Settled, Reports!Job, Reports!Ended
  <1>7. CASE o = "changed"
    BY <1>2, <1>3, <1>7 DEF Reports!Settled, Reports!Job, Reports!Ended
  <1> QED
    BY <1>4, <1>5, <1>6, <1>7

\* A submission queues its key once and leaves the history its bound (submit).
LEMMA SubmitStep ==
  ASSUME QueueConstants, QueueInv, NEW k \in Key, Reports!Submit(k)
  PROVE  QueueInv'
  <1>1. PICK kept \in Reports!Rooms : jobs' = [kept EXCEPT ![k] = Reports!Queued(k)]
    BY DEF Reports!Submit
  <1>2. /\ kept \in [Key -> Reports!Job \cup {Reports!Absent}]
        /\ \A x \in Key :
             kept[x] = jobs[x] \/ (kept[x] = Reports!Absent /\ jobs[x].state \in Reports!Ended)
        /\ IsFiniteSet(Left(kept) \cup {k}) /\ Cardinality(Left(kept) \cup {k}) <= History
    BY RoomForOne DEF Reports!Submit
  <1>3. Reports!Queued(k) \in Reports!Job /\ Reports!Queued(k).state = "queued"
    BY RecordShapes DEF QueueConstants, QueueInv, Reports!TypeOK, Reports!Queued, Reports!Job
  <1>4. jobs' \in [Key -> Reports!Job \cup {Reports!Absent}]
    BY <1>1, <1>2, <1>3
  <1>5. Reports!Known' = Left(kept) \cup {k}
    BY <1>1, <1>2, <1>3, RecordShapes DEF Reports!Known, Left, QueueConstants
  <1>6. /\ pending \in Seq(Key) /\ Reports!IsInjective(pending) /\ k \notin Reports!ToSet(pending)
        /\ pending' = Append(pending, k)
    BY DEF Reports!Submit, QueueInv, Reports!TypeOK, Reports!ReportsServed
  <1>7. /\ pending' \in Seq(Key) /\ pending' # <<>> /\ Len(pending') = Len(pending) + 1
        /\ Reports!ToSet(pending') = Reports!ToSet(pending) \cup {k} /\ Reports!IsInjective(pending')
    BY <1>6, Joins
  <1>8. Reports!TypeOK'
    BY <1>4, <1>7 DEF Reports!TypeOK, QueueInv, Reports!Submit
  <1>9. \A x \in Key : jobs'[x] = IF x = k THEN Reports!Queued(k) ELSE kept[x]
    BY <1>1, <1>2
  <1>10. \A x \in Key : jobs'[x].state = "queued" <=> x \in Reports!ToSet(pending')
    <2> SUFFICES ASSUME NEW x \in Key, x # k
                 PROVE  jobs'[x].state = "queued" <=> x \in Reports!ToSet(pending)
      BY <1>3, <1>7, <1>9
    <2>1. jobs'[x] = jobs[x] \/ (jobs'[x] = Reports!Absent /\ jobs[x].state \in Reports!Ended)
      BY <1>2, <1>9
    <2> QED
      BY <2>1 DEF QueueInv, Reports!ReportsServed, Reports!Absent, Reports!Ended
  <1>11. \A x \in Key : jobs'[x].state = "running" <=> worker' = "run" /\ current' = x
    <2> SUFFICES ASSUME NEW x \in Key
                 PROVE  jobs'[x].state = "running" <=> worker = "run" /\ current = x
      BY DEF Reports!Submit, QueueInv, Reports!TypeOK
    <2>1. jobs[x].state = "running" <=> worker = "run" /\ current = x
      BY DEF QueueInv, Reports!ReportsServed
    <2>2. CASE x = k
      BY <1>3, <1>9, <2>1, <2>2 DEF Reports!Submit
    <2>3. CASE x # k
      <3>1. jobs'[x] = jobs[x] \/ (jobs'[x] = Reports!Absent /\ jobs[x].state \in Reports!Ended)
        BY <1>2, <1>9, <2>3
      <3> QED
        BY <2>1, <3>1 DEF Reports!Absent, Reports!Ended
    <2> QED
      BY <2>2, <2>3
  <1>12. worker' # "none" /\ shutting' = "open"
    BY DEF Reports!Submit
  <1>13. Reports!ReportsServed'
    BY <1>2, <1>5, <1>7, <1>10, <1>11, <1>12, SameCount DEF Reports!ReportsServed
  <1>14. Len(pending') <= Capacity
    BY <1>6, <1>7, LenProperties DEF Reports!Submit, QueueConstants
  <1>15. worker' = "run" => current' \in Key
    BY DEF Reports!Submit, QueueInv
  <1> QED
    BY <1>2, <1>5, <1>8, <1>12, <1>13, <1>14, <1>15 DEF QueueInv

\* The worker takes the first key, which was queued (drain).
LEMMA TakeStep ==
  ASSUME QueueConstants, QueueInv, Reports!Take
  PROVE  QueueInv'
  <1> DEFINE h == Head(pending)
  <1>1. /\ h \in Key /\ h \in Reports!ToSet(pending)
        /\ pending' \in Seq(Key) /\ Len(pending') = Len(pending) - 1
        /\ Reports!ToSet(pending') = Reports!ToSet(pending) \ {h} /\ Reports!IsInjective(pending')
    BY Leaves DEF Reports!Take, QueueInv, Reports!TypeOK, Reports!ReportsServed
  <1>2. /\ worker = "between" /\ worker' = "run" /\ current' = h
        /\ shutting = "open" /\ shutting' = "open"
        /\ jobs' = [jobs EXCEPT ![h].state = "running"]
    BY DEF Reports!Take
  <1> HIDE DEF h
  <1>3. jobs[h] \in Reports!Job
    BY <1>1 DEF QueueInv, Reports!TypeOK, Reports!ReportsServed, Reports!Absent
  <1>4. [jobs[h] EXCEPT !.state = "running"] \in Reports!Job
    BY <1>3, RecordShapes DEF QueueConstants
  <1>5. jobs' \in [Key -> Reports!Job \cup {Reports!Absent}]
    BY <1>2, <1>4 DEF QueueInv, Reports!TypeOK
  <1>6. \A x \in Key \ {h} : jobs'[x] = jobs[x]
    BY <1>1, <1>2 DEF QueueInv, Reports!TypeOK
  <1>7. jobs'[h] = [jobs[h] EXCEPT !.state = "running"] /\ jobs'[h].state = "running"
    BY <1>1, <1>2, <1>3 DEF QueueInv, Reports!TypeOK, Reports!Job
  <1>8. Reports!Known' = Reports!Known
    BY <1>1, <1>3, <1>4, <1>6, <1>7, RecordShapes DEF Reports!Known, QueueConstants
  <1>9. Reports!TypeOK'
    BY <1>1, <1>2, <1>5 DEF Reports!TypeOK
  <1>10. Reports!ReportsServed'
    <2>1. \A k \in Key : jobs'[k].state = "queued" <=> k \in Reports!ToSet(pending')
      BY <1>1, <1>6, <1>7 DEF QueueInv, Reports!ReportsServed
    <2>2. \A k \in Key : jobs'[k].state = "running" <=> worker' = "run" /\ current' = k
      BY <1>1, <1>2, <1>6, <1>7 DEF QueueInv, Reports!ReportsServed
    <2> QED
      BY <1>1, <1>2, <1>8, <2>1, <2>2 DEF QueueInv, Reports!ReportsServed
  <1>11. Len(pending') <= Capacity
    BY <1>1, LenProperties DEF QueueInv, Reports!TypeOK, QueueConstants
  <1> QED
    BY <1>1, <1>2, <1>8, <1>9, <1>10, <1>11 DEF QueueInv

\* It ends the job it runs, and runs nothing (drain).
LEMMA FinishStep ==
  ASSUME QueueConstants, QueueInv, Reports!Finish
  PROVE  QueueInv'
  <1>1. PICK o \in {"ok", "canceled", "failed", "changed"} :
           jobs' = [jobs EXCEPT ![current] = Reports!Settled(jobs[current], o)]
    BY DEF Reports!Finish
  <1>2. /\ worker = "run" /\ worker' = "between" /\ current' = Nobody
        /\ pending' = pending /\ shutting' = shutting /\ current \in Key
    BY DEF Reports!Finish, QueueInv
  <1>3. jobs[current] \in Reports!Job /\ jobs[current].state = "running"
    BY <1>2 DEF QueueInv, Reports!TypeOK, Reports!ReportsServed, Reports!Absent
  <1>4. Reports!Settled(jobs[current], o) \in Reports!Job
        /\ Reports!Settled(jobs[current], o).state \in Reports!Ended
    BY <1>3, SettledShape DEF QueueConstants
  <1>5. /\ jobs' \in [Key -> Reports!Job \cup {Reports!Absent}]
        /\ \A x \in Key : x # current => jobs'[x] = jobs[x]
        /\ jobs'[current] \in Reports!Job /\ jobs'[current].state \in Reports!Ended
    BY <1>1, <1>2, <1>4 DEF QueueInv, Reports!TypeOK
  <1>6. Reports!Known' = Reports!Known
    BY <1>2, <1>3, <1>5, RecordShapes DEF Reports!Known, QueueConstants
  <1>7. \A k \in Key : jobs'[k].state = "queued" <=> k \in Reports!ToSet(pending')
    BY <1>2, <1>3, <1>5 DEF QueueInv, Reports!ReportsServed, Reports!Ended
  <1>8. \A k \in Key : ~(jobs'[k].state = "running")
    BY <1>2, <1>5 DEF QueueInv, Reports!ReportsServed, Reports!Ended
  <1>9. Reports!ReportsServed'
    BY <1>2, <1>6, <1>7, <1>8 DEF QueueInv, Reports!ReportsServed
  <1>10. Reports!TypeOK'
    BY <1>2, <1>5 DEF QueueInv, Reports!TypeOK
  <1> QED
    BY <1>2, <1>6, <1>9, <1>10 DEF QueueInv

\* A success that is forgotten neither waited nor ran (forgetMissingResult).
LEMMA ForgetStep ==
  ASSUME QueueConstants, QueueInv, NEW k \in Key, Reports!Forget(k)
  PROVE  QueueInv'
  <1>1. /\ jobs' = [jobs EXCEPT ![k] = Reports!Absent] /\ jobs[k].state = "succeeded"
        /\ UNCHANGED <<pending, worker, current, shutting>>
    BY DEF Reports!Forget
  <1>2. /\ jobs' \in [Key -> Reports!Job \cup {Reports!Absent}]
        /\ \A x \in Key : jobs'[x] = IF x = k THEN Reports!Absent ELSE jobs[x]
    BY <1>1 DEF QueueInv, Reports!TypeOK
  <1>3. /\ Reports!Known' = Reports!Known \ {k} /\ IsFiniteSet(Reports!Known')
        /\ Cardinality(Reports!Known') <= Cardinality(Reports!Known)
        /\ Cardinality(Reports!Known') \in Nat
        /\ Cardinality(Reports!Known) \in Nat
    <2>1. Reports!Known' = Reports!Known \ {k}
      BY <1>2 DEF Reports!Known
    <2> QED
      BY <2>1, FS_RemoveElement, FS_Subset, FS_CardinalityType DEF QueueInv
  <1>4. Cardinality(Reports!Known') <= History
    BY <1>3, SameCount DEF QueueInv, Reports!ReportsServed, QueueConstants
  <1>5. \A x \in Key : jobs'[x].state = "queued" <=> x \in Reports!ToSet(pending')
    BY <1>1, <1>2 DEF QueueInv, Reports!ReportsServed, Reports!Absent
  <1>6. \A x \in Key : jobs'[x].state = "running" <=> worker' = "run" /\ current' = x
    BY <1>1, <1>2 DEF QueueInv, Reports!ReportsServed, Reports!Absent
  <1>7. Reports!TypeOK'
    BY <1>1, <1>2 DEF QueueInv, Reports!TypeOK
  <1>8. Reports!ReportsServed'
    BY <1>1, <1>4, <1>5, <1>6, SameCount DEF QueueInv, Reports!ReportsServed
  <1> QED
    BY <1>1, <1>3, <1>7, <1>8 DEF QueueInv

\* A shutdown stops what waits (shutdown).
LEMMA ShutdownStep ==
  ASSUME QueueConstants, QueueInv, Reports!Shutdown
  PROVE  QueueInv'
  <1>1. /\ pending' = <<>> /\ UNCHANGED <<worker, current>>
        /\ shutting' = IF worker = "none" THEN "quiet" ELSE "closed"
    BY DEF Reports!Shutdown
  <1>2. \A k \in Reports!ToSet(pending) : k \in Key => jobs[k] \in Reports!Job
    BY DEF QueueInv, Reports!TypeOK, Reports!ReportsServed, Reports!Absent
  <1>3. \A k \in Key : k \in Reports!ToSet(pending) =>
           jobs'[k] \in Reports!Job /\ jobs'[k].state = "stopped"
    BY <1>2 DEF Reports!Shutdown, Reports!Job, Reports!Ended
  <1>4. \A k \in Key : k \notin Reports!ToSet(pending) => jobs'[k] = jobs[k]
    BY DEF Reports!Shutdown
  <1>5. jobs' \in [Key -> Reports!Job \cup {Reports!Absent}]
    <2>1. jobs' = [k \in Key |-> jobs'[k]]
      BY DEF Reports!Shutdown
    <2> QED
      BY <1>3, <1>4, <2>1 DEF QueueInv, Reports!TypeOK
  <1>6. Reports!Known' = Reports!Known
    BY <1>2, <1>3, <1>4, RecordShapes DEF Reports!Known, QueueConstants
  <1>7. Reports!TypeOK'
    BY <1>1, <1>5, EmptyQueue DEF QueueInv, Reports!TypeOK
  <1>8. \A k \in Key : ~(jobs'[k].state = "queued")
    BY <1>3, <1>4 DEF QueueInv, Reports!ReportsServed
  <1>9. \A k \in Key : jobs'[k].state = "running" <=> worker' = "run" /\ current' = k
    <2> SUFFICES ASSUME NEW k \in Key
                 PROVE  jobs'[k].state = "running" <=> jobs[k].state = "running"
      BY <1>1 DEF QueueInv, Reports!ReportsServed
    <2> QED
      BY <1>3, <1>4 DEF QueueInv, Reports!ReportsServed
  <1>10. Reports!ReportsServed'
    BY <1>1, <1>6, <1>8, <1>9, EmptyQueue DEF QueueInv, Reports!ReportsServed
  <1> QED
    BY <1>1, <1>6, <1>7, <1>10, EmptyQueue DEF QueueInv, QueueConstants

\* Every section under the mutex preserves the invariant.
LEMMA QueueStep == QueueConstants => (QueueInv /\ [Reports!Next]_(Reports!vars) => QueueInv')
  <1> SUFFICES ASSUME QueueConstants, QueueInv, [Reports!Next]_(Reports!vars) PROVE QueueInv'
    OBVIOUS
  <1>1. CASE UNCHANGED Reports!vars
    BY <1>1 DEF Reports!vars, QueueInv, Reports!TypeOK, Reports!ReportsServed, Reports!Known
  <1>2. CASE Reports!Leave
    <2>1. pending = <<>> /\ pending' = <<>>
      BY <1>2 DEF Reports!Leave, QueueInv
    <2> QED
      BY <1>2, <2>1 DEF Reports!Leave, QueueInv, Reports!TypeOK, Reports!ReportsServed, Reports!Known
  <1>3. CASE Reports!ShutdownReturns
    BY <1>3 DEF Reports!ShutdownReturns, QueueInv, Reports!TypeOK, Reports!ReportsServed, Reports!Known
  <1> QED
    BY <1>1, <1>2, <1>3, SubmitStep, TakeStep, FinishStep, ForgetStep, ShutdownStep DEF Reports!Next

\* The records, the queue and its worker keep the shape of finance_report_queue.go.
THEOREM QueueTypeCorrect == QueueConstants => (Reports!Spec => []Reports!TypeOK)
  <1> SUFFICES ASSUME QueueConstants PROVE Reports!Spec => []Reports!TypeOK
    OBVIOUS
  <1> QED
    BY QueueFirst, QueueStep, QueueImplies, PTL DEF Reports!Spec

\* Every queued report has one place and a worker that comes to it, the history keeps its bound
\* and a shutdown that returned in time leaves nothing running (submit, drain, shutdown).
THEOREM ReportsAreServed == QueueConstants => (Reports!Spec => []Reports!ReportsServed)
  <1> SUFFICES ASSUME QueueConstants PROVE Reports!Spec => []Reports!ReportsServed
    OBVIOUS
  <1> QED
    BY QueueFirst, QueueStep, QueueImplies, PTL DEF Reports!Spec
=============================================================================
