--------------------------- MODULE UpstreamAccount ---------------------------
(***************************************************************************)
(* The credential of one upstream account of a kind whose refresh tokens    *)
(* rotate (Sub2API), and the operations that use it: the lanes that read    *)
(* the balance, the usage and the funds, in the background or for an        *)
(* administrator, and the handler that saves the account                    *)
(* (src/monitor/upstream_account_gate.go, channel_upstream.go,              *)
(* channel_upstream_usage.go, channel_upstream_funds.go).  A refresh        *)
(* consumes the token; until the operation that sent it has saved the next   *)
(* one nobody else knows it, and whoever then sends the consumed one has    *)
(* its lane isolated until an administrator imports another.                *)
(*                                                                         *)
(* A token is its number in the order of issue.  The provider refuses no    *)
(* fresh access token, the usage switch is on, and a failure that proves    *)
(* nothing about the credential only delays its lane.                       *)
(***************************************************************************)
EXTENDS Naturals

CONSTANTS
    Op,             \* bound: operations in progress at the same time
    NoOp,           \* nobody holds the account
    MaxToken        \* bound: tokens the provider issues

Token == 1 .. MaxToken
Lane == {"balance", "usage", "funds"}

VARIABLES
    valid,        \* tokens the provider accepts
    issued,       \* the newest token
    stored,       \* the account's row: [token, enabled]
    isolated,     \* lanes that wait for another credential (status reconnect)
    holder,       \* who has the token of the account's gate
    op,           \* the operations
    wanted,       \* ghost: the configuration saved last is an enabled one
    harm          \* ghost: the credential was lost in a way the code accepts

vars == <<valid, issued, stored, isolated, holder, op, wanted, harm>>
row == <<stored, isolated>>
provider == <<valid, issued>>
ghosts == <<wanted, harm>>

None == [at |-> "idle"]

\* An operation: what it is for, its copy of the row, the token it has now, whether it has a fresh
\* access token, its context, and what it came to; for a save, what it was given.
Operation ==
    [at : {"try", "took", "wait", "load", "refresh", "keep", "query", "settle", "save"},
     lane : Lane \cup {"account"}, row : [token : Token, enabled : BOOLEAN], token : Token,
     fresh : BOOLEAN, ctx : {"live", "expired", "canceled", "detached"},
     result : {"ok", "failed", "refused"}, import : BOOLEAN, enable : BOOLEAN]

TypeOK ==
    /\ valid \subseteq Token /\ issued \in Token
    /\ stored \in [token : Token, enabled : BOOLEAN]
    /\ isolated \subseteq Lane
    /\ holder \in Op \cup {NoOp}
    /\ op \in [Op -> Operation \cup {None}]
    /\ wanted \in BOOLEAN /\ harm \in BOOLEAN

Init ==
    /\ valid = {1} /\ issued = 1
    /\ stored = [token |-> 1, enabled |-> TRUE]
    /\ isolated = {}
    /\ holder = NoOp
    /\ op = [o \in Op |-> None]
    /\ wanted = TRUE /\ harm = FALSE

Goes(o, s) == op' = [op EXCEPT ![o].at = s]

\* The deferred release.
Ends(o) ==
    /\ op' = [op EXCEPT ![o] = None]
    /\ holder' = NoOp

-----------------------------------------------------------------------------
(* The gate (upstream_account_gate.go).                                     *)

New(stage, lane) ==
    [at |-> stage, lane |-> lane, row |-> stored, token |-> stored.token, fresh |-> FALSE,
     ctx |-> "live", result |-> "ok", import |-> FALSE, enable |-> TRUE]

AdminWaiters == {o \in Op : op[o].at = "wait"}

\* tryAcquireBackground: its first look, then the try, then the second look.
StartBackground(o, lane) ==
    /\ op[o] = None
    /\ AdminWaiters = {}
    /\ op' = [op EXCEPT ![o] = New("try", lane)]
    /\ UNCHANGED <<provider, row, holder, ghosts>>

TryTake(o) ==
    /\ op[o].at = "try"
    /\ IF holder = NoOp
       THEN Goes(o, "took") /\ holder' = o
       ELSE op' = [op EXCEPT ![o] = None] /\ UNCHANGED holder
    /\ UNCHANGED <<provider, row, ghosts>>

LookAgain(o) ==
    /\ op[o].at = "took"
    /\ IF AdminWaiters = {} THEN Goes(o, "load") /\ UNCHANGED holder ELSE Ends(o)
    /\ UNCHANGED <<provider, row, ghosts>>

\* acquireAdmin: counted as waiting until it has the account or its context ends.
StartAdmin(o, lane) ==
    /\ op[o] = None
    /\ op' = [op EXCEPT ![o] = New("wait", lane)]
    /\ UNCHANGED <<provider, row, holder, ghosts>>

\* A save may bring a token of a new session.
StartSave(o, import, enable) ==
    /\ op[o] = None
    /\ import => issued < MaxToken
    /\ issued' = IF import THEN issued + 1 ELSE issued
    /\ valid' = IF import THEN valid \cup {issued + 1} ELSE valid
    /\ op' = [op EXCEPT ![o] = [New("wait", "account") EXCEPT
                  !.import = import, !.enable = enable, !.token = issued']]
    /\ UNCHANGED <<row, holder, ghosts>>

AdminTakes(o) ==
    /\ op[o].at = "wait"
    /\ holder = NoOp
    /\ holder' = o
    /\ Goes(o, "load")
    /\ UNCHANGED <<provider, row, ghosts>>

AdminLeaves(o) ==
    /\ op[o].at = "wait" /\ op[o].ctx # "live"
    /\ op' = [op EXCEPT ![o] = None]
    /\ UNCHANGED <<provider, row, holder, ghosts>>

-----------------------------------------------------------------------------
(* What an operation does with the account.                                 *)

\* The row is read; a lane that is isolated, not due or of a disabled account ends here.  A save
\* without a new token takes the stored one, unread if the account is to be disabled.
Load(o) ==
    /\ op[o].at = "load"
    /\ LET p == op[o]
           q == [p EXCEPT !.row = stored, !.token = IF p.import THEN @ ELSE stored.token]
           To(S) == \E s \in S : op' = [op EXCEPT ![o] = [q EXCEPT !.at = s]]
       IN \/ Ends(o)
          \/ /\ p.lane # "account" /\ stored.enabled /\ p.lane \notin isolated
             /\ To({"refresh", "query"}) /\ UNCHANGED holder
          \/ /\ p.lane = "account"
             /\ CASE p.import -> To({"refresh"})
                  [] ~p.import /\ p.enable -> To({"refresh", "query"})
                  [] OTHER -> To({"settle"})
             /\ UNCHANGED holder
    /\ UNCHANGED <<provider, row, ghosts>>

\* A request came to nothing, or was refused.  A save that cannot import its token, and a usage
\* lane that was canceled, change nothing; failFundState isolates its lane if it can save that.
Fails(o, r) ==
    LET p == op[o]
        drops == \/ p.lane = "account" /\ p.import /\ ~p.fresh
                 \/ p.lane = "usage" /\ p.ctx = "canceled"
                 \/ p.lane = "funds"
    IN /\ IF drops THEN Ends(o)
          ELSE op' = [op EXCEPT ![o].at = "settle", ![o].result = r] /\ UNCHANGED holder
       /\ isolated' = IF p.lane = "funds" /\ r = "refused" /\ p.ctx # "canceled"
                      THEN isolated \cup {"funds"} ELSE isolated
       /\ UNCHANGED stored

\* refreshSub2API: the provider consumes the token and issues the next one.
Rotates(o) ==
    /\ op[o].ctx = "live"
    /\ op[o].token \in valid /\ issued < MaxToken
    /\ valid' = (valid \ {op[o].token}) \cup {issued + 1}
    /\ issued' = issued + 1

AfterRefresh(p) ==
    CASE p.lane = "funds" -> "keep"
      [] p.lane = "account" /\ ~p.enable -> "settle"
      [] OTHER -> "query"

Refresh(o) ==
    /\ op[o].at = "refresh"
    /\ \/ /\ Rotates(o)
          /\ op' = [op EXCEPT ![o].token = issued', ![o].fresh = TRUE,
                              ![o].at = AfterRefresh(op[o])]
          /\ UNCHANGED <<row, holder, ghosts>>
       \/ \* the answer is lost
          /\ Rotates(o)
          /\ harm' = (harm \/ op[o].token = stored.token)
          /\ Fails(o, "failed")
          /\ UNCHANGED wanted
       \/ \* a consumed token proves the credential invalid (upstreamRefreshFailure)
          /\ op[o].ctx = "live" /\ op[o].token \notin valid
          /\ Fails(o, "refused")
          /\ UNCHANGED <<provider, ghosts>>
       \/ Fails(o, "failed") /\ UNCHANGED <<provider, ghosts>>

\* syncSub2UpstreamFunds saves the token before any other request.
Keep(o) ==
    /\ op[o].at = "keep"
    /\ IF op[o].ctx = "live"
       THEN /\ stored' = [op[o].row EXCEPT !.token = op[o].token]
            /\ Goes(o, "query")
            /\ UNCHANGED <<isolated, holder>>
       ELSE Fails(o, "failed")
    /\ UNCHANGED <<provider, ghosts>>

\* The requests proper.  An access token that is refused is renewed once.
Query(o) ==
    /\ op[o].at = "query"
    /\ \/ /\ op[o].ctx = "live"
          /\ IF op[o].lane = "funds"
             THEN Ends(o)
             ELSE op' = [op EXCEPT ![o].at = "settle", ![o].result = "ok"] /\ UNCHANGED holder
          /\ UNCHANGED row
       \/ /\ ~op[o].fresh /\ op[o].ctx = "live"
          /\ Goes(o, "refresh")
          /\ UNCHANGED <<row, holder>>
       \/ Fails(o, "failed")
    /\ UNCHANGED <<provider, ghosts>>

-----------------------------------------------------------------------------
(* Saving what it came to.                                                  *)

\* A mutant: the result is saved under the context that has expired.
CommitContext_Same(p) == p.ctx

\* upstreamUsageLocalCommitContext, which the save handler does not use.
CommitContext(p) ==
    IF p.ctx = "expired" /\ p.lane # "account" THEN "detached" ELSE p.ctx

Settle(o) ==
    /\ op[o].at = "settle"
    /\ op' = [op EXCEPT ![o].at = "save", ![o].ctx = CommitContext(op[o])]
    /\ UNCHANGED <<provider, row, holder, ghosts>>

Isolate(lane, r) == IF r = "refused" THEN isolated \cup {lane} ELSE isolated \ {lane}

\* persistUpstreamBalanceResult: only onto the row the operation started from.
SaveBalance(p) ==
    IF stored = p.row
    THEN stored' = [stored EXCEPT !.token = p.token] /\ isolated' = Isolate("balance", p.result)
    ELSE UNCHANGED row

\* persistSyncedUpstreamAccount: the whole row.
SaveUsage(p) ==
    /\ stored' = [p.row EXCEPT !.token = p.token]
    /\ isolated' = Isolate("usage", p.result)

\* persistUpstreamAccountIdentityChange: a new credential that worked reopens every lane
\* (reactivateUpstreamAuxiliaryTasks).
Reopens(p) == p.import /\ p.enable /\ p.result = "ok"

SaveAccount(p) ==
    /\ stored' = [token |-> p.token, enabled |-> p.enable]
    /\ isolated' = IF Reopens(p) THEN {} ELSE Isolate("balance", p.result)

Save(o) ==
    /\ op[o].at = "save"
    /\ op[o].ctx \in {"live", "detached"}
    /\ LET p == op[o] IN
          /\ CASE p.lane = "balance" -> SaveBalance(p)
               [] p.lane = "usage" -> SaveUsage(p)
               [] p.lane = "account" -> SaveAccount(p)
          /\ wanted' = IF p.lane = "account" THEN p.enable ELSE wanted
          /\ harm' = (harm /\ ~(p.lane = "account" /\ Reopens(p)))
    /\ Ends(o)
    /\ UNCHANGED provider

SaveTooLate(o) ==
    /\ op[o].at = "save" /\ op[o].ctx \in {"expired", "canceled"}
    /\ Ends(o)
    /\ UNCHANGED <<provider, row, ghosts>>

-----------------------------------------------------------------------------
(* What else may happen.  The ghost notes when the token that only one       *)
(* operation knows is lost with it.                                         *)

AtStake == stored.token \notin valid

\* A write fails; for the usage lane also that of the closed day it is about to verify
\* (pinSub2Closeout).
StoreFails(o) ==
    /\ \/ op[o].at \in {"keep", "save"}
       \/ (op[o].at = "settle" /\ op[o].lane = "usage")
    /\ harm' = (harm \/ AtStake)
    /\ Ends(o)
    /\ UNCHANGED <<provider, row, wanted>>

\* The client goes away or the process stops.
Cancel(o) ==
    /\ op[o] # None /\ op[o].ctx = "live"
    /\ op' = [op EXCEPT ![o].ctx = "canceled"]
    /\ harm' = (harm \/ (AtStake /\ holder = o))
    /\ UNCHANGED <<provider, row, holder, wanted>>

\* The deadline of the operation; that of a save starts with the account in hand.  It costs the
\* token only where the code saves under the context that has expired.
Expire(o) ==
    /\ op[o] # None /\ op[o].ctx = "live"
    /\ ~(op[o].lane = "account" /\ op[o].at = "wait")
    /\ op' = [op EXCEPT ![o].ctx = "expired"]
    /\ LET lost == op[o].lane \in {"funds", "account"} \/ op[o].at = "save"
       IN harm' = (harm \/ (AtStake /\ holder = o /\ lost))
    /\ UNCHANGED <<provider, row, holder, wanted>>

Crash ==
    /\ op # [o \in Op |-> None]
    /\ op' = [o \in Op |-> None] /\ holder' = NoOp
    /\ harm' = (harm \/ AtStake)
    /\ UNCHANGED <<provider, row, wanted>>

Next ==
    \/ \E o \in Op :
          \/ \E l \in Lane : StartBackground(o, l) \/ StartAdmin(o, l)
          \/ \E import, enable \in BOOLEAN : StartSave(o, import, enable)
          \/ TryTake(o) \/ LookAgain(o) \/ AdminTakes(o) \/ AdminLeaves(o)
          \/ Load(o) \/ Refresh(o) \/ Keep(o) \/ Query(o)
          \/ Settle(o) \/ Save(o) \/ SaveTooLate(o)
          \/ StoreFails(o) \/ Cancel(o) \/ Expire(o)
    \/ Crash

Spec == Init /\ [][Next]_vars
-----------------------------------------------------------------------------

\* "Persist the newest token even when the subsequent usage query fails, otherwise the next run may
\* replay a consumed refresh token and isolate an otherwise healthy account": as long as no
\* operation is canceled, cut off or unable to write while only it knows the token, the
\* account keeps a valid token and every lane open, and a lane never undoes what an administrator
\* saved meanwhile (syncStoredUpstreamUsageWithPriority).
AccountKept ==
    /\ ~harm =>
          /\ isolated = {}
          /\ AtStake => /\ holder # NoOp
                        /\ op[holder].token \in valid
    /\ holder = NoOp => stored.enabled = wanted
=============================================================================
