----------------------------- MODULE HeldAction -----------------------------
(***************************************************************************)
(* The held-action gate (src/scripts/python/held_action_gate.py): before   *)
(* an irreversible action a caller presents an operator's token, which is  *)
(* verified and then consumed in a ledger, under a lock made of a          *)
(* directory and an owner file.                                            *)
(*                                                                         *)
(* Unlike the delegation store's lock (StoreLock) the directory is made    *)
(* first and its owner written after, a release removes whatever is there, *)
(* and a lock younger than a second is never reclaimed.  The owner file is *)
(* written well within that second, and a waiter that reads it between its *)
(* creation and its writing looks at the directory's age within that       *)
(* second too.                                                             *)
(***************************************************************************)
EXTENDS Naturals, FiniteSets

CONSTANTS
  Callers,
  Tokens,     \* tokens in circulation
  Binding,    \* token -> what the operator approved: category, target, attempt
  Signed,     \* tokens whose MAC verifies
  Expires,    \* token -> last moment it is valid
  Requests,   \* what a caller may ask for: same range as Binding
  MaxTime,
  Nil

VARIABLES
  dir,      \* .held-action.lockdir: "none", "young", "old"
  owner,    \* pid in owner.pid, Nil if there is no such file
  pc,       \* where each caller is
  asks,     \* caller -> [token, binding, now] of its request
  spent,    \* tokens with a receipt in the ledger
  granted,  \* <<caller, token>> for every authorization
  unsynced, \* tokens whose receipt is in place though the write of it raised
  now

vars == <<dir, owner, pc, asks, spent, granted, unsynced, now>>

NoAsk == [token |-> Nil, binding |-> Nil, now |-> 0]

\* verify_token: an authentic token for exactly this action, still valid.
Verified(t, b, at) == t \in Signed /\ Binding[t] = b /\ at <= Expires[t]

Init ==
  /\ dir = "none" /\ owner = Nil
  /\ pc = [p \in Callers |-> "idle"]
  /\ asks = [p \in Callers |-> NoAsk]
  /\ spent = {} /\ granted = {} /\ unsynced = {} /\ now = 0

Goes(p, from, to) == pc[p] = from /\ pc' = [pc EXCEPT ![p] = to]
Denied(p, from) == /\ Goes(p, from, "idle")
                   /\ asks' = [asks EXCEPT ![p] = NoAsk]

\* authorize: the token is verified before the lock is waited for.
Ask(p, t, b) ==
  /\ Verified(t, b, now)
  /\ Goes(p, "idle", "mkdir")
  /\ asks' = [asks EXCEPT ![p] = [token |-> t, binding |-> b, now |-> now]]
  /\ UNCHANGED <<dir, owner, spent, granted, unsynced, now>>

\* _store_lock: only one mkdir succeeds.
MakeDir(p) ==
  /\ \/ dir = "none" /\ dir' = "young" /\ Goes(p, "mkdir", "sign")
     \/ dir # "none" /\ UNCHANGED dir /\ Goes(p, "mkdir", "look")
  /\ UNCHANGED <<owner, asks, spent, granted, unsynced, now>>

\* owner.pid is written; if the directory was taken away the write raises and
\* the caller fails through its finally block.
Sign(p) ==
  /\ IF dir # "none"
     THEN /\ owner' = p /\ dir' = "young" /\ Goes(p, "sign", "check")
     ELSE /\ UNCHANGED <<dir, owner>> /\ Goes(p, "sign", "unlink_denied")
  /\ UNCHANGED <<asks, spent, granted, unsynced, now>>

\* Sleep and retry, or give up at the deadline.
Waits(p, from) == \/ Goes(p, from, "mkdir") /\ UNCHANGED asks
                  \/ Denied(p, from)

\* Mutant: a directory without an owner is abandoned.
LookMissing(p) ==
  /\ IF owner = Nil \/ pc[owner] = "gone" THEN Goes(p, "look", "remove") /\ UNCHANGED asks
     ELSE Waits(p, "look")
  /\ UNCHANGED <<dir, owner, spent, granted, unsynced, now>>

\* Stale only if the owner file names a dead process; missing means busy.  A
\* malformed owner file is stale as well: one is left by a process killed while
\* it wrote it, which is the same here as one that names that process.
Look(p) ==
  /\ IF owner # Nil /\ pc[owner] = "gone"
     THEN Goes(p, "look", "age") /\ UNCHANGED asks
     ELSE Waits(p, "look")
  /\ UNCHANGED <<dir, owner, spent, granted, unsynced, now>>

\* ... and only if the directory, if it is still there, is not young.
Age(p) ==
  /\ IF dir = "young" THEN Waits(p, "age")
     ELSE Goes(p, "age", "remove") /\ UNCHANGED asks
  /\ UNCHANGED <<dir, owner, spent, granted, unsynced, now>>

\* Whatever owner file and directory are there now; rmdir fails on a
\* directory that has a file again.
Unlinks(p, from, to) ==
  /\ Goes(p, from, to)
  /\ owner' = Nil
  /\ dir' = IF owner = Nil THEN dir ELSE "young"
  /\ UNCHANGED <<asks, spent, granted, unsynced, now>>
Rmdirs(p, from, to) ==
  /\ Goes(p, from, to)
  /\ dir' = IF owner = Nil THEN "none" ELSE dir
  /\ UNCHANGED <<owner, spent, granted, unsynced, now>>

Reclaim(p) == \/ Unlinks(p, "remove", "rmdir")
              \/ Rmdirs(p, "rmdir", "mkdir") /\ UNCHANGED asks

\* The receipt's file exists.
Replay(t) == t \in spent

\* Is there a receipt?
CheckLedger(p) ==
  /\ IF Replay(asks[p].token) THEN Goes(p, "check", "unlink_denied")
     ELSE Goes(p, "check", "record")
  /\ UNCHANGED <<dir, owner, asks, spent, granted, unsynced, now>>

\* The receipt is published by one rename; the write may raise before it, or
\* after it, when the directory cannot be synced, and then authorize raises too.
Record(p) ==
  /\ \/ /\ Goes(p, "record", "unlink")
        /\ spent' = spent \cup {asks[p].token} /\ UNCHANGED unsynced
     \/ /\ Goes(p, "record", "unlink_denied")
        /\ spent' = spent \cup {asks[p].token}
        /\ unsynced' = unsynced \cup {asks[p].token}
     \/ Goes(p, "record", "unlink_denied") /\ UNCHANGED <<spent, unsynced>>
  /\ UNCHANGED <<dir, owner, asks, granted, now>>

\* The finally block, then the caller goes on, or is denied.
Release(p) ==
  \/ Unlinks(p, "unlink", "leave")
  \/ /\ Rmdirs(p, "leave", "act") /\ UNCHANGED asks
  \/ Unlinks(p, "unlink_denied", "leave_denied")
  \/ /\ Rmdirs(p, "leave_denied", "idle")
     /\ asks' = [asks EXCEPT ![p] = NoAsk]

\* The held action happens.
Act(p) ==
  /\ Denied(p, "act")
  /\ granted' = granted \cup {[by |-> p, token |-> asks[p].token,
                               binding |-> asks[p].binding, at |-> asks[p].now]}
  /\ UNCHANGED <<dir, owner, spent, unsynced, now>>

\* kill -9 at any point.
Gone(p) ==
  /\ pc[p] # "gone"
  /\ pc' = [pc EXCEPT ![p] = "gone"]
  /\ UNCHANGED <<dir, owner, asks, spent, granted, unsynced, now>>

Tick ==
  /\ now < MaxTime \/ dir = "young"
  /\ now' = IF now < MaxTime THEN now + 1 ELSE now
  /\ dir' = IF dir = "young" /\ (\A p \in Callers : pc[p] # "sign") THEN "old" ELSE dir
  /\ UNCHANGED <<owner, pc, asks, spent, granted, unsynced>>

Step(p) == \/ MakeDir(p) \/ Sign(p) \/ Look(p) \/ Age(p) \/ Reclaim(p)
           \/ CheckLedger(p) \/ Record(p) \/ Release(p) \/ Act(p)

Live == \/ \E p \in Callers : Step(p) \/ \E t \in Tokens, b \in Requests : Ask(p, t, b)
        \/ Tick
Next == Live \/ \E p \in Callers : Gone(p)

Spec == Init /\ [][Next]_vars
LiveSpec == Init /\ [][Live]_vars

(***************************************************************************)
(* Properties.                                                             *)
(***************************************************************************)

\* HeldActionStore: a "one-shot consumption ledger".  However callers overlap
\* in the lock, no token authorizes two actions.
OneGrantPerToken == \A g, h \in granted : g.token = h.token => g = h

\* Every authorization, however long it waited for the lock, was for exactly
\* what the operator approved and leaves a receipt that no later caller can
\* miss; a token is spent by an authorization, by a caller that died before it
\* acted, or by one whose receipt was in place when the write of it raised, never
\* by a denial.
GrantsAreAccounted ==
  /\ \A g \in granted : /\ g.token \in spent \cap Signed
                        /\ Binding[g.token] = g.binding
                        /\ g.at <= Expires[g.token]
  /\ \A t \in spent :
       \/ \E g \in granted : g.token = t
       \/ t \in unsynced
       \/ \E p \in Callers : /\ asks[p].token = t
                           /\ pc[p] \in {"unlink", "leave", "act", "gone"}
=============================================================================
