------------------------------ MODULE PlanItem -----------------------------
(***************************************************************************)
(* scripts/python/plan_item_binding.py: a packet declares the plan items   *)
(* it closes, the terminal receipt carries the declaration, and the mark   *)
(* command moves an item from the plan to the history once its task has a  *)
(* terminal receipt, a landed commit and a settled cross-family approval.  *)
(* The registry is written by others, under the registry lock; commits     *)
(* land at any time; the marker may die between its two writes.            *)
(*                                                                         *)
(* A commit is [names, touches]: how its message names the task ("exact",  *)
(* or "prefix" for a longer ID that contains it) and whether it changed    *)
(* the task's write scope against its first parent.                        *)
(***************************************************************************)
EXTENDS Naturals, Sequences, FiniteSets

CONSTANTS Tasks, Items,        \* Items are detailed IDs such as P13.52
          Bare,                \* canonical phase IDs without a detail, P13
          Packets,             \* what a packet may declare
          Families, AuthorOf,  \* task -> the family of its author
          MaxCandidates,       \* MAX_ANCESTRY_CANDIDATES
          MaxCommits, MaxRuns, \* bounds of the model
          None

PlanItemAssumption ==
    /\ MaxCandidates \in Nat \ {0} /\ MaxCommits \in Nat /\ MaxRuns \in Nat
    /\ Items \cap Bare = {}

VARIABLES entry,    \* task -> its registry entry
          declared, \* task -> the item set its receipt carries
          commits,  \* task -> commits whose message contains its ID, newest first
          gitUp,
          plan,     \* items with an open checkbox in the plan
          history,  \* item -> the evidence recorded in the history, or None
          lock,     \* whether the marker holds the registry lock
          marker,   \* the mark command, or None
          runs

vars == <<entry, declared, commits, gitUp, plan, history, lock, marker, runs>>

Verdicts == {"APPROVE", "REJECT"}
Unsettled == [status |-> "in-flight", receipt |-> "none", scoped |-> TRUE,
              settled |-> FALSE, verdict |-> None, forced |-> FALSE,
              reviewer |-> None]

-----------------------------------------------------------------------------
(* Declaration. *)

\* One shape rule for a declared list: known IDs, no duplicate.
canonical_plan_item_ids(ids) ==
    /\ \A k \in 1..Len(ids) : ids[k] \in Items \cup Bare
    /\ \A j, k \in 1..Len(ids) : ids[j] = ids[k] => j = k

\* An explicit list wins by presence, a detailed phase is the fallback, a bare
\* one binds nothing and any other is refused.
resolve_packet_plan_item_ids(p) ==
    IF p.present
    THEN IF canonical_plan_item_ids(p.ids)
         THEN {p.ids[k] : k \in 1..Len(p.ids)} ELSE None
    ELSE CASE p.phase = "none"   -> {}
           [] p.phase \in Bare  -> {}
           [] p.phase \in Items -> {p.phase}
           [] OTHER              -> None

\* send-task.sh: a declaration that is refused stops the dispatch.
Admitted == {p \in Packets : resolve_packet_plan_item_ids(p) # None}

Init ==
    /\ entry = [t \in Tasks |-> Unsettled]
    /\ \E packet \in [Tasks -> Admitted] :
          declared = [t \in Tasks |-> [packet |-> packet[t],
                                       ids |-> resolve_packet_plan_item_ids(packet[t])]]
    /\ commits = [t \in Tasks |-> <<>>]
    /\ gitUp = TRUE
    /\ plan = Items
    /\ history = [i \in Items |-> None]
    /\ lock = FALSE /\ marker = None /\ runs = 0

-----------------------------------------------------------------------------
(* The marking rule. *)

\* The newest candidates that name exactly this task and changed its scope.
landed_commits(t) ==
    LET exact == {k \in 1..Len(commits[t]) : commits[t][k].names = "exact"}
    IN {k \in exact : /\ Cardinality({h \in exact : h <= k}) <= MaxCandidates
                      /\ commits[t][k].touches}

\* The commit an evidence line names: the newest landed one.
Witness(t) ==
    LET k == CHOOSE j \in landed_commits(t) : \A h \in landed_commits(t) : j <= h
    IN commits[t][k]

ReceiptLeg(t, i, e) ==
    e.receipt = "success" /\ i \in declared[t].ids

AncestryLeg(t, e) ==
    e.scoped /\ gitUp /\ landed_commits(t) # {}

ReviewLeg(t, e) ==
    /\ e.settled
    /\ e.verdict = "APPROVE"
    /\ ~ e.forced
    /\ e.reviewer # None /\ e.reviewer # AuthorOf[t]

decide(t, i, e) ==
    /\ e.status \in {"complete", "closed"}
    /\ ReceiptLeg(t, i, e)
    /\ AncestryLeg(t, e)
    /\ ReviewLeg(t, e)

\* The evidence line; the reviewer stands for the review reference.
Evidence(t, e) == [task |-> t, commit |-> Witness(t), verdict |-> e.verdict,
                   reviewer |-> e.reviewer]

-----------------------------------------------------------------------------
(* mark. *)

\* The registry is read before the lock is taken.
ReadRegistry ==
    /\ marker = None /\ runs < MaxRuns
    /\ runs' = runs + 1
    /\ marker' = [pc |-> "lock", entry |-> entry, left |-> {}, move |-> None]
    /\ UNCHANGED <<entry, declared, commits, gitUp, plan, history, lock>>

TakeLock ==
    /\ marker # None /\ marker.pc = "lock" /\ ~ lock
    /\ lock' = TRUE
    /\ marker' = [marker EXCEPT !.pc = "pass",
                                !.left = {p \in Tasks \X Items :
                                             marker.entry[p[1]].receipt # "none"
                                               /\ p[2] \in declared[p[1]].ids}]
    /\ UNCHANGED <<entry, declared, commits, gitUp, plan, history, runs>>

Ends == marker' = None /\ lock' = FALSE

\* Mutant: later evidence replaces the recorded one.
Consider_Replaces ==
    /\ marker # None /\ marker.pc = "pass"
    /\ \E p \in marker.left :
          /\ decide(p[1], p[2], marker.entry[p[1]])
          /\ history' = [history EXCEPT ![p[2]] = Evidence(p[1], marker.entry[p[1]])]
          /\ marker' = [marker EXCEPT !.left = @ \ {p},
                           !.move = [item |-> p[2], plan |-> plan], !.pc = "plan"]
    /\ UNCHANGED <<entry, declared, commits, gitUp, plan, lock, runs>>

\* One declared item of one task.  An item that is done goes to the history
\* first; one that is already there is only taken out of the plan, and history
\* with other evidence refuses and ends the whole pass.
Consider ==
    /\ marker # None /\ marker.pc = "pass"
    /\ \E p \in marker.left :
       LET t == p[1]
           i == p[2]
           e == marker.entry[t]
           rest == [marker EXCEPT !.left = @ \ {p}]
       IN \/ /\ ~ decide(t, i, e)
             /\ marker' = rest
             /\ UNCHANGED <<history, lock>>
          \/ /\ decide(t, i, e) /\ history[i] = None /\ i \in plan
             /\ history' = [history EXCEPT ![i] = Evidence(t, e)]
             /\ marker' = [rest EXCEPT !.move = [item |-> i, plan |-> plan], !.pc = "plan"]
             /\ UNCHANGED lock
          \/ /\ decide(t, i, e) /\ history[i] = Evidence(t, e)
             /\ marker' = IF i \in plan
                          THEN [rest EXCEPT !.move = [item |-> i, plan |-> plan], !.pc = "plan"]
                          ELSE rest
             /\ UNCHANGED <<history, lock>>
          \/ /\ decide(t, i, e) /\ history[i] # None /\ history[i] # Evidence(t, e)
             /\ Ends
             /\ UNCHANGED history
    /\ UNCHANGED <<entry, declared, commits, gitUp, plan, runs>>

\* The plan without the block of the item.
WritePlan ==
    /\ marker # None /\ marker.pc = "plan"
    /\ plan' = marker.move.plan \ {marker.move.item}
    /\ marker' = [marker EXCEPT !.pc = "pass", !.move = None]
    /\ UNCHANGED <<entry, declared, commits, gitUp, history, lock, runs>>

EndPass ==
    /\ marker # None /\ marker.pc = "pass" /\ marker.left = {}
    /\ Ends
    /\ UNCHANGED <<entry, declared, commits, gitUp, plan, history, runs>>

\* The marker is killed; its flock goes with it.
Crash ==
    /\ marker # None
    /\ marker' = None
    /\ lock' = IF marker.pc = "lock" THEN lock ELSE FALSE
    /\ UNCHANGED <<entry, declared, commits, gitUp, plan, history, runs>>

-----------------------------------------------------------------------------
(* The registry's writers and git. *)

\* The task ends with a receipt that carries its declaration.
Finalize(t) ==
    /\ ~ lock /\ entry[t].receipt = "none"
    /\ \E o \in {"success", "failure"}, s \in BOOLEAN :
          entry' = [entry EXCEPT ![t].receipt = o, ![t].scoped = s,
                                 ![t].status = IF o = "success" THEN "needs_review"
                                               ELSE "closed"]
    /\ UNCHANGED <<declared, commits, gitUp, plan, history, lock, marker, runs>>

\* A settled review: an approval, or any verdict by force.
SettleReview(t) ==
    /\ ~ lock /\ entry[t].status = "needs_review"
    /\ \E v \in Verdicts, f \in Families, b \in BOOLEAN :
          /\ v = "APPROVE" \/ b
          /\ entry' = [entry EXCEPT ![t].settled = TRUE, ![t].verdict = v,
                                    ![t].reviewer = f, ![t].forced = b,
                                    ![t].status = "complete"]
    /\ UNCHANGED <<declared, commits, gitUp, plan, history, lock, marker, runs>>

\* reopen_task: the verdict and the reviewer stay, the settlement does not.
Reopen(t) ==
    /\ ~ lock /\ entry[t].status = "complete"
    /\ entry' = [entry EXCEPT ![t].status = "needs_review", ![t].settled = FALSE]
    /\ UNCHANGED <<declared, commits, gitUp, plan, history, lock, marker, runs>>

Commit(t) ==
    /\ Len(commits[t]) < MaxCommits
    /\ \E n \in {"exact", "prefix"}, c \in BOOLEAN :
          commits' = [commits EXCEPT ![t] =
             <<[names |-> n, touches |-> c, id |-> Len(@)]>> \o @]
    /\ UNCHANGED <<entry, declared, gitUp, plan, history, lock, marker, runs>>

GitFails ==
    /\ gitUp' = ~ gitUp
    /\ UNCHANGED <<entry, declared, commits, plan, history, lock, marker, runs>>

Next ==
    \/ ReadRegistry \/ TakeLock \/ Consider \/ WritePlan \/ EndPass \/ Crash
    \/ \E t \in Tasks : Finalize(t) \/ SettleReview(t) \/ Reopen(t) \/ Commit(t)
    \/ GitFails

Spec == Init /\ [][Next]_vars

-----------------------------------------------------------------------------
(* Properties. *)

\* An item is never lost: a crash between the two writes leaves it in both
\* files, never in neither (move_item, history first).
ItemIsKept == \A i \in Items : i \in plan \/ history[i] # None

\* What the history records as done was earned: the commit names exactly this
\* task and changed its scope, and the verdict is an approval by another family
\* than the author's (decide, landed_commits).
DoneIsEarned ==
    \A i \in Items : history[i] # None =>
        /\ history[i].commit.names = "exact" /\ history[i].commit.touches
        /\ history[i].verdict = "APPROVE"
        /\ history[i].reviewer \in Families \ {AuthorOf[history[i].task]}

\* Only a packet that names the item closes it, in its list or, without a list,
\* by a detailed phase; a bare phase closes nothing
\* (resolve_packet_plan_item_ids).
OnlyNamedClose ==
    \A i \in Items : history[i] # None =>
        LET p == declared[history[i].task].packet
        IN IF p.present THEN \E k \in 1..Len(p.ids) : p.ids[k] = i ELSE p.phase = i

\* A recorded completion is never rewritten, whichever task declares the item
\* later and whatever lands later (move_item: conflicting evidence refuses).
RecordIsStable ==
    \A i \in Items : history[i] # None => history'[i] = history[i]

=============================================================================
