------------------------------ MODULE Worktrees ------------------------------
(***************************************************************************)
(* How a worker's edits reach the integration branch:                      *)
(* scripts/python/worktree_isolation.py.  Each attempt works in a private  *)
(* linked worktree on a private branch.  When it ends, the supervisor      *)
(* validates what it left (validate_worker_residue), commits it with a     *)
(* compare-and-swap (commit_worker_residue), audits the whole history and  *)
(* lands it on the target branch (integrate_worktree_commits), or keeps it *)
(* on the private branch (preserve_terminal_evidence), and at the end      *)
(* removes the worktree (release).  The worker, or a process it left       *)
(* behind, may edit and commit between any two of these steps, and so may  *)
(* the operator in the target repository.                                  *)
(*                                                                         *)
(* A commit is its parents, its tree and its author; a tree gives each     *)
(* path a content or None.                                                 *)
(***************************************************************************)
EXTENDS Integers, Sequences, FiniteSets

CONSTANTS
  None,
  Operator, Board,  \* authors that are not attempts
  Attempts,
  Paths,            \* files, and Dirs the directories above them
  Parents,          \* [Paths -> SUBSET Dirs], PurePosixPath.parents
  Scope,            \* [Attempts -> SUBSET (Paths \cup Dirs)], write_scope
  Outputs,          \* [Attempts -> SUBSET Paths], the bridge-owned outputs
  Deletes,          \* [Attempts -> SUBSET Paths], authorized_delete_paths
  External,         \* attempts whose work repository is not the squad's
  Ignored,          \* paths the ignore rules hide from git status
  Structural,       \* .git and .githooks paths
  Autoload,         \* files a host tool loads by itself
  Values,           \* the contents of regular files
  Link, Big,        \* a symlink or gitlink; a file over the size bound
  BaseTree,         \* the tree of the commit every attempt starts from
  Leaks(_),         \* does the leak guard reject this tree?
  Passes(_),        \* does the whole pre-commit hook accept this tree?
  MaxFiles,         \* EVIDENCE_MAX_UNTRACKED_FILES
  MaxWork, MaxOps, MaxFaults, MaxCommits  \* bounds of the instance

VARIABLES
  commits,  \* the object store: commits[i] = [parents, tree, by]
  target,   \* refs/heads/<base branch>
  landing,  \* landing[a]: refs/heads/board/<task>, or None
  branch,   \* branch[a]: refs/heads/worktree/<task>/<attempt>, or None
  wt,       \* wt[a]: the linked worktree: exists, HEAD, attached, files
  dirty,    \* paths with uncommitted operator changes in the target checkout
  away,     \* the operator has checked out another branch there
  promoted, \* promoted[a]: the outputs the bridge has published
  ctl,      \* ctl[a]: the supervisor's progress and what it holds in memory
  spent     \* how much of each bound is used

vars == <<commits, target, landing, branch, wt, dirty, away, promoted, ctl, spent>>

Contents == Values \cup {Link, Big}
Trees == [Paths -> Contents \cup {None}]

-----------------------------------------------------------------------------
(* Git. *)

Anc ==
  LET anc[i \in 1..Len(commits)] ==
        {i} \cup UNION {anc[commits[i].parents[k]] : k \in 1..Len(commits[i].parents)}
  IN anc

Tree(c) == commits[c].tree

\* git rev-list base..head
Range(anc, base, head) == anc[head] \ anc[base]

\* git diff --name-status: the paths that differ, and those that are deleted.
Diff(old, new) == {p \in Paths : old[p] # new[p]}
Deleted(old, new) == {p \in Paths : old[p] # None /\ new[p] = None}

Contained(p, scopes) == (Parents[p] \cup {p}) \cap scopes # {}

\* In the write scope and not a bridge-owned output.
Selected(a, p) == Contained(p, Scope[a]) /\ ~Contained(p, Outputs[a])

\* git status: what differs from HEAD, ignored untracked files left out.
Residue(a) ==
  LET head == Tree(wt[a].head)
  IN {p \in Diff(head, wt[a].files) : ~(head[p] = None /\ p \in Ignored)}

Untracked(a, p) == Tree(wt[a].head)[p] = None

-----------------------------------------------------------------------------
(* The gates. *)

\* Unsafe artifacts are refused: a symlink on disk or a structural path in any
\* case, a self-loading file outside the write scope.
CbseClean(a, paths) ==
  \A p \in paths :
    \/ Contained(p, Outputs[a])
    \/ /\ wt[a].files[p] # Link
       /\ p \notin Structural
       /\ p \in Autoload => Contained(p, Scope[a])

\* Every authorised deletion names a file of the base, in scope.
DeletesFrozen(a) ==
  \A p \in Deletes[a] :
    Selected(a, p) /\ p \notin Structural /\ BaseTree[p] # None

\* What one commit changed, and whether its non-deleted entries are regular.
Changes(c) == Diff(Tree(commits[c].parents[1]), Tree(c))
RegularModes(tree, paths) == \A p \in paths : tree[p] # Link

\* The worker's history is linear from its base and every commit of it leaves
\* regular files only.
Audited(anc, base, head) ==
  /\ base \in anc[head]
  /\ \A c \in Range(anc, base, head) :
       /\ Len(commits[c].parents) = 1
       /\ RegularModes(Tree(c), Changes(c))

Changed(anc, base, head) == UNION {Changes(c) : c \in Range(anc, base, head)}
Dropped(anc, base, head) ==
  UNION {Deleted(Tree(commits[c].parents[1]), Tree(c)) : c \in Range(anc, base, head)}

\* The trusted hook runs on the squad's own repository only.
Hooked(a, tree) == a \in External \/ (Passes(tree) /\ ~Leaks(tree))
LeakFree(a, tree) == a \in External \/ ~Leaks(tree)

-----------------------------------------------------------------------------
NoTree == [exists |-> FALSE, head |-> 0, attached |-> TRUE, files |-> BaseTree]
NoCandidate == [head |-> 0, tree |-> BaseTree, commit |-> 0]
Idle == [pc |-> "idle", handle |-> FALSE, contract |-> FALSE, base |-> 0,
         cand |-> NoCandidate, worker |-> 0, before |-> 0, prepared |-> 0, tries |-> 0]

Init ==
  /\ commits = <<[parents |-> <<>>, tree |-> BaseTree, by |-> Operator]>>
  /\ target = 1
  /\ landing = [a \in Attempts |-> None]
  /\ branch = [a \in Attempts |-> None]
  /\ wt = [a \in Attempts |-> NoTree]
  /\ dirty = {}
  /\ away = FALSE
  /\ promoted = [a \in Attempts |-> {}]
  /\ ctl = [a \in Attempts |-> Idle]
  /\ spent = [work |-> 0, ops |-> 0, faults |-> 0]

Spend(what, limit) == spent[what] < limit /\ spent' = [spent EXCEPT ![what] = @ + 1]

At(a, pc) == ctl[a].pc = pc
Goto(a, pc) == ctl' = [ctl EXCEPT ![a].pc = pc]

Commit(parents, tree, by) ==
  commits' = Append(commits, [parents |-> parents, tree |-> tree, by |-> by])

\* Every commit object and both refs a commit in an attached worktree moves.
MoveHead(a, c) ==
  /\ wt' = [wt EXCEPT ![a].head = c]
  /\ branch' = IF wt[a].attached THEN [branch EXCEPT ![a] = c] ELSE branch

-----------------------------------------------------------------------------
(* The worker, and anything it leaves running. *)

WorkerEdit(a) ==
  /\ wt[a].exists
  /\ Spend("work", MaxWork)
  /\ \E p \in Paths, c \in Contents \cup {None} :
       /\ wt[a].files[p] # c
       /\ wt' = [wt EXCEPT ![a].files[p] = c]
       /\ promoted' = [promoted EXCEPT ![a] = @ \ {p}]
  /\ UNCHANGED <<commits, target, landing, branch, dirty, away, ctl>>

WorkerCommit(a) ==
  /\ wt[a].exists
  /\ Len(commits) < MaxCommits
  /\ Spend("work", MaxWork)
  /\ Diff(Tree(wt[a].head), wt[a].files) # {}
  /\ Commit(<<wt[a].head>>, wt[a].files, a)
  /\ MoveHead(a, Len(commits) + 1)
  /\ UNCHANGED <<target, landing, dirty, away, promoted, ctl>>

\* git merge of the target into the worker's branch.
WorkerMerge(a) ==
  /\ wt[a].exists
  /\ Len(commits) < MaxCommits
  /\ Spend("work", MaxWork)
  /\ target \notin Anc[wt[a].head]
  /\ Commit(<<wt[a].head, target>>, wt[a].files, a)
  /\ MoveHead(a, Len(commits) + 1)
  /\ UNCHANGED <<target, landing, dirty, away, promoted, ctl>>

\* git reset to an ancestor, and git checkout --detach.
WorkerReset(a) ==
  /\ wt[a].exists
  /\ Spend("work", MaxWork)
  /\ \E c \in Anc[wt[a].head] \ {wt[a].head} : MoveHead(a, c)
  /\ UNCHANGED <<commits, target, landing, dirty, away, promoted, ctl>>

WorkerDetach(a) ==
  /\ wt[a].exists
  /\ wt[a].attached
  /\ Spend("work", MaxWork)
  /\ wt' = [wt EXCEPT ![a].attached = FALSE]
  /\ UNCHANGED <<commits, target, landing, branch, dirty, away, promoted, ctl>>

-----------------------------------------------------------------------------
(* The operator, and the output bridge. *)

OperatorCommit ==
  /\ Len(commits) < MaxCommits
  /\ Spend("ops", MaxOps)
  /\ \E p \in Paths, c \in Values \cup {None} :
       /\ Tree(target)[p] # c
       /\ Commit(<<target>>, [Tree(target) EXCEPT ![p] = c], Operator)
  /\ target' = Len(commits) + 1
  /\ UNCHANGED <<landing, branch, wt, dirty, away, promoted, ctl>>

OperatorEdit ==
  /\ Spend("ops", MaxOps)
  /\ \E p \in Paths \ dirty : dirty' = dirty \cup {p}
  /\ UNCHANGED <<commits, target, landing, branch, wt, away, promoted, ctl>>

OperatorCheckout ==
  /\ Spend("ops", MaxOps)
  /\ away' = ~away
  /\ UNCHANGED <<commits, target, landing, branch, wt, dirty, promoted, ctl>>

Promote(a) ==
  /\ wt[a].exists
  /\ ctl[a].pc = "done"
  /\ \E p \in Outputs[a] \ promoted[a] :
       /\ wt[a].files[p] # None
       /\ promoted' = [promoted EXCEPT ![a] = @ \cup {p}]
  /\ UNCHANGED <<commits, target, landing, branch, wt, dirty, away, ctl, spent>>

-----------------------------------------------------------------------------
(* provision *)

Provision(a) ==
  /\ At(a, "idle")
  /\ ~ctl[a].handle
  /\ ~wt[a].exists
  /\ branch[a] = None     \* git worktree add -b
  /\ branch' = [branch EXCEPT ![a] = target]
  /\ wt' = [wt EXCEPT ![a] = [exists |-> TRUE, head |-> target, attached |-> TRUE,
                              files |-> Tree(target)]]
  /\ ctl' = [ctl EXCEPT ![a].pc = "running", ![a].handle = TRUE, ![a].base = target]
  /\ UNCHANGED <<commits, target, landing, dirty, away, promoted, spent>>

\* The new worktree fails validation: it and its branch are removed again.
ProvisionRejected(a) ==
  /\ At(a, "idle")
  /\ branch[a] = None
  /\ Spend("faults", MaxFaults)
  /\ Goto(a, "rejected")
  /\ UNCHANGED <<commits, target, landing, branch, wt, dirty, away, promoted>>

-----------------------------------------------------------------------------
(* validate_worker_residue: the candidate is the history and the in-scope    *)
(* residue as they are now.                                                  *)

InScopeResidue(a) == {p \in Residue(a) : Selected(a, p)}

CandidateTree(a) ==
  [p \in Paths |-> IF p \in InScopeResidue(a) THEN wt[a].files[p]
                                              ELSE Tree(wt[a].head)[p]]

ValidCandidate(a) ==
  LET anc == Anc
      head == wt[a].head
      base == ctl[a].base
      changed == Changed(anc, base, head)
      tree == CandidateTree(a)
  IN /\ wt[a].attached
     /\ Audited(anc, base, head)
     /\ CbseClean(a, changed \cup Residue(a))
     /\ DeletesFrozen(a)
     /\ \A p \in changed : Selected(a, p)
     /\ Dropped(anc, base, head) \subseteq Deletes[a]
     /\ \/ changed = {} /\ InScopeResidue(a) = {}
        \/ /\ Deleted(Tree(head), tree) \subseteq Deletes[a]
           /\ RegularModes(tree, InScopeResidue(a))
           /\ \A c \in Range(anc, base, head) : LeakFree(a, Tree(c))
           /\ Hooked(a, tree)

\* The residue commit object is made here; no ref names it yet.
Validate(a) ==
  /\ At(a, "running")
  /\ IF ~ValidCandidate(a)
       THEN Goto(a, "failing") /\ UNCHANGED commits
       ELSE LET tree == CandidateTree(a)
                head == wt[a].head
                kept == tree = Tree(head)
            IN /\ IF kept THEN UNCHANGED commits ELSE Commit(<<head>>, tree, a)
               /\ ctl' = [ctl EXCEPT ![a].pc = "validated",
                            ![a].cand = [head |-> head, tree |-> tree,
                                         commit |-> IF kept THEN head
                                                    ELSE Len(commits) + 1]]
  /\ UNCHANGED <<target, landing, branch, wt, dirty, away, promoted, spent>>

\* The response was not a completion: its output is evidence only.
NotComplete(a) ==
  /\ At(a, "running")
  /\ Goto(a, "failing")
  /\ UNCHANGED <<commits, target, landing, branch, wt, dirty, away, promoted, spent>>

-----------------------------------------------------------------------------
(* commit_worker_residue *)

\* The branch moves by compare-and-swap; the reset of the index after it may fail.
CommitResidue(a) ==
  /\ At(a, "validated")
  /\ IF wt[a].attached /\ branch[a] = ctl[a].cand.head
       THEN /\ wt' = [wt EXCEPT ![a].head = ctl[a].cand.commit]
            /\ branch' = [branch EXCEPT ![a] = ctl[a].cand.commit]
            /\ \E next \in {"committed", "failing"} : Goto(a, next)
       ELSE Goto(a, "failing") /\ UNCHANGED <<wt, branch>>
  /\ UNCHANGED <<commits, target, landing, dirty, away, promoted, spent>>

-----------------------------------------------------------------------------
(* integrate_worktree_commits *)

\* Mutant: the commits since validation are audited again, not compared.
StaleCandidateAccepted(a) ==
  LET anc == Anc
      head == wt[a].head
      base == ctl[a].base
      changed == Changed(anc, base, head)
  IN /\ DeletesFrozen(a)
     /\ wt[a].attached
     /\ ~away
     /\ Audited(anc, base, head)
     /\ \A p \in changed : Selected(a, p)
     /\ Dropped(anc, base, head) \subseteq Deletes[a]
     /\ CbseClean(a, changed \cup Residue(a))
     /\ InScopeResidue(a) = {}

Integrable(a) ==
  LET anc == Anc
      head == wt[a].head
      base == ctl[a].base
      changed == Changed(anc, base, head)
  IN /\ DeletesFrozen(a)
     /\ wt[a].attached
     /\ head = ctl[a].cand.commit
     /\ ~away
     /\ Audited(anc, base, head)
     /\ \A p \in changed : Selected(a, p)
     /\ Dropped(anc, base, head) \subseteq Deletes[a]
     /\ CbseClean(a, changed \cup Residue(a))
     /\ InScopeResidue(a) = {}

\* The audit before the attempts; the release contract is registered first.
Audit(a) ==
  /\ At(a, "committed")
  /\ ctl' = [ctl EXCEPT ![a].contract = TRUE,
                        ![a].worker = wt[a].head,
                        ![a].tries = 0,
                        ![a].pc = IF Integrable(a) THEN "audited" ELSE "failing"]
  /\ UNCHANGED <<commits, target, landing, branch, wt, dirty, away, promoted, spent>>

\* git merge-tree of the target and the worker over the worker's base.
Merged(base, ours, theirs) ==
  [p \in Paths |-> IF theirs[p] = base[p] THEN ours[p] ELSE theirs[p]]
Conflicting(base, ours, theirs) ==
  \E p \in Paths : ours[p] # base[p] /\ theirs[p] # base[p] /\ ours[p] # theirs[p]

\* The scope on the target is still what the worker started from.
ScopeUnchanged(a) ==
  \A p \in Paths : Contained(p, Scope[a]) => Tree(target)[p] = Tree(ctl[a].base)[p]

\* Concurrent target changes belong to the tree that lands, so the hook judges
\* it again.
Revalidated(a, tree) == Hooked(a, tree)

Prepare(a) ==
  LET head == ctl[a].worker
      base == ctl[a].base
      changed == Changed(Anc, base, head)
      tree == Merged(Tree(base), Tree(target), Tree(head))
      refuse == ctl' = [ctl EXCEPT ![a].pc = "failing"] /\ UNCHANGED commits
      ready(c) == ctl' = [ctl EXCEPT ![a].pc = "prepared", ![a].before = target,
                                     ![a].prepared = c, ![a].tries = @ + 1]
  IN /\ At(a, "audited")
     /\ \/ /\ ~(base \in Anc[target] /\ ScopeUnchanged(a))
           /\ refuse
        \/ /\ base \in Anc[target] /\ ScopeUnchanged(a)
           /\ changed = {}
           /\ ctl' = [ctl EXCEPT ![a].pc = "done"]
           /\ UNCHANGED commits
        \/ /\ base \in Anc[target] /\ ScopeUnchanged(a)
           /\ changed # {}
           /\ IF changed \cap dirty # {} THEN refuse
              ELSE IF target = base THEN ready(head) /\ UNCHANGED commits
              ELSE IF \/ Conflicting(Tree(base), Tree(target), Tree(head))
                      \/ ~(Deleted(Tree(target), tree) \subseteq Deletes[a])
                      \/ \E p \in Diff(Tree(target), tree) : ~Selected(a, p)
                      \/ ~Revalidated(a, tree)
                THEN refuse
                ELSE Commit(<<target, head>>, tree, Board) /\ ready(Len(commits) + 1)
     /\ UNCHANGED <<target, landing, branch, wt, dirty, away, promoted, spent>>

Tries == 3

\* Under board-integration.lock: is the target still what was prepared for?
TargetUnmoved(a) == target = ctl[a].before

\* git merge --ff-only moves the target; an external repository gets a new
\* board/<task> ref instead, and an existing one is refused.
Publish(a) ==
  \/ /\ a \notin External
     /\ target' = ctl[a].prepared
     /\ Goto(a, "done")
     /\ UNCHANGED landing
  \/ /\ a \in External
     /\ landing[a] = None
     /\ landing' = [landing EXCEPT ![a] = ctl[a].prepared]
     /\ Goto(a, "done")
     /\ UNCHANGED target

\* Under the lock.  A target that moved is retried; every other change of the
\* world since the audit is final.
Land(a) ==
  LET changed == Changed(Anc, ctl[a].base, ctl[a].worker)
      to(pc) == Goto(a, pc) /\ UNCHANGED <<target, landing>>
  IN /\ At(a, "prepared")
     /\ \/ /\ away \/ wt[a].head # ctl[a].worker \/ changed \cap dirty # {}
           /\ to("failing")
        \/ /\ ~away /\ wt[a].head = ctl[a].worker /\ changed \cap dirty = {}
           /\ ~TargetUnmoved(a)
           /\ to(IF ctl[a].tries < Tries THEN "audited" ELSE "raced")
        \/ /\ ~away /\ wt[a].head = ctl[a].worker /\ changed \cap dirty = {}
           /\ TargetUnmoved(a)
           /\ Publish(a)
     /\ UNCHANGED <<commits, branch, wt, dirty, away, promoted, spent>>

-----------------------------------------------------------------------------
(* _preserve_attempt_evidence.  sweep is TRUE at release, where ignored files  *)
(* of the scope count too and the outputs do not; explicit are the outputs     *)
(* that trusted authority names.                                               *)

Explicit(a) == IF a \in External THEN {} ELSE Outputs[a]
Excluded(a, sweep) == IF sweep \/ a \in External THEN Outputs[a] ELSE {}

Offered(a, sweep) ==
  LET explicit == IF sweep THEN {} ELSE Explicit(a)
      wanted(p) == /\ p \in explicit \/ Contained(p, Scope[a])
                   /\ Contained(p, Excluded(a, sweep)) => p \in explicit
                   /\ p \in explicit => p \notin promoted[a]
      diff == Diff(Tree(wt[a].head), wt[a].files)
  IN {p \in diff : wanted(p) /\ (p \in Residue(a) \/ p \in explicit \/ sweep)}

\* Regular tracked changes and deletions, and untracked files within bounds,
\* the explicit outputs first.
Kept(a, sweep, offered) ==
  LET tracked == {p \in offered : ~Untracked(a, p) /\ wt[a].files[p] # Link}
      fit == {p \in offered : Untracked(a, p) /\ wt[a].files[p] \notin {Link, Big}}
      first == IF sweep THEN {} ELSE fit \cap Outputs[a]
      n == IF Cardinality(fit) < MaxFiles THEN Cardinality(fit) ELSE MaxFiles
  IN {tracked \cup s : s \in {t \in SUBSET fit :
        Cardinality(t) = n /\ (first \subseteq t \/ t \subseteq first)}}

OutOfScope(a, sweep) ==
  {p \in Residue(a) :
     /\ ~Contained(p, Excluded(a, sweep))
     /\ ~Contained(p, Scope[a])
     /\ sweep \/ p \notin Explicit(a)}

\* The snapshot commit of the paths kept, if there are any.
Snapshot(a, kept) ==
  LET tree == [p \in Paths |-> IF p \in kept THEN wt[a].files[p]
                                             ELSE Tree(wt[a].head)[p]]
  IN IF kept = {} THEN UNCHANGED <<commits, branch, wt>>
     ELSE Commit(<<wt[a].head>>, tree, a) /\ MoveHead(a, Len(commits) + 1)

\* preserve_terminal_evidence after a refusal, a response that is not a
\* completion, a cancel or a reap.  A detached worktree is refused and stays.
Preserve(a) ==
  /\ ctl[a].pc \in {"failing", "raced", "dead"}
  /\ wt[a].exists
  /\ Goto(a, "blocked")
  /\ IF ~wt[a].attached THEN UNCHANGED <<commits, branch, wt>>
     ELSE LET offered == Offered(a, FALSE)
          IN \E kept \in Kept(a, FALSE, offered) : Snapshot(a, kept)
  /\ UNCHANGED <<target, landing, dirty, away, promoted, spent>>

-----------------------------------------------------------------------------
(* release: the supervisor asks for it only for a clean tree of an attempt     *)
(* whose receipt carries no preserved evidence.                                *)

Swept(a) == Offered(a, TRUE)

Release(a) ==
  /\ At(a, "done")
  /\ ctl[a].handle
  /\ IF Residue(a) # {} \/ (ctl[a].contract /\ ~wt[a].attached)
       THEN Goto(a, "retained") /\ UNCHANGED <<commits, branch, wt>>
       ELSE LET offered == IF ctl[a].contract THEN Swept(a) ELSE {}
            IN \E kept \in Kept(a, TRUE, offered) :
                 /\ Snapshot(a, kept)
                 /\ Goto(a, IF offered = {} /\ OutOfScope(a, TRUE) = {}
                              THEN "swept" ELSE "retained")
  /\ UNCHANGED <<target, landing, dirty, away, promoted, spent>>

\* git branch -d, or for an external repository the ancestry check and the
\* compare-and-delete: only a merged branch goes.
BranchMerged(a) ==
  \/ branch[a] \in Anc[target]
  \/ a \in External /\ landing[a] # None /\ branch[a] \in Anc[landing[a]]

\* git worktree remove refuses a dirty tree; then the branch goes if merged.
\* git branch -d judges by the branch that is checked out.
Remove(a) ==
  /\ At(a, "swept")
  /\ IF Residue(a) # {}
       THEN Goto(a, "retained") /\ UNCHANGED <<wt, branch>>
       ELSE /\ wt' = [wt EXCEPT ![a] = NoTree]
            /\ branch' = IF BranchMerged(a) /\ (a \in External \/ ~away)
                           THEN [branch EXCEPT ![a] = None] ELSE branch
            /\ ctl' = [ctl EXCEPT ![a] = [Idle EXCEPT !.pc = "released",
                                                      !.base = ctl[a].base]]
  /\ UNCHANGED <<commits, target, landing, dirty, away, promoted, spent>>

\* The supervisor dies: its handle, contract and candidate die with it.
Crash(a) ==
  /\ ctl[a].pc \notin {"idle", "rejected", "blocked", "retained", "released", "dead"}
  /\ Spend("faults", MaxFaults)
  /\ ctl' = [ctl EXCEPT ![a] = [Idle EXCEPT !.pc = "dead", !.base = ctl[a].base]]
  /\ UNCHANGED <<commits, target, landing, branch, wt, dirty, away, promoted>>

Worker(a) == \/ WorkerEdit(a) \/ WorkerCommit(a) \/ WorkerMerge(a)
             \/ WorkerReset(a) \/ WorkerDetach(a)

Supervisor(a) ==
  \/ Provision(a) \/ ProvisionRejected(a) \/ Validate(a) \/ NotComplete(a)
  \/ CommitResidue(a) \/ Audit(a) \/ Prepare(a) \/ Land(a)
  \/ Preserve(a) \/ Release(a) \/ Remove(a)

Next ==
  \/ \E a \in Attempts : Worker(a) \/ Supervisor(a) \/ Promote(a) \/ Crash(a)
  \/ OperatorCommit \/ OperatorEdit \/ OperatorCheckout

Spec == Init /\ [][Next]_vars
-----------------------------------------------------------------------------
(* Properties. *)

Refs == {target} \cup {landing[a] : a \in {b \in Attempts : landing[b] # None}}
Landed(a) == At(a, "prepared") /\ ctl'[a].pc = "done"

ScopeIntact(a) ==
  \A p \in Paths : Contained(p, Scope[a]) => Tree(target)[p] = Tree(ctl[a].base)[p]

WorktreesTypeOK ==
  /\ \A i \in 1..Len(commits) :
       /\ commits[i].tree \in Trees
       /\ \A k \in 1..Len(commits[i].parents) : commits[i].parents[k] \in 1..(i - 1)
       /\ commits[i].by \in Attempts \cup {Operator, Board}
  /\ target \in 1..Len(commits)
  /\ \A a \in Attempts : branch[a] # None => branch[a] \in 1..Len(commits)
  /\ \A a \in Attempts : wt[a].exists /\ wt[a].attached => wt[a].head = branch[a]

\* Integration ships a history, not a tree: every commit of a worker that a
\* published branch reaches changes only selected paths, leaves regular files,
\* deletes only what was authorised and passes the leak guard, however the
\* worker rewrote, laundered or raced it (_audited_worker_changes,
\* integrate_worktree_commits).
LandedHistoryAudited ==
  LET anc == Anc
  IN \A c \in UNION {anc[r] : r \in Refs} :
       LET a == commits[c].by
       IN a \in Attempts =>
            /\ Len(commits[c].parents) = 1
            /\ \A p \in Changes(c) : Selected(a, p) /\ Tree(c)[p] # Link
            /\ Deleted(Tree(commits[c].parents[1]), Tree(c)) \subseteq Deletes[a]
            /\ LeakFree(a, Tree(c))

\* A published branch only ever moves forward, by the operator or by the board,
\* and a task branch never moves: no integration discards what another one or
\* the operator landed (the check under board-integration.lock).
TargetOnlyGrows ==
  /\ target \in Anc'[target']
  /\ \A a \in Attempts : landing[a] # None => landing'[a] = landing[a]

\* In an external repository the base branch is the operator's alone; work
\* lands on the task's branch only.
ExternalBaseUntouched ==
  \A a \in External : Landed(a) => target' = target

\* An integration changes only its own selected paths, and only while the whole
\* scope on the target is what the worker started from: it never builds on a
\* scope that someone else changed meanwhile (the scope drift check).
LandsOnKnownScope ==
  \A a \in Attempts : Landed(a) /\ target' # target =>
    /\ \A p \in Diff(Tree(target), Tree(target)') : Selected(a, p)
    /\ ScopeIntact(a)

\* The tree that an integration makes current was judged by the hook as a
\* whole: two changes that pass alone and fail together never both land
\* (_validate_candidate_tree on the merge).
LandedTreePasses ==
  \A a \in Attempts :
    Landed(a) /\ target' # target => Hooked(a, Tree(target)')

\* What lands is what was validated: nothing the worker committed after the
\* validation is part of it (the candidate's compare-and-swap and HEAD checks).
LandsValidatedHead ==
  \A a \in Attempts : Landed(a) =>
    \A c \in UNION {Anc'[r] : r \in Refs'} :
      commits[c].by = a => c \in Anc[ctl[a].cand.commit]

\* Three attempts are lost only to three moves of the target by others: an
\* integration never gives up because of one or two concurrent landings.
RaceNeedsThreeMoves ==
  \A a \in Attempts : At(a, "raced") =>
    Cardinality({c \in Range(Anc, ctl[a].base, target) : commits[c].by \in {Operator, Board}})
      >= 3

\* Releasing a worktree destroys no work of the scope.  The sweep passes only
\* when every selected file, ignored ones too, is committed; the removal takes
\* nothing selected that git status shows; and the commits of its branch stay
\* reachable from a branch (release, _delete_merged_board_branch).
ReleaseKeepsWork ==
  \A a \in Attempts :
    LET lost(p) == Selected(a, p) /\ wt[a].files[p] # Tree(wt[a].head)[p]
    IN /\ At(a, "done") /\ ctl'[a].pc = "swept" => \A p \in Paths : ~lost(p)
       /\ wt[a].exists /\ ~wt'[a].exists =>
            /\ \A p \in Residue(a) : ~lost(p)
            /\ \/ ~wt[a].attached
               \/ branch'[a] # None /\ wt[a].head \in Anc'[branch'[a]]
               \/ \E r \in Refs' : wt[a].head \in Anc'[r]
=============================================================================
