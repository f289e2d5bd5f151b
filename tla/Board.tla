------------------------------- MODULE Board -------------------------------
(***************************************************************************)
(* One board attempt, end to end: the dispatcher that registers and spawns  *)
(* it (bin/send-task.sh), the detached supervisor shell and the trusted     *)
(* launch under it (bin/board-supervisor.sh), the output bridge that        *)
(* publishes its artifact and envelope (dispatch_context_builder.py), and   *)
(* the operator's cancel and reap (board_process_truth.py).  These are the  *)
(* writers Settlement leaves open: this module EXTENDS it with them, keeps  *)
(* its registry operations as they are, and implements its specification.   *)
(*                                                                         *)
(* The packet names a return_artifact that is not the outbox response, so   *)
(* a publication is two writes.  The reconcile the dispatcher and the       *)
(* supervisor run at their end is one of the sweeps.                        *)
(***************************************************************************)
EXTENDS Settlement

VARIABLES
    dsp,      \* where the dispatcher is
    shell,    \* the detached supervisor shell, the process the descriptor names
    child,    \* the trusted launch, which outlives a killed shell
    capture,  \* the raw receipt the launch left for the finalizer
    dlock     \* an operator cancel holds the descriptor flock

bvars == <<dsp, shell, child, capture, dlock>>
vars == <<entry, pass, response, receipt, descriptor, artifact, dsp, shell, child, capture, dlock>>

DspStates == {"idle", "registered", "fail-artifact", "fail-envelope", "refused-artifact",
              "refused-envelope", "started", "spawned", "aborting", "dying", "done", "dead"}
ShellStates == {"none", "waiting", "running", "finalize", "stub", "envelope", "settle",
                "exited", "dead"}

\* worker statuses the output bridge can publish
Authorable == {"complete", "needs_review", "needs_human", "blocked"}

\* Settlement's writers may produce whatever the board's do.
ASSUME BoardStatusesAssumption == Authorable \subseteq ResponseStatuses
ASSUME BoardOutcomesAssumption == AllOutcomes \subseteq ReceiptOutcomes

BoardTypeOK ==
    /\ TypeOK
    /\ dsp \in [Tasks -> DspStates]
    /\ shell \in [Tasks -> ShellStates]
    /\ child \in [Tasks -> {"none", "working", "artifact", "finished", "dead"}]
    /\ capture \in [Tasks -> [launched: BOOLEAN, outcome: AllOutcomes \cup {"none"}]]
    /\ dlock \in [Tasks -> BOOLEAN]

NoCapture == [launched |-> FALSE, outcome |-> "none"]

BoardInit ==
    /\ Init
    /\ dsp = [t \in Tasks |-> "idle"]
    /\ shell = [t \in Tasks |-> "none"]
    /\ child = [t \in Tasks |-> "none"]
    /\ capture = [t \in Tasks |-> NoCapture]
    /\ dlock = [t \in Tasks |-> FALSE]

ShellAlive(t) == shell[t] \notin {"none", "exited", "dead"}
ChildAlive(t) == child[t] \in {"working", "artifact"}

-----------------------------------------------------------------------------
(* The output bridge: no-clobber publication of one file.                   *)

BlockedResponse(fenced) ==
    [st |-> "blocked", fenced |-> fenced, issue |-> "none", quarantined |-> FALSE]

PublishStub(t) == artifact[t] = "none" /\ artifact' = [artifact EXCEPT ![t] = "stub"]

PublishEnvelope(t, r) == response[t].st = "absent" /\ response' = [response EXCEPT ![t] = r]

-----------------------------------------------------------------------------
(* The dispatcher.                                                          *)

DispatcherGoes(t, from, to) == dsp[t] = from /\ dsp' = [dsp EXCEPT ![t] = to]

DispatchRegister(t, review) ==
    /\ DispatcherGoes(t, "idle", "registered")
    /\ Register(t, review)
    /\ UNCHANGED <<shell, child, capture, dlock>>

\* The context build fails: publish a fenced blocked completion, then die.
DispatchBuildFails(t) ==
    /\ DispatcherGoes(t, "registered", "fail-artifact")
    /\ UNCHANGED <<svars, shell, child, capture, dlock>>

\* Mutant: the dispatcher starts without re-reading the status of its row.
DispatchStartUnchecked(t) ==
    /\ DispatcherGoes(t, "registered", "started")
    /\ RegistryFree
    /\ entry' = [entry EXCEPT ![t].delivery = "in-progress", ![t].started = TRUE]
    /\ UNCHANGED <<pass, files, shell, child, capture, dlock>>
DispatchStart(t) ==
    /\ DispatcherGoes(t, "registered", "started")
    /\ BoardStart(t)
    /\ UNCHANGED <<shell, child, capture, dlock>>

\* The row is no longer in-flight and queued: publish an unfenced blocked completion.
DispatchStartRefused(t) ==
    /\ RegistryFree
    /\ ~(entry[t].status = "in-flight" /\ entry[t].delivery = "queued")
    /\ DispatcherGoes(t, "registered", "refused-artifact")
    /\ UNCHANGED <<svars, shell, child, capture, dlock>>

\* publish_blocked_completion: the stub, then the envelope; either may be refused.
DispatchPublishBlocked(t) ==
    /\ \/ /\ dsp[t] \in {"fail-artifact", "refused-artifact"}
          /\ \/ /\ PublishStub(t)
                /\ dsp' = [dsp EXCEPT ![t] = IF @ = "fail-artifact" THEN "fail-envelope"
                                             ELSE "refused-envelope"]
             \/ /\ artifact[t] # "none" /\ UNCHANGED artifact
                /\ dsp' = [dsp EXCEPT ![t] = "dying"]
          /\ UNCHANGED response
       \/ /\ dsp[t] \in {"fail-envelope", "refused-envelope"}
          /\ \/ PublishEnvelope(t, BlockedResponse(dsp[t] = "fail-envelope"))
             \/ response[t].st # "absent" /\ UNCHANGED response
          /\ dsp' = [dsp EXCEPT ![t] = "dying"]
          /\ UNCHANGED artifact
    /\ UNCHANGED <<entry, pass, receipt, descriptor, shell, child, capture, dlock>>

DispatchSpawn(t) ==
    /\ DispatcherGoes(t, "started", "spawned")
    /\ shell' = [shell EXCEPT ![t] = "waiting"]
    /\ UNCHANGED <<svars, child, capture, dlock>>

DispatchDescribe(t) ==
    /\ DispatcherGoes(t, "spawned", "done")
    /\ WriteDescriptor(t)
    /\ UNCHANGED <<shell, child, capture, dlock>>

\* No identity for the child: kill it, leave no descriptor.
DispatchDetachFails(t) ==
    /\ DispatcherGoes(t, "spawned", "aborting")
    /\ shell' = [shell EXCEPT ![t] = IF ShellAlive(t) THEN "dead" ELSE @]
    /\ UNCHANGED <<svars, child, capture, dlock>>

\* die(): cancel the row if it provably never launched, otherwise leave it.
DispatchDie(t) ==
    LET cancels == DispatcherCancel(t, dsp[t] = "aborting") IN
    /\ dsp[t] \in {"dying", "aborting"} /\ RegistryFree
    /\ \/ cancels
       \/ /\ ~(entry[t].status = "in-flight" /\ entry[t].delivery \in {"queued", "in-progress"})
          /\ UNCHANGED svars
       \/ /\ dsp[t] = "dying" /\ entry[t].started /\ UNCHANGED svars
    /\ dsp' = [dsp EXCEPT ![t] = "done"]
    /\ UNCHANGED <<shell, child, capture, dlock>>

DispatcherCrash(t) ==
    /\ dsp[t] \notin {"idle", "done", "dead"}
    /\ dsp' = [dsp EXCEPT ![t] = "dead"]
    /\ UNCHANGED <<svars, shell, child, capture, dlock>>

DispatcherStep(t) ==
    \/ \E k \in ReviewKinds : DispatchRegister(t, k)
    \/ DispatchBuildFails(t) \/ DispatchStart(t) \/ DispatchStartRefused(t)
    \/ DispatchPublishBlocked(t) \/ DispatchSpawn(t) \/ DispatchDescribe(t)
    \/ DispatchDetachFails(t) \/ DispatchDie(t) \/ DispatcherCrash(t)

-----------------------------------------------------------------------------
(* The detached supervisor shell.                                           *)

ShellGoes(t, from, to) == shell[t] = from /\ shell' = [shell EXCEPT ![t] = to]

\* Poll one second for the descriptor, then launch or give up.
ShellLaunch(t) ==
    /\ descriptor[t] /\ ShellGoes(t, "waiting", "running")
    /\ child' = [child EXCEPT ![t] = "working"]
    /\ UNCHANGED <<svars, dsp, capture, dlock>>

ShellGivesUp(t) ==
    /\ ~descriptor[t] /\ ShellGoes(t, "waiting", "exited")
    /\ UNCHANGED <<svars, dsp, child, capture, dlock>>

\* The launch has ended; a launch that left nothing is captured as blocked.
ShellCollect(t) ==
    /\ child[t] \in {"finished", "dead"} /\ ShellGoes(t, "running", "finalize")
    /\ capture' = [capture EXCEPT ![t] =
                      IF @.outcome = "none" THEN [launched |-> FALSE, outcome |-> "blocked"] ELSE @]
    /\ UNCHANGED <<svars, dsp, child, dlock>>

\* Mutant: the supervisor finalises without its dispatch lock, and takes work
\* that was never launched for complete.
ShellFinalizeAnyLock(t) ==
    /\ shell[t] = "finalize" /\ receipt[t] = "none"
    /\ receipt' = [receipt EXCEPT ![t] = IF capture[t].launched THEN capture[t].outcome ELSE "complete"]
    /\ shell' = [shell EXCEPT ![t] = "settle"]
    /\ UNCHANGED <<entry, pass, response, descriptor, artifact, dsp, child, capture, dlock>>
ShellFinalize(t) ==
    /\ shell[t] = "finalize" /\ ~dlock[t] /\ receipt[t] = "none"
    /\ receipt' = [receipt EXCEPT ![t] = capture[t].outcome]
    /\ shell' = [shell EXCEPT ![t] =
                    IF capture[t].launched \/ capture[t].outcome = "quarantine"
                    THEN "settle" ELSE "stub"]
    /\ UNCHANGED <<entry, pass, response, descriptor, artifact, dsp, child, capture, dlock>>

\* A launch that did not succeed publishes a blocked completion after its receipt.
ShellPublishBlocked(t) ==
    /\ \/ /\ shell[t] = "stub" /\ UNCHANGED response
          /\ \/ PublishStub(t) /\ shell' = [shell EXCEPT ![t] = "envelope"]
             \/ artifact[t] # "none" /\ UNCHANGED artifact /\ shell' = [shell EXCEPT ![t] = "exited"]
       \/ /\ shell[t] = "envelope" /\ UNCHANGED artifact
          /\ \/ PublishEnvelope(t, BlockedResponse(TRUE)) /\ shell' = [shell EXCEPT ![t] = "settle"]
             \/ response[t].st # "absent" /\ UNCHANGED response /\ shell' = [shell EXCEPT ![t] = "exited"]
    /\ UNCHANGED <<entry, pass, receipt, descriptor, dsp, child, capture, dlock>>

ShellExit(t) ==
    /\ ShellGoes(t, "settle", "exited")
    /\ UNCHANGED <<svars, dsp, child, capture, dlock>>

\* SIGKILL of the shell alone; the launch under it goes on.
ShellKilled(t) ==
    /\ ShellAlive(t)
    /\ shell' = [shell EXCEPT ![t] = "dead"]
    /\ UNCHANGED <<svars, dsp, child, capture, dlock>>

ShellStep(t) ==
    \/ ShellLaunch(t) \/ ShellGivesUp(t) \/ ShellCollect(t) \/ ShellFinalize(t)
    \/ ShellPublishBlocked(t) \/ ShellExit(t) \/ ShellKilled(t)

-----------------------------------------------------------------------------
(* The trusted launch: run the worker, validate, integrate, publish.        *)

(* Publish the artifact first.  q: the CLI failed in transport and its      *)
(* validated output is recovered as a quarantine.                           *)
ChildPublishArtifact(t, st, q) ==
    /\ child[t] = "working"
    /\ q => st \notin {"blocked", "needs_human"}
    /\ artifact[t] \in {"none", "stub"} \* this task's own stub is reclaimed
    /\ artifact' = [artifact EXCEPT ![t] = "work"]
    /\ child' = [child EXCEPT ![t] = "artifact"]
    /\ capture' = [capture EXCEPT ![t] = [launched |-> ~q,
                                          outcome |-> IF q THEN "quarantine" ELSE st]]
    /\ UNCHANGED <<entry, pass, response, receipt, descriptor, dsp, shell, dlock>>

\* The envelope last; a file already there refuses it and the launch is blocked.
ChildPublishEnvelope(t) ==
    /\ child[t] = "artifact"
    /\ \/ /\ PublishEnvelope(t, [st |-> IF capture[t].launched THEN capture[t].outcome
                                        ELSE "needs_review",
                                 fenced |-> TRUE, issue |-> "none",
                                 quarantined |-> ~capture[t].launched])
          /\ UNCHANGED capture
       \/ /\ response[t].st # "absent" /\ UNCHANGED response
          /\ capture' = [capture EXCEPT ![t] = [launched |-> FALSE, outcome |-> "blocked"]]
    /\ child' = [child EXCEPT ![t] = "finished"]
    /\ UNCHANGED <<entry, pass, receipt, descriptor, artifact, dsp, shell, dlock>>

\* Denied before the worker runs, or blocked by it, by validation or by integration.
ChildBlocks(t, outcome) ==
    /\ child[t] = "working"
    /\ child' = [child EXCEPT ![t] = "finished"]
    /\ capture' = [capture EXCEPT ![t] = [launched |-> FALSE, outcome |-> outcome]]
    /\ UNCHANGED <<svars, dsp, shell, dlock>>

\* A launch killed before it prints leaves an empty capture.
ChildKilled(t) ==
    /\ ChildAlive(t)
    /\ child' = [child EXCEPT ![t] = "dead"]
    /\ capture' = [capture EXCEPT ![t] = NoCapture]
    /\ UNCHANGED <<svars, dsp, shell, dlock>>

ChildStep(t) ==
    \/ \E st \in Authorable, q \in BOOLEAN : ChildPublishArtifact(t, st, q)
    \/ ChildPublishEnvelope(t)
    \/ \E o \in {"blocked", "denied"} : ChildBlocks(t, o)
    \/ ChildKilled(t)

-----------------------------------------------------------------------------
(* The operator.  cancel_attempt holds the descriptor flock while it kills  *)
(* the tree and writes the receipt; it may die in between.                  *)

CancelKill(t) ==
    /\ descriptor[t] /\ receipt[t] = "none" /\ ~dlock[t] /\ ShellAlive(t)
    /\ dlock' = [dlock EXCEPT ![t] = TRUE]
    /\ shell' = [shell EXCEPT ![t] = "dead"]
    /\ child' = [child EXCEPT ![t] = IF ChildAlive(t) THEN "dead" ELSE @]
    /\ UNCHANGED <<svars, dsp, capture>>

CancelCommit(t) ==
    /\ dlock[t]
    /\ receipt' = [receipt EXCEPT ![t] = "cancelled"]
    /\ dlock' = [dlock EXCEPT ![t] = FALSE]
    /\ UNCHANGED <<entry, pass, response, descriptor, artifact, dsp, shell, child, capture>>

CancelCrash(t) ==
    /\ dlock[t]
    /\ dlock' = [dlock EXCEPT ![t] = FALSE]
    /\ UNCHANGED <<svars, dsp, shell, child, capture>>

\* Mutant: the reaper neither takes the dispatch lock nor looks for a receipt.
ReapUnlocked(t) ==
    /\ descriptor[t] /\ ~ShellAlive(t)
    /\ receipt' = [receipt EXCEPT ![t] = "failed"]
    /\ UNCHANGED <<entry, pass, response, descriptor, artifact, bvars>>
Reap(t) ==
    /\ descriptor[t] /\ receipt[t] = "none" /\ ~dlock[t] /\ ~ShellAlive(t)
    /\ receipt' = [receipt EXCEPT ![t] = "failed"]
    /\ UNCHANGED <<entry, pass, response, descriptor, artifact, bvars>>

OperatorStep(t) == CancelKill(t) \/ CancelCommit(t) \/ CancelCrash(t) \/ Reap(t)

-----------------------------------------------------------------------------

RegistryStep ==
    /\ \/ \E t \in Tasks : Reconcile(t) \/ Controller(t)
       \/ \E S \in SUBSET Tasks, target \in LifecycleClosed : CloseTasks(S, target)
    /\ UNCHANGED bvars

BoardNext ==
    \/ RegistryStep
    \/ \E t \in Tasks : DispatcherStep(t) \/ ShellStep(t) \/ ChildStep(t) \/ OperatorStep(t)

BoardSpec == BoardInit /\ [][BoardNext]_vars

(* The sweep is run again and again by the outbox watcher and by every      *)
(* dispatch; nothing else is assumed to make progress.                      *)
SweepFairness == \A t \in Tasks : WF_vars(Reconcile(t) /\ UNCHANGED bvars)

FairBoardSpec == BoardSpec /\ SweepFairness

\* The controller also settles every review it can settle.
SettlingBoardSpec ==
    /\ FairBoardSpec
    /\ \A t \in Tasks : WF_vars(SettleReview(t, "APPROVE") /\ UNCHANGED bvars)

-----------------------------------------------------------------------------
(* Properties.                                                              *)

(* A row the dispatcher or the sweep cancelled as never launched has no     *)
(* worker, whatever the order of a slow dispatcher, the grace of the sweep, *)
(* a failed detach and a late descriptor.                                   *)
CancelledNeverRuns ==
    \A t \in Tasks : entry[t].status = "cancelled" /\ receipt[t] = "none" =>
        ~ChildAlive(t) /\ shell[t] \notin {"waiting", "running"}

(* A receipt that claims worker output follows the publication of both the  *)
(* artifact and the fenced envelope: `launched` is the promotion proof the  *)
(* finalizer relies on, for every kill, cancel and orphaned launch.         *)
ReceiptFollowsPromotion ==
    \A t \in Tasks : receipt[t] \in {"complete", "needs_review", "needs_human", "quarantine"} =>
        artifact[t] = "work" /\ response[t].st # "absent" /\ response[t].fenced

(* No row is complete without the worker's artifact at its path: a blocked  *)
(* stub, a failed or reaped attempt, a reopened or repaired row never       *)
(* becomes a completion.                                                    *)
CompleteHasWork ==
    \A t \in Tasks : entry[t].status = "complete" => artifact[t] = "work"

(* Once an attempt has its receipt, the sweep takes its row out of the open *)
(* states, even if the supervisor died before it could reconcile.           *)
ReceiptSettlesRow ==
    \A t \in Tasks : receipt[t] # "none" ~>
        entry[t].status \notin {"in-flight", "work-done-no-envelope"}

(* What release_blocked_stub and its call in the automatic close promise:   *)
(* the blocked stub of a task the sweep closed is retired, so a redispatch  *)
(* under a new id finds the return_artifact path free.                      *)
ClosedFreesPath ==
    \A t \in Tasks : entry[t].closedBy = "auto" /\ artifact[t] = "stub" ~>
        entry[t].status # "closed" \/ artifact[t] # "stub"

(* What --repair-envelope promises: after it reopens a row to needs_review  *)
(* over a complete response, the normal settlement paths apply, that is the *)
(* sweep or --settle-review takes it on.                                    *)
RepairedRowSettles ==
    \A t \in Tasks : entry[t].repaired /\ response[t].st = "complete"
                    /\ entry[t].status = "needs_review" ~> entry[t].status # "needs_review"
=============================================================================
