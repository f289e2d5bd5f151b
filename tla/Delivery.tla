------------------------------ MODULE Delivery ------------------------------
(***************************************************************************)
(* Registration, claim and the response gate of                            *)
(* scripts/python/registry_reconciler.py: register_task and its            *)
(* idempotence, claim_task with the lane queue and the assigned-worker     *)
(* fence, and the checks a landed response passes before the sweep may     *)
(* settle it: the capability pin echo, the worker fence echo and the       *)
(* declared bundle hash.  Settlement starts where this gate ends.          *)
(*                                                                         *)
(* The scheduler that assigns workers and leases is not in the repository; *)
(* Assign is modelled from the fields these functions read.                *)
(***************************************************************************)
EXTENDS Naturals, FiniteSets

CONSTANTS Tasks, Workers,
          DispatchedAt,  \* task -> the stamp its dispatcher took
          Pooled,        \* tasks that wait for an assigned worker
          Pinned,        \* tasks dispatched with a capability card
          Targets,       \* values of a packet's reviews field, or None
          Pins,          \* what a response may say of its card, or None
          Bundles,       \* whether a response may declare a bundle digest
          Manifests,     \* what a scan for the digest finds before it lands
          LeaseTime, MaxTime, MaxEpoch, MaxLease, MaxResponses, MaxDrift,
          None

\* The fields of a registry entry that registration, claim and gate use.
Entries ==
  [reviews : Targets \cup {None}, status : {"in-flight", "settled"},
   state : {"queued", "in-progress", "terminal"}, worker : Workers \cup {None},
   epoch : 0..MaxEpoch, lease : 0..MaxLease, expires : Nat \cup {None},
   assigned : {None, "assigned", "in-progress", "expired"}, cancelled : BOOLEAN,
   startedAt : Nat \cup {None}, pinIssue : BOOLEAN, workerIssue : BOOLEAN,
   hashIssue : BOOLEAN, echoAbsent : BOOLEAN, leaseAbsent : BOOLEAN, drift : BOOLEAN]

DeliveryAssumption ==
  /\ DispatchedAt \in [Tasks -> Nat]
  /\ Pins \subseteq {"card", "other", None}
  /\ {LeaseTime, MaxTime, MaxLease} \subseteq Nat /\ MaxEpoch \in Nat \ {0}
  /\ Bundles \subseteq BOOLEAN
  /\ None \notin Nat /\ None \notin Entries /\ None \notin Workers

VARIABLES reg,       \* task -> its registry entry, or None
          visible,   \* task -> tasks in progress when it was registered
          epoch,     \* worker -> its current epoch
          tokens,    \* fences handed to workers
          claimed,   \* fences a claim accepted
          resp,      \* task -> its landed response, or None
          landings,  \* responses landed so far
          manifest,  \* task -> "absent", "unknown" (scan budget), "there"
          card,      \* the capability card on disk
          drifts,    \* edits of the card so far
          passed,    \* task -> the response that passed the gate, or None
          clock

deliveryVars == <<reg, visible, epoch, tokens, claimed, resp, landings, manifest, card,
          drifts, passed, clock>>

Open == {"queued", "claimed", "in-progress"}
Fences == [task : Tasks, worker : Workers, epoch : 1..MaxEpoch, lease : 1..MaxLease]

New(t, target) ==
  [reviews |-> target, status |-> "in-flight", state |-> "queued",
   worker |-> None, epoch |-> 0, lease |-> 0, expires |-> None,
   assigned |-> None, cancelled |-> FALSE, startedAt |-> None,
   pinIssue |-> FALSE, workerIssue |-> FALSE, hashIssue |-> FALSE,
   echoAbsent |-> FALSE, leaseAbsent |-> FALSE, drift |-> FALSE]

DeliveryInit ==
  /\ reg = [t \in Tasks |-> None]
  /\ visible = [t \in Tasks |-> {}]
  /\ epoch = [w \in Workers |-> 1]
  /\ tokens = {} /\ claimed = {}
  /\ resp = [t \in Tasks |-> None] /\ landings = 0
  /\ manifest \in [Tasks -> Manifests]
  /\ card = "card" /\ drifts = 0
  /\ passed = [t \in Tasks |-> None]
  /\ clock = 0

InProgress(t) == reg[t] # None /\ reg[t].state = "in-progress" /\ reg[t].status = "in-flight"

(***************************************************************************)
(* register_task.                                                          *)
(***************************************************************************)
\* Mutant: a retry stores the entry it was given.
RegisterOverwrites(t, target) ==
  /\ reg' = [reg EXCEPT ![t] = New(t, target)]
  /\ UNCHANGED <<visible, epoch, tokens, claimed, resp, landings, manifest, card,
                 drifts, passed, clock>>

\* A retry of the same dispatch keeps the entry; a packet target the stored
\* entry lacks is filled in, a different one is refused.
register_task(t, target) ==
  /\ \/ /\ reg[t] = None
        /\ reg' = [reg EXCEPT ![t] = New(t, target)]
        /\ visible' = [visible EXCEPT ![t] = {u \in Tasks : InProgress(u)}]
     \/ /\ reg[t] # None /\ reg[t].reviews = None /\ target # None
        /\ reg' = [reg EXCEPT ![t].reviews = target] /\ visible' = visible
  /\ UNCHANGED <<epoch, tokens, claimed, resp, landings, manifest, card, drifts,
                 passed, clock>>

(***************************************************************************)
(* The scheduler, the workers' restarts and time.                          *)
(***************************************************************************)
Fence(t) == [task |-> t, worker |-> reg[t].worker, epoch |-> reg[t].epoch,
             lease |-> reg[t].lease]

Assign(t, w, leased) ==
  /\ t \in Pooled /\ reg[t] # None /\ reg[t].status = "in-flight"
  /\ ~reg[t].cancelled /\ reg[t].lease < MaxLease
  /\ \/ reg[t].state = "queued"
     \/ reg[t].state = "in-progress" /\ reg[t].expires # None /\ reg[t].expires <= clock
  /\ \A u \in Tasks \ {t} : ~(InProgress(u) /\ reg[u].worker = w)
  /\ reg' = [reg EXCEPT ![t].worker = w, ![t].epoch = epoch[w], ![t].lease = @ + 1,
               ![t].state = "queued", ![t].assigned = "assigned",
               ![t].expires = IF leased THEN clock + LeaseTime ELSE None]
  /\ tokens' = tokens \cup {[task |-> t, worker |-> w, epoch |-> epoch[w],
                             lease |-> reg[t].lease + 1]}
  /\ UNCHANGED <<visible, epoch, claimed, resp, landings, manifest, card, drifts,
                 passed, clock>>

Restart(w) ==
  /\ epoch[w] < MaxEpoch
  /\ epoch' = [epoch EXCEPT ![w] = @ + 1]
  /\ UNCHANGED <<reg, visible, tokens, claimed, resp, landings, manifest, card,
                 drifts, passed, clock>>

Tick == /\ clock < MaxTime
        /\ clock' = clock + 1
        /\ UNCHANGED <<reg, visible, epoch, tokens, claimed, resp, landings,
                       manifest, card, drifts, passed>>

(***************************************************************************)
(* claim_task.                                                             *)
(***************************************************************************)
OpenHere(t) == reg[t] # None /\ reg[t].status = "in-flight" /\ reg[t].state \in Open

\* The open unpooled task of the lane with the least stamp (one lane here).
_delivery_head(t) ==
  /\ OpenHere(t)
  /\ \A u \in Tasks : OpenHere(u) => DispatchedAt[t] <= DispatchedAt[u]

ClaimUnpooled(t) ==
  /\ reg[t] # None /\ reg[t].worker = None
  /\ reg[t].state = "queued" /\ reg[t].status = "in-flight"
  /\ _delivery_head(t)
  /\ reg' = [reg EXCEPT ![t].state = "in-progress", ![t].startedAt = clock]
  /\ UNCHANGED <<visible, epoch, tokens, claimed, resp, landings, manifest, card,
                 drifts, passed, clock>>

LeaseLive(t) == reg[t].expires # None /\ clock < reg[t].expires

WorkerFree(t, w) == \A u \in Tasks \ {t} : OpenHere(u) => reg[u].worker # w

\* A fence that is not the assignment's is refused; an expired lease ends the
\* delivery; otherwise the worker's one task starts.
ClaimPooled(f) ==
  LET t == f.task IN
  /\ f \in tokens /\ reg[t] # None /\ reg[t].worker # None /\ f = Fence(t)
  /\ \/ /\ ~LeaseLive(t) /\ reg[t].state \in Open
        /\ reg' = [reg EXCEPT ![t].state = "terminal", ![t].assigned = "expired",
                              ![t].cancelled = TRUE]
        /\ claimed' = claimed
     \/ /\ LeaseLive(t) /\ WorkerFree(t, f.worker)
        /\ reg[t].state = "queued" /\ reg[t].status = "in-flight"
        /\ reg' = [reg EXCEPT ![t].state = "in-progress", ![t].assigned = "in-progress",
                    ![t].startedAt = IF @ = None THEN clock ELSE @]
        /\ claimed' = claimed \cup {f}
  /\ UNCHANGED <<visible, epoch, tokens, resp, landings, manifest, card, drifts,
                 passed, clock>>

(***************************************************************************)
(* A response lands.                                                       *)
(***************************************************************************)
\* A worker answers with the fence its claim accepted, whatever happened to
\* the assignment since; an unpooled answer may or may not carry the attempt
\* fence of the launch authority.
Response(f, attempt, pin, bundle) ==
  [fence |-> f, attempt |-> attempt, pin |-> pin, bundle |-> bundle, at |-> clock]

Respond(f, pin, bundle) ==
  /\ f \in claimed /\ landings < MaxResponses
  /\ resp' = [resp EXCEPT ![f.task] = Response(f, TRUE, pin, bundle)]
  /\ landings' = landings + 1
  /\ UNCHANGED <<reg, visible, epoch, tokens, claimed, manifest, card, drifts,
                 passed, clock>>

RespondUnpooled(t, attempt, pin, bundle) ==
  /\ InProgress(t) /\ reg[t].worker = None /\ landings < MaxResponses
  /\ resp' = [resp EXCEPT ![t] = Response(None, attempt, pin, bundle)]
  /\ landings' = landings + 1
  /\ UNCHANGED <<reg, visible, epoch, tokens, claimed, manifest, card, drifts,
                 passed, clock>>

\* The promised manifest reaches the task's output territory.
LandManifest(t) ==
  /\ manifest[t] # "there" /\ resp[t] # None /\ resp[t].bundle
  /\ manifest' = [manifest EXCEPT ![t] = "there"]
  /\ UNCHANGED <<reg, visible, epoch, tokens, claimed, resp, landings, card,
                 drifts, passed, clock>>

EditCard ==
  /\ drifts < MaxDrift /\ drifts' = drifts + 1
  /\ card' = IF card = "card" THEN "edited" ELSE "card"
  /\ UNCHANGED <<reg, visible, epoch, tokens, claimed, resp, landings, manifest,
                 passed, clock>>

(***************************************************************************)
(* The gate the sweep runs on a landed response.                           *)
(***************************************************************************)

\* A wrong pin blocks; a missing one blocks unless the launch authority wrote
\* the response, and is then only noted.
capability_pin_echo(t) ==
  t \in Pinned /\ (resp[t].pin = "other" \/ (resp[t].pin = None /\ ~resp[t].attempt))

PinEchoAbsent(t) == t \in Pinned /\ resp[t].pin = None /\ resp[t].attempt

\* TRUE: the response is not the assigned worker's current answer.
worker_response_issue(t) ==
  /\ reg[t].worker # None
  /\ \/ reg[t].assigned = "expired" \/ reg[t].cancelled
     \/ reg[t].expires # None /\ resp[t].at > reg[t].expires
     \/ resp[t].fence = None
     \/ resp[t].fence # Fence(t)

worker_lease_absence(t) == reg[t].worker # None /\ reg[t].expires = None

\* An unbacked digest holds; a scan that ran out of budget does not.
declared_hash_issue(t) == resp[t].bundle /\ manifest[t] = "absent"

update_capability_card_drift(t) == t \in Pinned /\ card # "card"

\* Identity first, then the bundle; either holds with the registry open, and
\* a hold clears as soon as its cause is gone.
ReconcileResponse(t) ==
  LET pin == capability_pin_echo(t)
      worker == worker_response_issue(t)
      e == [reg[t] EXCEPT !.drift = update_capability_card_drift(t)] IN
  /\ reg[t] # None /\ resp[t] # None /\ reg[t].status = "in-flight"
  /\ \/ /\ pin \/ worker
        /\ reg' = [reg EXCEPT ![t] = [e EXCEPT !.pinIssue = pin, !.workerIssue = worker]]
        /\ passed' = passed
     \/ /\ ~pin /\ ~worker /\ declared_hash_issue(t)
        /\ reg' = [reg EXCEPT ![t] = [e EXCEPT !.hashIssue = TRUE]]
        /\ passed' = passed
     \/ /\ ~pin /\ ~worker /\ ~declared_hash_issue(t)
        /\ reg' = [reg EXCEPT ![t] =
             [e EXCEPT !.pinIssue = FALSE, !.workerIssue = FALSE, !.hashIssue = FALSE,
                       !.echoAbsent = PinEchoAbsent(t),
                       !.leaseAbsent = worker_lease_absence(t),
                       !.status = "settled", !.state = "terminal"]]
        /\ passed' = [passed EXCEPT ![t] = resp[t]]
  /\ UNCHANGED <<visible, epoch, tokens, claimed, resp, landings, manifest, card,
                 drifts, clock>>

DeliveryNext ==
  \/ \E t \in Tasks :
       \/ \E target \in Targets : register_task(t, target)
       \/ \E w \in Workers, l \in BOOLEAN : Assign(t, w, l)
       \/ ClaimUnpooled(t)
       \/ \E a \in BOOLEAN, p \in Pins, b \in Bundles : RespondUnpooled(t, a, p, b)
       \/ LandManifest(t) \/ ReconcileResponse(t)
  \/ \E f \in tokens :
       \/ ClaimPooled(f)
       \/ \E p \in Pins, b \in Bundles : Respond(f, p, b)
  \/ \E w \in Workers : Restart(w)
  \/ Tick \/ EditCard

DeliverySpec == DeliveryInit /\ [][DeliveryNext]_deliveryVars

\* The watcher keeps sweeping.
DeliveryFairSpec == DeliverySpec /\ \A t \in Tasks : WF_deliveryVars(ReconcileResponse(t))

(***************************************************************************)
(* Properties.                                                             *)
(***************************************************************************)
\* The shape of the state: an assigned task in progress was started by a claim
\* with its present fence, and a fence was handed out before it was accepted.
DeliveryTypeOK ==
  /\ reg \in [Tasks -> Entries \cup {None}] /\ epoch \in [Workers -> 1..MaxEpoch]
  /\ clock \in 0..MaxTime
  /\ claimed \subseteq tokens /\ tokens \subseteq Fences
  /\ \A t \in Tasks : (resp[t] # None \/ passed[t] # None) => reg[t] # None
  /\ \A t \in Tasks : InProgress(t) /\ reg[t].worker # None => Fence(t) \in claimed

\* claim_task: a worker has one task in progress, although the scheduler may
\* hand it several and workers restart and claim in any order.
OneTaskPerWorker ==
  \A t, u \in Tasks : InProgress(t) /\ InProgress(u) /\ reg[t].worker # None
                        /\ reg[t].worker = reg[u].worker => t = u

\* _delivery_head: in an unpooled lane no task starts while an earlier
\* dispatched one waits, except one that was registered after it had started.
NoOvertaking ==
  \A t, u \in Tasks \ Pooled :
    InProgress(t) /\ OpenHere(u) /\ reg[u].state = "queued"
      /\ DispatchedAt[u] < DispatchedAt[t] => t \in visible[u]

\* worker_response_issue: what settles an assigned task is the answer of the
\* fence it is assigned to at that moment; a late answer of an earlier lease
\* or epoch of the same worker never does.
CurrentFenceSettles ==
  \A t \in Tasks : passed[t] # None /\ reg[t].worker # None
                     => passed[t].fence = Fence(t) /\ ~reg[t].cancelled

\* capability_pin_echo: a response that asserts another card, or an
\* unidentified one without the pin, never passes.
PinnedAttemptSettles ==
  \A t \in Tasks \cap Pinned : passed[t] # None =>
    passed[t].pin = "card" \/ (passed[t].pin = None /\ passed[t].attempt)

\* register_task: a retried registration changes neither the delivery state,
\* the assignment nor the start of a task, and a known target stays.
RetryKeepsReceipts ==
  \A t \in Tasks : reg[t] # None =>
    /\ reg'[t] # None
    /\ reg[t].startedAt # None => reg'[t].startedAt # None
    /\ reg[t].reviews # None => reg'[t].reviews = reg[t].reviews
    /\ reg[t].lease <= reg'[t].lease

\* declared_hash_issue: the hold is no trap.  A response that is the current
\* attempt's answer settles once its manifest has landed, unless another
\* response or another assignment takes its place.
HashHeld(t) == reg[t] # None /\ reg[t].hashIssue /\ manifest[t] = "there"
HashCleared(t) == /\ resp[t] # None
                  /\ \/ reg[t].status = "settled"
                     \/ capability_pin_echo(t) \/ worker_response_issue(t)
=============================================================================
