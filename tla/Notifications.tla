--------------------------- MODULE Notifications ---------------------------
(***************************************************************************)
(* Operator notification (scripts/python/registry_reconciler.py): a sweep   *)
(* records what it owes in the registry row, publishes durable notices,     *)
(* appends queue rows, types pages into the Chrono pane, and acknowledges   *)
(* or records the failure of each delivery.  Sweeps run concurrently and    *)
(* may die between any two steps.  A page is backed by a receipt file per   *)
(* event, or by one receipt for a digest of several events from which the   *)
(* members' receipts are fanned out.                                        *)
(*                                                                         *)
(* An event is a task and a lifecycle state; its delivery generation is 1,  *)
(* the code has no path that increments it.  The sections under the         *)
(* registry lock, the queue lock and the notify lock are atomic here.       *)
(***************************************************************************)
EXTENDS Naturals, FiniteSets

CONSTANTS
    Procs,       \* processes that may run a sweep
    Tasks,       \* registered tasks
    Managed,     \* events with a pending record: pairs of a task and a state
    OneShot,     \* coordination events, delivered once without a pending record
    Registered,  \* tasks the host's canonical registry knows
    Attended,    \* events whose notice the recipient may acknowledge
    NoEvent,     \* no event
    MaxRaises,   \* bound: sweeps that raise events
    MaxFaults    \* bound: crashes and failed writes

Events == Managed \cup OneShot
TaskOf(e) == e[1]

EventAssumption ==
    /\ \A e \in Events : TaskOf(e) \in Tasks
    /\ Managed \cap OneShot = {}
    /\ Attended \subseteq Events
    /\ NoEvent \notin Events
    /\ MaxRaises \in Nat /\ MaxFaults \in Nat

VARIABLES
    pending,     \* notification_pending_events, over all rows
    failed,      \* the pending records with outcome failed and queue_recorded
    created,     \* created_at of the pending records
    old,         \* the pending records created more than six hours ago
    notifKey,    \* notification_key of each row
    notifAt,     \* notification_event_created_at of each row
    coordKeyed,  \* events in coordination_notification_key
    intents,     \* notice_pending_events, over all rows
    inbox,       \* the durable notice store
    rows,        \* events with a marked row in chrono-queue.md
    sent,        \* events with a receipt file
    digests,     \* member sets of the digests with a receipt file
    marker,      \* the .digest file of each event, {} if there is none
    pages,       \* how often each event was typed into the pane
    paneUp,      \* the tmux session and its coordinator pane exist
    sweep,       \* what each process is doing
    clock,       \* sweeps that raised events so far
    faults       \* faults so far

registryVars == <<pending, failed, created, old, notifKey, notifAt, coordKeyed, intents>>
receiptVars == <<sent, digests, marker, pages>>
nvars == <<registryVars, receiptVars, inbox, rows, paneUp, sweep, clock, faults>>

Idle == [at |-> "idle", batch |-> {}, queued |-> {}, grouped |-> {}, todo |-> {}, done |-> {},
         tidy |-> FALSE]

NoticeTypeOK ==
    /\ pending \subseteq Managed /\ failed \subseteq pending /\ old \subseteq pending
    /\ created \in [Managed -> 0..MaxRaises]
    /\ notifKey \in [Tasks -> Managed \cup {NoEvent}]
    /\ notifAt \in [Tasks -> 0..MaxRaises]
    /\ coordKeyed \subseteq OneShot
    /\ intents \subseteq Events
    /\ inbox \in [Events -> {"absent", "pending", "acknowledged"}]
    /\ rows \subseteq Events
    /\ sent \subseteq Events /\ digests \subseteq SUBSET Events
    /\ marker \in [Events -> SUBSET Events]
    /\ pages \in [Events -> Nat]
    /\ paneUp \in BOOLEAN
    /\ sweep \in [Procs -> [at : {"idle", "select", "deliver", "settle"}, batch : SUBSET Events,
                            queued : SUBSET Events, grouped : SUBSET Events,
                            todo : SUBSET Events, done : SUBSET Events,
                            tidy : BOOLEAN]]
    /\ clock \in 0..MaxRaises /\ faults \in 0..MaxFaults

NoticeInit ==
    /\ pending = {} /\ failed = {} /\ old = {} /\ created = [e \in Managed |-> 0]
    /\ notifKey = [t \in Tasks |-> NoEvent] /\ notifAt = [t \in Tasks |-> 0]
    /\ coordKeyed = {} /\ intents = {}
    /\ inbox = [e \in Events |-> "absent"]
    /\ rows = {} /\ sent = {} /\ digests = {} /\ marker = [e \in Events |-> {}]
    /\ pages = [e \in Events |-> 0]
    /\ paneUp \in BOOLEAN
    /\ sweep = [p \in Procs |-> Idle]
    /\ clock = 0 /\ faults = 0

Fault(occurs) ==
    /\ occurs => faults < MaxFaults
    /\ faults' = IF occurs THEN faults + 1 ELSE faults

----------------------------------------------------------------------------
(* The locked part of a sweep. *)

\* What a lifecycle transition may raise: an event that is neither the one
\* last delivered for its row nor already pending.
NotificationDue(e) == e \in Managed /\ notifKey[TaskOf(e)] # e /\ e \notin pending
CoordinationDue(e) == e \in OneShot /\ e \notin coordKeyed
Due == {e \in Events : NotificationDue(e) \/ CoordinationDue(e)}

\* The events of this sweep: durable retries of the rows in its scope, and the new ones.
Deliveries(scope, fresh) == {e \in pending : TaskOf(e) \in scope} \cup fresh

\* An enqueue of an identity the store holds, acknowledged or not, changes nothing.
Enqueued(E) ==
    [e \in Events |-> IF e \in E /\ inbox[e] = "absent" THEN "pending" ELSE inbox[e]]

\* Every delivery leaves an intent; the intents in scope are enqueued one by
\* one, and one whose enqueue failed is kept for the next sweep.
PublishIntents(scope, batch, stored) ==
    /\ LET due == {e \in intents \cup batch : TaskOf(e) \in scope}
       IN  stored \subseteq due /\ Fault(stored # due)
    /\ inbox' = Enqueued(stored)
    /\ intents' = (intents \cup batch) \ stored

Scopes == {Tasks} \cup {{t} : t \in Tasks}

\* reconcile() under the registry lock: transitions raise events, notices are
\* published, the registry is written, and the deliveries are bound.
PrepareSweep(p, scope, fresh, stored) ==
    LET batch == Deliveries(scope, fresh)
        raised == fresh \cap Managed
    IN  /\ sweep[p].at = "idle"
        /\ fresh \subseteq {e \in Due : TaskOf(e) \in scope}
        /\ fresh # {} => clock < MaxRaises
        /\ batch # {}
        /\ PublishIntents(scope, batch, stored)
        /\ clock' = IF fresh = {} THEN clock ELSE clock + 1
        /\ pending' = pending \cup raised
        /\ created' = [e \in Managed |-> IF e \in raised THEN clock' ELSE created[e]]
        /\ coordKeyed' = coordKeyed \cup (fresh \cap OneShot)
        /\ sweep' = [sweep EXCEPT ![p] =
                        [Idle EXCEPT !.at = "select", !.batch = batch,
                                     !.queued = failed \cap batch]]
        /\ UNCHANGED <<failed, old, notifKey, notifAt, receiptVars, rows, paneUp>>

\* The process dies after the store's commit and before the registry's.
PrepareTorn(p, scope, fresh) ==
    /\ sweep[p].at = "idle" /\ faults < MaxFaults
    /\ fresh # {} /\ fresh \subseteq {e \in Due : TaskOf(e) \in scope}
    /\ inbox' = Enqueued(Deliveries(scope, fresh))
    /\ faults' = faults + 1
    /\ UNCHANGED <<registryVars, receiptVars, rows, paneUp, sweep, clock>>

----------------------------------------------------------------------------
(* deliver_notification_sweep, with no registry lock. *)

\* Receipted events are done; more than three eligible ones, or old ones, form a digest.
SelectDeliveries(p) ==
    LET s == sweep[p]
        canonical == {e \in s.batch : TaskOf(e) \in Registered}
        eligible == canonical \ sent
        grouped == IF Cardinality(eligible) > 3 THEN eligible ELSE eligible \cap old
    IN  /\ s.at = "select"
        /\ sweep' = [sweep EXCEPT ![p] =
                        [s EXCEPT !.at = "deliver", !.grouped = grouped,
                                  !.done = canonical \cap sent,
                                  !.tidy = (eligible = {} /\ canonical # {}),
                                  !.todo = s.batch \ (canonical \cap sent)]]
        /\ UNCHANGED <<registryVars, receiptVars, inbox, rows, paneUp, clock, faults>>

\* A marked row is appended once; a replay finds its marker.
AppendChronoQueue(p, e) ==
    /\ sweep[p].at = "deliver" /\ e \in sweep[p].todo \ sweep[p].queued
    /\ rows' = rows \cup {e}
    /\ sweep' = [sweep EXCEPT ![p].queued = @ \cup {e}]
    /\ UNCHANGED <<registryVars, receiptVars, inbox, paneUp, clock, faults>>

\* Mutant: what a committed digest covered is not recovered.
RecoveredNever(E) == {}
\* Members of a digest that was committed whose own receipt is missing.
Recovered(E) == {e \in E \ sent : marker[e] # {} /\ marker[e] \in digests}

\* Digest maps are retired when every member that still names the digest is receipted.
Pruned(mk, receipted) ==
    [e \in Events |-> IF \A x \in Events : mk[x] = mk[e] => x \in receipted THEN {} ELSE mk[e]]

Page(E) == pages' = [e \in Events |-> IF e \in E THEN pages[e] + 1 ELSE pages[e]]

Finish(p, e, ok) ==
    sweep' = [sweep EXCEPT ![p].todo = @ \ {e}, ![p].done = IF ok THEN @ \cup {e} ELSE @]

NudgeReady(p, e) ==
    /\ sweep[p].at = "deliver" /\ e \in sweep[p].todo \ sweep[p].grouped
    /\ e \in sweep[p].queued

\* nudge_chrono for one event, under the notify lock.
NudgeEvent(p, e) ==
    LET known == sent \cup Recovered({e})
        clean == Pruned(marker, known)
    IN  /\ NudgeReady(p, e)
        /\ TaskOf(e) \in Registered
        /\ \/ /\ e \in known
              /\ sent' = known /\ marker' = clean
              /\ Finish(p, e, TRUE)
              /\ UNCHANGED <<pages, faults>>
           \/ /\ e \notin known /\ ~paneUp
              /\ sent' = known /\ marker' = clean
              /\ Finish(p, e, FALSE)
              /\ UNCHANGED <<pages, faults>>
           \/ /\ e \notin known /\ paneUp
              /\ Page({e})
              /\ sent' = known \cup {e} /\ marker' = Pruned(clean, known \cup {e})
              /\ Finish(p, e, TRUE)
              /\ UNCHANGED faults
           \/ /\ e \notin known /\ paneUp /\ faults < MaxFaults  \* typed, receipt not written
              /\ Page({e})
              /\ sent' = known /\ marker' = clean
              /\ Finish(p, e, FALSE)
              /\ faults' = faults + 1
        /\ UNCHANGED <<registryVars, digests, inbox, rows, paneUp, clock>>

\* A task the canonical registry does not know is queued and not paged.
WithholdPage(p, e) ==
    /\ NudgeReady(p, e)
    /\ TaskOf(e) \notin Registered
    /\ Finish(p, e, FALSE)
    /\ UNCHANGED <<registryVars, receiptVars, inbox, rows, paneUp, clock, faults>>

FinishDigest(p, ok) ==
    sweep' = [sweep EXCEPT ![p].todo = {}, ![p].grouped = {},
                           ![p].done = IF ok THEN @ \cup sweep[p].grouped ELSE @]

\* The digest nudge, after every row is appended: committed members are
\* recovered, the rest are mapped to the new digest before it is typed, and
\* its receipt commits all of them before theirs are fanned out.
NudgeDigest(p) ==
    LET S == sweep[p].grouped
        known == sent \cup Recovered(S)
        clean == Pruned(marker, known)
        D == S \ known
        mapped == [e \in Events |-> IF e \in D THEN D ELSE clean[e]]
    IN  /\ sweep[p].at = "deliver" /\ S # {} /\ sweep[p].todo = S /\ S \subseteq sweep[p].queued
        /\ \/ /\ D = {} \/ D \in digests
              /\ sent' = known \cup D /\ marker' = Pruned(mapped, known \cup D)
              /\ FinishDigest(p, TRUE)
              /\ UNCHANGED <<pages, digests, faults>>
           \/ /\ D # {} /\ D \notin digests /\ ~paneUp
              /\ sent' = known /\ marker' = mapped
              /\ FinishDigest(p, FALSE)
              /\ UNCHANGED <<pages, digests, faults>>
           \/ /\ D # {} /\ D \notin digests /\ paneUp
              /\ Page(D)
              /\ digests' = digests \cup {D}
              /\ sent' = known \cup D /\ marker' = Pruned(mapped, known \cup D)
              /\ FinishDigest(p, TRUE)
              /\ UNCHANGED faults
           \/ /\ D # {} /\ D \notin digests /\ paneUp /\ faults < MaxFaults
              /\ Page(D)
              /\ faults' = faults + 1
              /\ marker' = mapped
              /\ \/ digests' = digests /\ sent' = known  \* typed, receipt not written
                 \/ /\ digests' = digests \cup {D}       \* the fanout stops half way
                    /\ \E F \in SUBSET D : F # D /\ sent' = known \cup F
              /\ \/ FinishDigest(p, FALSE)               \* OSError
                 \/ sweep' = [sweep EXCEPT ![p] = Idle]  \* the process dies
        /\ UNCHANGED <<registryVars, inbox, rows, paneUp, clock>>

\* The loop is over; a sweep with nothing left to send still retires digest maps.
EndDelivery(p) ==
    /\ sweep[p].at = "deliver" /\ sweep[p].todo = {}
    /\ sweep' = [sweep EXCEPT ![p].at = "settle", ![p].todo = sweep[p].batch \cap Managed]
    /\ marker' = IF sweep[p].tidy THEN Pruned(marker, sent) ELSE marker
    /\ UNCHANGED <<registryVars, sent, digests, pages, inbox, rows, paneUp, clock, faults>>

----------------------------------------------------------------------------
(* Each delivery's outcome, under the registry lock again. *)

\* The row no longer has the record: delivered by another sweep, or the sweep raises.
RecordGone(p, e) ==
    /\ e \notin pending
    /\ sweep' = [sweep EXCEPT ![p] = IF notifKey[TaskOf(e)] = e
                                       THEN [sweep[p] EXCEPT !.todo = @ \ {e}] ELSE Idle]
    /\ UNCHANGED registryVars

\* The delivered key is published unless a newer event of the row was delivered.
AcknowledgeDelivery(p, e) ==
    /\ sweep[p].at = "settle" /\ e \in sweep[p].todo \cap sweep[p].done
    /\ \/ RecordGone(p, e)
       \/ /\ e \in pending
          /\ pending' = pending \ {e} /\ failed' = failed \ {e} /\ old' = old \ {e}
          /\ LET t == TaskOf(e)
                 publish == \/ notifKey[t] \in {NoEvent, e}
                            \/ created[e] >= notifAt[t]
             IN  /\ notifKey' = IF publish THEN [notifKey EXCEPT ![t] = e] ELSE notifKey
                 /\ notifAt' = IF publish THEN [notifAt EXCEPT ![t] = created[e]] ELSE notifAt
          /\ sweep' = [sweep EXCEPT ![p].todo = @ \ {e}]
          /\ UNCHANGED <<created, coordKeyed, intents>>
    /\ UNCHANGED <<receiptVars, inbox, rows, paneUp, clock, faults>>

RecordDeliveryFailure(p, e) ==
    /\ sweep[p].at = "settle" /\ e \in sweep[p].todo \ sweep[p].done
    /\ \/ RecordGone(p, e)
       \/ /\ e \in pending
          /\ failed' = failed \cup {e}
          /\ sweep' = [sweep EXCEPT ![p].todo = @ \ {e}]
          /\ UNCHANGED <<pending, created, old, notifKey, notifAt, coordKeyed, intents>>
    /\ UNCHANGED <<receiptVars, inbox, rows, paneUp, clock, faults>>

EndSweep(p) ==
    /\ sweep[p].at = "settle" /\ sweep[p].todo = {}
    /\ sweep' = [sweep EXCEPT ![p] = Idle]
    /\ UNCHANGED <<registryVars, receiptVars, inbox, rows, paneUp, clock, faults>>

----------------------------------------------------------------------------
(* Everything else. *)

Crash(p) ==
    /\ sweep[p].at # "idle" /\ faults < MaxFaults
    /\ sweep' = [sweep EXCEPT ![p] = Idle]
    /\ faults' = faults + 1
    /\ UNCHANGED <<registryVars, receiptVars, inbox, rows, paneUp, clock>>

\* The recipient acknowledges a durable notice; transport state does not change.
AckNotice(e) ==
    /\ e \in Attended /\ inbox[e] = "pending"
    /\ inbox' = [inbox EXCEPT ![e] = "acknowledged"]
    /\ UNCHANGED <<registryVars, receiptVars, rows, paneUp, sweep, clock, faults>>

PaneChanges ==
    /\ paneUp' = ~paneUp
    /\ UNCHANGED <<registryVars, receiptVars, inbox, rows, sweep, clock, faults>>

SixHoursPass ==
    /\ old # pending
    /\ old' = pending
    /\ UNCHANGED <<pending, failed, created, notifKey, notifAt, coordKeyed, intents>>
    /\ UNCHANGED <<receiptVars, inbox, rows, paneUp, sweep, clock, faults>>

StartSweep(p) ==
    \E scope \in Scopes : \E fresh \in SUBSET Due :
        \E stored \in SUBSET (intents \cup pending \cup fresh) : PrepareSweep(p, scope, fresh, stored)

SweepStep(p) ==
    \/ SelectDeliveries(p)
    \/ \E e \in Events : AppendChronoQueue(p, e) \/ NudgeEvent(p, e) \/ WithholdPage(p, e)
    \/ NudgeDigest(p)
    \/ EndDelivery(p)
    \/ \E e \in Managed : AcknowledgeDelivery(p, e) \/ RecordDeliveryFailure(p, e)
    \/ EndSweep(p)

NoticeNext ==
    \/ \E p \in Procs :
        \/ StartSweep(p)
        \/ \E scope \in Scopes : \E fresh \in SUBSET Due : PrepareTorn(p, scope, fresh)
        \/ SweepStep(p)
        \/ Crash(p)
    \/ \E e \in Events : AckNotice(e)
    \/ PaneChanges
    \/ SixHoursPass

NoticeSpec == NoticeInit /\ [][NoticeNext]_nvars

\* The watcher starts sweeps of the whole registry again and again, the store
\* accepts what they enqueue, and a sweep that started runs on.
RetrySweep(p) == \E stored \in {intents \cup pending} : PrepareSweep(p, Tasks, {}, stored)

----------------------------------------------------------------------------
(* Properties. *)

\* Events some receipt commits, their own or a digest's.
Delivered == sent \cup UNION digests

\* An event that a receipt commits, its own or that of a digest whose fanout
\* was interrupted, is never typed into the pane again, whichever of the
\* concurrent sweeps holds it (nudge_chrono, "no-ops" on replay).
NoDuplicatePage == \A e \in Delivered : pages'[e] = pages[e]

\* A pending record leaves the registry only when a receipt backs its delivery,
\* so a failed, withheld or interrupted page is always retried
\* (acknowledge_notification_delivery).
RetiredOnlyIfDelivered == \A e \in pending \ pending' : e \in Delivered

\* A page points at the queue: its row was appended before it was typed
\* (emit_event, "Durable-first").
DurableFirst == \A e \in Events : pages[e] > 0 => e \in rows

\* A member of a committed digest has its receipt or still maps to a committed
\* digest that names it, so that the receipt can be recovered
\* (nudge_chrono, _prune_completed_digest_markers).
DigestRecoverable ==
    \A D \in digests : \A e \in D :
        e \in sent \/ (marker[e] \in digests /\ e \in marker[e])

\* Every event the registry has on record, retried or one-shot, is owed to the
\* recipient or was consumed, even if its notice could not be stored
\* (publish_durable_notices keeps the intent).
RaisedIsOwed == \A e \in pending \cup coordKeyed : e \in intents \/ inbox[e] # "absent"

\* Publication implements the durable obligation: whatever was raised stays
\* owed, as an intent or as a notice, until the recipient acknowledges it, and
\* an old producer's replay never raises it again (publish_durable_notices).
Owed == [e \in Events |->
            IF inbox[e] = "acknowledged" THEN "consumed"
            ELSE IF inbox[e] = "pending" \/ e \in intents THEN "owed" ELSE "none"]
Obligation == INSTANCE Obligations WITH owed <- Owed

=============================================================================
