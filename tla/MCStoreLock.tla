-------------------------------- MODULE MCStoreLock --------------------------------
(***************************************************************************)
(* The delegation store lock and the other waits of the system that must   *)
(* end, one instance in each behaviour: four processes at the store lock (a*)
(* dead owner, two waiters that both see it, and a third that enters       *)
(* between their teardowns); two dispatches that ask the host for room; a  *)
(* broker with a relay, its retry, a stranger and a silent connection; a   *)
(* migration that a fault cut in two; a response held for its manifest; and*)
(* a capture process over two responses.                                   *)
(***************************************************************************)
EXTENDS StoreLock, Sequences, TLC

CONSTANTS None, a1, a2, t1, t2, w1, w2, r1, r2, c1

VARIABLE part  \* the instance this behaviour is of

\* HostAdmission
VARIABLES hostPc, waited, live, first, host, desc, receipt, proc, packet,
          bound, kills, edits
hostVars == <<hostPc, waited, live, first, host, desc, receipt, proc, packet,
              bound, kills, edits>>
IdleHost == hostPc = "idle" /\ waited = "idle" /\ live = "idle" /\
    first = "idle" /\ host = "idle" /\ desc = "idle" /\ receipt = "idle" /\
    proc = "idle" /\ packet = "idle" /\ bound = "idle" /\ kills = "idle" /\
    edits = "idle"

\* VaultBroker
VARIABLES sup, backend, thread, serving, listening, stop, failure, complaints,
          client, backlog, bridged, launched, faults
brokerVars == <<sup, backend, thread, serving, listening, stop, failure,
                complaints, client, backlog, bridged, launched, faults>>
IdleBroker == sup = "idle" /\ backend = "idle" /\ thread = "idle" /\
    serving = "idle" /\ listening = "idle" /\ stop = "idle" /\
    failure = "idle" /\ complaints = "idle" /\ client = "idle" /\
    backlog = "idle" /\
    bridged = "idle" /\ launched = "idle" /\ faults = "idle"

\* CoordinationMigration
VARIABLES reg, queue, lock, op, plan, applied, appends, migrationEdits,
          migrationFaults
migrationVars == <<reg, queue, lock, op, plan, applied, appends,
                   migrationEdits, migrationFaults>>
IdleMigration == reg = "idle" /\ queue = "idle" /\ lock = "idle" /\
    op = "idle" /\ plan = "idle" /\ applied = "idle" /\ appends = "idle" /\
    migrationEdits = "idle" /\ migrationFaults = "idle"

\* Delivery
VARIABLES deliveryReg, visible, epoch, tokens, claimed, resp, landings,
          manifest, card, drifts, passed, clock
deliveryVars == <<deliveryReg, visible, epoch, tokens, claimed, resp,
                  landings, manifest, card, drifts, passed, clock>>
IdleDelivery == deliveryReg = "idle" /\ visible = "idle" /\ epoch = "idle" /\
    tokens = "idle" /\ claimed = "idle" /\ resp = "idle" /\
    landings = "idle" /\ manifest = "idle" /\ card = "idle" /\
    drifts = "idle" /\ passed = "idle" /\ clock = "idle"

\* Autocapture
VARIABLES files, packets, records, spool, today, notes, broken, vaultUp,
          captureLock, job, outcome, sent, captureFaults
captureVars == <<files, packets, records, spool, today, notes, broken,
                 vaultUp, captureLock, job, outcome, sent, captureFaults>>
IdleCapture == files = "idle" /\ packets = "idle" /\ records = "idle" /\
    spool = "idle" /\ today = "idle" /\ notes = "idle" /\ broken = "idle" /\
    vaultUp = "idle" /\ captureLock = "idle" /\ job = "idle" /\
    outcome = "idle" /\ sent = "idle" /\ captureFaults = "idle"

vars == <<part, lvars, hostVars, brokerVars, migrationVars, deliveryVars,
          captureVars>>

MaxEdits == 2
ClientKind == [c \in {"r1", "r2", "s1", "q1"} |->
    CASE c = "s1" -> "stray" [] c = "q1" -> "silent" [] OTHER -> "relay"]

-----------------------------------------------------------------------------
(* The instances. *)

Host == INSTANCE HostAdmission WITH
    Attempts <- {a1, a2}, FamilyOf <- [a \in {a1, a2} |-> "openai"],
    FamilyTarget <- 1, Weather <- {"fits", "tight", "unreadable"},
    Budget <- 2, MaxKills <- 1, phase <- hostPc

Broker == INSTANCE VaultBroker WITH
    Clients <- {"r1", "r2", "s1", "q1"}, Kind <- ClientKind,
    Aperture <- "default", MaxFaults <- 1

Migration == INSTANCE CoordinationMigration WITH
    Tasks <- {t1, t2}, Declared <- {}, MaxAppends <- 0, MaxEdits <- 1,
    MaxFaults <- 2, edits <- migrationEdits, faults <- migrationFaults

Held == INSTANCE Delivery WITH
    Tasks <- {t1}, Workers <- {w1, w2}, DispatchedAt <- [t \in {t1} |-> 1],
    Pooled <- {t1}, Pinned <- {t1}, Targets <- {None}, Pins <- {"card", None},
    Bundles <- BOOLEAN, Manifests <- {"absent"}, LeaseTime <- 1, MaxTime <- 1,
    MaxEpoch <- 1, MaxLease <- 1, MaxResponses <- 2, MaxDrift <- 1,
    reg <- deliveryReg

Capture == INSTANCE Autocapture WITH
    Procs <- {c1}, Responses <- {r1, r2}, Valid <- {r1, r2},
    Named <- {r1, r2}, Bounty <- {}, Says <- [r \in {r1, r2} |-> "none"], Security <- {}, Thin <- {},
    OptIn <- FALSE, Due <- {r1}, Offset <- [r \in {r1, r2} |-> 1],
    MaxRows <- 4, ReaderRows <- 4, Days <- 1, MaxOutages <- 1, MaxFailures <- 0,
    MaxCrashes <- 1, MaxTears <- 0, Prunable <- {}, MaxDamage <- 0,
    captureNotes <- notes, lock <- captureLock

Init ==
  \/ part = "store" /\ LockInit /\ IdleHost /\ IdleBroker /\ IdleMigration /\
        IdleDelivery /\ IdleCapture
  \/ part = "host" /\ Host!HostInit /\ LockInit /\ IdleBroker /\ IdleMigration /\
        IdleDelivery /\ IdleCapture
  \/ part = "broker" /\ Broker!Init /\ LockInit /\ IdleHost /\
        IdleMigration /\ IdleDelivery /\ IdleCapture
  \/ part = "migration" /\ Migration!Init /\ LockInit /\ IdleHost /\
        IdleBroker /\ IdleDelivery /\ IdleCapture
  \/ part = "delivery" /\ Held!DeliveryInit /\ LockInit /\ IdleHost /\ IdleBroker /\
        IdleMigration /\ IdleCapture
  \/ part = "capture" /\ Capture!CaptureInit /\ LockInit /\ IdleHost /\ IdleBroker /\
        IdleMigration /\ IdleDelivery

Next ==
  \/ part = "store" /\ LockNext /\ UNCHANGED <<part, hostVars, brokerVars,
        migrationVars, deliveryVars, captureVars>>
  \/ part = "host" /\ Host!HostNext /\ UNCHANGED <<part, lvars, brokerVars,
        migrationVars, deliveryVars, captureVars>>
  \/ part = "broker" /\ Broker!Next /\ UNCHANGED <<part, lvars, hostVars,
        migrationVars, deliveryVars, captureVars>>
  \/ part = "migration" /\ Migration!Next /\ UNCHANGED <<part, lvars,
        hostVars, brokerVars, deliveryVars, captureVars>>
  \/ part = "delivery" /\ Held!DeliveryNext /\ UNCHANGED <<part, lvars, hostVars,
        brokerVars, migrationVars, captureVars>>
  \/ part = "capture" /\ Capture!CaptureNext /\ UNCHANGED <<part, lvars, hostVars,
        brokerVars, migrationVars, deliveryVars>>

Only(p, A) == part = p /\ A

\* A waiter at the store lock runs its loop, and nobody is obliged to enter
\* or to release; a dispatcher keeps asking; the broker's two threads run; a
\* migration command runs to its end and the operator repeats an apply that
\* is still possible; the watcher keeps sweeping, its restarts replay every
\* response on disk, a started capture runs, and an outage of the vault ends.
Fairness ==
  /\ \A p \in Procs : WF_lvars(Only("store", WaiterStep(p)))
  /\ \A a \in {a1, a2} : WF_hostVars(Only("host", Host!Dispatching(a)))
  /\ WF_brokerVars(Only("broker", Broker!Supervise))
  /\ WF_brokerVars(Only("broker", Broker!Serve))
  /\ WF_migrationVars(Only("migration", Migration!Command))
  /\ SF_migrationVars(Only("migration", Migration!Apply))
  /\ WF_deliveryVars(Only("delivery", Held!ReconcileResponse(t1)))
  /\ WF_captureVars(Only("capture", Capture!Step(c1)))
  /\ WF_captureVars(Only("capture", Capture!VaultBack))
  /\ \A r \in {r1, r2} : SF_captureVars(Only("capture", Capture!Start(c1, r)))

Spec == Init /\ [][Next]_vars
FairSpec == Spec /\ Fairness

\* What the components assume of their constants.
ASSUME InstanceAssumption ==
  /\ Host!HostAssumption
  /\ Broker!BrokerAssumption
  /\ Held!DeliveryAssumption
  /\ Capture!AutocaptureAssumption

-----------------------------------------------------------------------------
(* Properties. *)

\* Whatever waits gets an answer. A dispatcher that asks the host for room is
\* admitted or refused within its budget (SQUAD_ADMISSION_MAX_WAIT_SECONDS)
\* and then runs the bytes its preflight bound (_binding_changed); the
\* broker's serve thread ends once it is being closed, unless the backend it
\* bridges survives SIGKILL, of which close complains; a migration that a
\* crash cut in two does not stay so while its entries are as planned; the
\* hold for a missing manifest clears once the manifest has landed
\* (declared_hash_issue); a response that stays on disk and is worth keeping
\* is a note in the end, and an eligible spooled row graduates while some due
\* response is replayed (graduate_spooled_once).
WaitsEnd ==
  /\ [](part = "host" => Host!RunsBoundBytes)
  /\ \A a \in {a1, a2} : Only("host", Host!Asking(a)) ~> Only("host", Host!Answered(a))
  /\ (Only("broker", stop)
       ~> Only("broker", ~Broker!ThreadAlive \/ "backend" \in complaints))
  /\ (Only("migration", Migration!AsPlanned /\ Migration!Published)
       ~> Only("migration", ~Migration!AsPlanned))
  /\ (Only("delivery", Held!HashHeld(t1)) ~> Only("delivery", Held!HashCleared(t1)))
  /\ \A r \in {r1, r2} :
       []Only("capture", r \in files) => <>Only("capture", Capture!HasNote(r))
  /\ \A r \in {r1, r2} :
       Only("capture", Capture!Spooled(r))
         ~> Only("capture", Capture!HasNote(r) \/ r1 \notin files)
=============================================================================
