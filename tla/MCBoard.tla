---------------------------------- MODULE MCBoard ----------------------------------
(***************************************************************************)
(* The board and what settles its tasks, one instance in each behaviour:   *)
(* one attempt of one task, with every crash, kill, cancel and reap; the   *)
(* review gate over every document, over two commands, and with the memory *)
(* it promotes; the delivery of two tasks through a pool or a lane; the    *)
(* plan items a close marks; and the migration of old coordination rows.   *)
(***************************************************************************)
EXTENDS Board, Naturals, Sequences, TLC

CONSTANTS None, h1, h2, r1, r2, la, lb, lc, n1, n2, t1, t2, t3, w1, hTarget, i1, p1,
          openai, anthropic

VARIABLE part  \* the instance this behaviour is of

\* ReviewGate
VARIABLES gateEntry, version, row, packet, doc, lock, cmd, note, meta, index,
          used, queue, decisions, faults
gateVars == <<gateEntry, version, row, packet, doc, lock, cmd, note, meta,
              index, used, queue, decisions, faults>>
IdleGate == gateEntry = "idle" /\ version = "idle" /\ row = "idle" /\
    packet = "idle" /\ doc = "idle" /\ lock = "idle" /\ cmd = "idle" /\
    note = "idle" /\ meta = "idle" /\ index = "idle" /\ used = "idle" /\
    queue = "idle" /\ decisions = "idle" /\ faults = "idle"

\* Delivery
VARIABLES reg, visible, epoch, tokens, claimed, resp, landings, manifest,
          card, drifts, passed, clock
deliveryVars == <<reg, visible, epoch, tokens, claimed, resp, landings,
                  manifest, card, drifts, passed, clock>>
IdleDelivery == reg = "idle" /\ visible = "idle" /\ epoch = "idle" /\
    tokens = "idle" /\ claimed = "idle" /\ resp = "idle" /\
    landings = "idle" /\ manifest = "idle" /\ card = "idle" /\
    drifts = "idle" /\ passed = "idle" /\ clock = "idle"

\* PlanItem
VARIABLES itemEntry, declared, commits, gitUp, plan, history, itemLock,
          marker, runs
itemVars == <<itemEntry, declared, commits, gitUp, plan, history, itemLock,
              marker, runs>>
IdleItem == itemEntry = "idle" /\ declared = "idle" /\ commits = "idle" /\
    gitUp = "idle" /\ plan = "idle" /\ history = "idle" /\
    itemLock = "idle" /\ marker = "idle" /\ runs = "idle"

\* CoordinationMigration
VARIABLES migrationReg, migrationQueue, migrationLock, op, migrationPlan,
          applied, appends, edits, migrationFaults
migrationVars == <<migrationReg, migrationQueue, migrationLock, op,
                   migrationPlan, applied, appends, edits, migrationFaults>>
IdleMigration == migrationReg = "idle" /\ migrationQueue = "idle" /\
    migrationLock = "idle" /\ op = "idle" /\ migrationPlan = "idle" /\
    applied = "idle" /\ appends = "idle" /\ edits = "idle" /\
    migrationFaults = "idle"

partVars == <<part, vars, gateVars, deliveryVars, itemVars, migrationVars>>

(* The review gate: every class and lane, every document that gets one     *)
(* field wrong or lacks a verdict, one command after another.              *)
FamilyOf == la :> "A" @@ lb :> "B" @@ lc :> "A"
HeldRow(class, review, answer) ==
  [class |-> class, family |-> "A", reviewModel |-> review, mandatory |-> TRUE,
   status |-> "review-required", response |-> answer, settledBy |-> None,
   ref |-> None, verdict |-> None, forced |-> FALSE, bytes |-> 0]
ReviewRow(lane, held, file) == [lane |-> lane, reviews |-> held, artifact |-> file]
Direct == [from |-> lb, type |-> "RESULT", inResponseTo |-> h1, reviews |-> h1,
           lane |-> lb, family |-> "B", class |-> "factual", sha |-> 1,
           status |-> "complete", verdict |-> "APPROVE", artifact |-> None]
Attestation == [Direct EXCEPT !.from = "chrono", !.type = "REVIEW_ATTESTATION"]
Variants(x) ==
  {x, [x EXCEPT !.from = la], [x EXCEPT !.type = "REVIEW_ATTESTATION"],
   [x EXCEPT !.inResponseTo = h2], [x EXCEPT !.reviews = h2],
   [x EXCEPT !.family = "A"], [x EXCEPT !.lane = lc], [x EXCEPT !.class = None],
   [x EXCEPT !.sha = 2], [x EXCEPT !.status = "blocked"],
   [x EXCEPT !.verdict = "REJECT"], [x EXCEPT !.verdict = None],
   [x EXCEPT !.verdict = None, !.artifact = "other"], [x EXCEPT !.reviews = None]}
GateEntries ==
  {HeldRow(c, lb, "needs_review") : c \in {"standard", "factual", "security-finding"}}
    \cup {HeldRow("standard", lb, "needs_human"), HeldRow("standard", lc, "complete"),
          HeldRow("unreadable", lb, "complete"),
          [HeldRow("standard", lb, "complete") EXCEPT !.mandatory = FALSE],
          [HeldRow("standard", lb, "complete") EXCEPT !.status = "blocked"]}
GateRows == {None} \cup {ReviewRow(l, x, y) : l \in {lb, lc}, x \in {h1, None},
                                              y \in {None, "blank", "APPROVE"}}

(* Plan items: explicit lists, with an empty one that wins over a detailed *)
(* phase and two that are refused; and every kind of phase.                *)
Listed(ids) == [present |-> TRUE, ids |-> ids, phase |-> "none"]
Phased(ph) == [present |-> FALSE, ids |-> <<>>, phase |-> ph]
AllPackets ==
  {Listed(<<i1>>), Listed(<<i1, i1>>), Listed(<<"x">>),
   [present |-> TRUE, ids |-> <<>>, phase |-> i1], Phased(p1), Phased("x")}

\* The board never stops; an instance of another component may come to the
\* end of its bounds.
Stopped == part # "board" /\ UNCHANGED partVars

-----------------------------------------------------------------------------
(* The instances. *)

Gate == INSTANCE ReviewGate WITH
    Entries <- GateEntries, Rows <- GateRows, Lanes <- {la, lb, lc},
    FamilyOf <- FamilyOf, HeldTasks <- {h1}, ReviewTasks <- {r1}, Notes <- {},
    Cmds <- {1}, Docs <- Variants(Direct) \cup Variants(Attestation),
    MaxVersion <- 2, MaxDecisions <- 0, MaxFaults <- 0, entry <- gateEntry

Race == INSTANCE ReviewGate WITH
    Entries <- {HeldRow("standard", lb, "complete")},
    Rows <- {ReviewRow(lb, None, None)}, Lanes <- {la, lb, lc},
    FamilyOf <- FamilyOf, HeldTasks <- {h1}, ReviewTasks <- {r1, r2},
    Notes <- {}, Cmds <- {1, 2}, Docs <- {}, MaxVersion <- 1,
    MaxDecisions <- 0, MaxFaults <- 0, entry <- gateEntry

Promotion == INSTANCE ReviewGate WITH
    Entries <- {HeldRow("standard", lb, "complete")},
    Rows <- {ReviewRow(lb, h1, None)}, Lanes <- {la, lb, lc},
    FamilyOf <- FamilyOf, HeldTasks <- {h1, h2}, ReviewTasks <- {r1},
    Notes <- {n1, n2}, Cmds <- {1}, Docs <- {}, MaxVersion <- 1,
    MaxDecisions <- 2, MaxFaults <- 1, entry <- gateEntry

Pool == INSTANCE DeliveryProofs WITH
    Tasks <- {t1, t2}, DispatchedAt <- (t1 :> 1 @@ t2 :> 2), LeaseTime <- 1,
    MaxResponses <- 2, Workers <- {w1}, Pooled <- {t1, t2}, Pinned <- {},
    Targets <- {None}, Pins <- {None}, Bundles <- {FALSE},
    Manifests <- {"absent"}, MaxTime <- 2, MaxEpoch <- 1, MaxLease <- 2,
    MaxDrift <- 0

Lane == INSTANCE DeliveryProofs WITH
    Tasks <- {t1, t2}, DispatchedAt <- (t1 :> 1 @@ t2 :> 2), LeaseTime <- 1,
    MaxResponses <- 2, Workers <- {}, Pooled <- {}, Pinned <- {t1},
    Targets <- {None, hTarget}, Pins <- {"card", None}, Bundles <- {TRUE, FALSE},
    Manifests <- {"absent"}, MaxTime <- 1, MaxEpoch <- 1, MaxLease <- 1,
    MaxDrift <- 1

Marking == INSTANCE PlanItem WITH
    Bare <- {p1}, MaxCandidates <- 1, Tasks <- {t1}, Items <- {i1},
    Packets <- AllPackets, Families <- {openai, anthropic},
    AuthorOf <- [t \in {t1} |-> openai], MaxCommits <- 2, MaxRuns <- 2,
    entry <- itemEntry, lock <- itemLock

Migration == INSTANCE CoordinationMigration WITH
    Tasks <- {t1, t2, t3}, Declared <- {t3}, MaxAppends <- 1, MaxEdits <- 1,
    MaxFaults <- 2, reg <- migrationReg, queue <- migrationQueue,
    lock <- migrationLock, plan <- migrationPlan, faults <- migrationFaults

PartInit ==
  \/ part = "board" /\ BoardInit /\ IdleGate /\ IdleDelivery /\ IdleItem /\
        IdleMigration
  \/ part = "gate" /\ Gate!Init /\ BoardInit /\ IdleDelivery /\ IdleItem /\
        IdleMigration
  \/ part = "race" /\ Race!Init /\ BoardInit /\ IdleDelivery /\ IdleItem /\
        IdleMigration
  \/ part = "promotion" /\ Promotion!Init /\ BoardInit /\ IdleDelivery /\
        IdleItem /\ IdleMigration
  \/ part = "pool" /\ Pool!DeliveryInit /\ BoardInit /\ IdleGate /\ IdleItem /\
        IdleMigration
  \/ part = "lane" /\ Lane!DeliveryInit /\ BoardInit /\ IdleGate /\ IdleItem /\
        IdleMigration
  \/ part = "items" /\ Marking!Init /\ BoardInit /\ IdleGate /\
        IdleDelivery /\ IdleMigration
  \/ part = "migration" /\ Migration!Init /\ BoardInit /\ IdleGate /\
        IdleDelivery /\ IdleItem

PartNext ==
  \/ part = "board" /\ BoardNext /\ UNCHANGED <<part, gateVars, deliveryVars,
        itemVars, migrationVars>>
  \/ part = "gate" /\ Gate!Next /\ UNCHANGED <<part, vars, deliveryVars,
        itemVars, migrationVars>>
  \/ part = "race" /\ Race!Next /\ UNCHANGED <<part, vars, deliveryVars,
        itemVars, migrationVars>>
  \/ part = "promotion" /\ Promotion!Next /\ UNCHANGED <<part, vars,
        deliveryVars, itemVars, migrationVars>>
  \/ part = "pool" /\ Pool!DeliveryNext /\ UNCHANGED <<part, vars, gateVars, itemVars,
        migrationVars>>
  \/ part = "lane" /\ Lane!DeliveryNext /\ UNCHANGED <<part, vars, gateVars, itemVars,
        migrationVars>>
  \/ part = "items" /\ Marking!Next /\ UNCHANGED <<part, vars, gateVars,
        deliveryVars, migrationVars>>
  \/ part = "migration" /\ Migration!Next /\ UNCHANGED <<part, vars, gateVars,
        deliveryVars, itemVars>>
  \/ Stopped

PartSpec == PartInit /\ [][PartNext]_partVars
\* The sweep runs again and again (Board); in the other instances no row is
\* registered with it.
FairPartSpec == PartSpec /\ SweepFairness

\* What the components assume of their constants.
ASSUME InstanceAssumption ==
  /\ Pool!DeliveryAssumption
  /\ Lane!DeliveryAssumption
  /\ Marking!PlanItemAssumption

-----------------------------------------------------------------------------
(* Properties. *)

\* A held task is settled only by the review the controller dispatched for
\* it; an unforced settlement carries an approval by another family; the
\* bytes that settle are the ones attested or reviewed; archiving the review
\* packet meanwhile hides no provenance (settle_review, its three validators,
\* _packet_review_target). A row settles once whoever asks, and promotion
\* moves only notes the task used and that nobody else has decided on since
\* (promote_cited_notes).
ReviewIsGenuine ==
  /\ [](part = "gate" =>
           /\ Gate!SettledByDispatchedReview
           /\ Gate!UnforcedIsApproved
           /\ Gate!AttestedBytesSettle
           /\ Gate!ReviewedBytesSettle)
  /\ [](part = "race" => Race!GateTypeOK /\ Race!ProvenanceSurvivesArchive)
  /\ [][part = "race" => Race!SettlesOnce]_partVars
  /\ [](part = "promotion" => Promotion!PromotionEarned)
  /\ [][part = "promotion" => Promotion!DecisionsStand]_partVars

\* A pooled worker never has two tasks in progress and only the answer of the
\* present fence settles its task (claim_task, worker_response_issue); in an
\* unpooled lane no task starts past an earlier one that waits, a response
\* that asserts another capability card never passes, and a retried
\* registration takes nothing back (_delivery_head, capability_pin_echo,
\* register_task).
AttemptIsCurrent ==
  /\ [](part = "pool" =>
           /\ Pool!DeliveryTypeOK
           /\ Pool!OneTaskPerWorker
           /\ Pool!CurrentFenceSettles)
  /\ [](part = "lane" => Lane!NoOvertaking /\ Lane!PinnedAttemptSettles)
  /\ [][part = "lane" => Lane!RetryKeepsReceipts]_partVars

\* A plan item is in the plan or in the history through every crash, is done
\* only on a landed commit and a cross-family approval, is closed only by a
\* packet that names it, and its record is never rewritten (move_item,
\* decide, resolve_packet_plan_item_ids). The coordination migration changes
\* an entry only as its printed plan showed it, a crash leaves the plan
\* valid, the rollback stays possible and restores what was there, and lines
\* appended meanwhile survive.
PlansSurvive ==
  /\ [](part = "items" =>
           /\ Marking!ItemIsKept
           /\ Marking!DoneIsEarned
           /\ Marking!OnlyNamedClose)
  /\ [][part = "items" => Marking!RecordIsStable]_partVars
  /\ [](part = "migration" =>
           /\ Migration!MigrationTypeOK
           /\ Migration!CrashKeepsPlan
           /\ Migration!MigratesWhatWasShown
           /\ Migration!RollbackStaysPossible
           /\ Migration!AppendsSurvive)
  /\ [][part = "migration" => Migration!RollbackRestores]_partVars
=============================================================================
