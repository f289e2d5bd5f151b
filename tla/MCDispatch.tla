-------------------------------- MODULE MCDispatch --------------------------------
(***************************************************************************)
(* A dispatch from admission to landing, one instance in each behaviour:   *)
(* two dispatchers of the same task through the admission gates; attempts  *)
(* that share the host; a contract handed from reader to reader; outputs   *)
(* published by attempts of one or two tasks; the verifier of a project or *)
(* a bounty close over files that change while it runs; and attempts in    *)
(* their worktrees beside the operator.                                    *)
(***************************************************************************)
EXTENDS Naturals, Sequences, TLC

CONSTANTS None, d1, d2, h1, h2, h3, h4, a1, a2, t1, t2, new, old, Operator,
          Board, Link, Big, f, g, o, srcDir, v, w, bad

VARIABLE part  \* the instance this behaviour is of

\* Admission
VARIABLES admitPc, draft, entry, pre, placed, inbox, archive, reg, readable,
          fields, told, sha, ap, role, pinned, open, brief, blind, saw, packetEdits,
          world, cleanups
admissionVars == <<admitPc, draft, entry, pre, placed, inbox, archive, reg,
                   readable, fields, told, sha, ap, role, pinned, open, brief,
                   blind, saw, packetEdits, world, cleanups>>
IdleAdmission == admitPc = "idle" /\ draft = "idle" /\ entry = "idle" /\
    pre = "idle" /\ placed = "idle" /\ inbox = "idle" /\ archive = "idle" /\
    reg = "idle" /\ readable = "idle" /\ fields = "idle" /\ told = "idle" /\
    sha = "idle" /\ ap = "idle" /\ role = "idle" /\ pinned = "idle" /\
    open = "idle" /\ brief = "idle" /\ blind = "idle" /\ saw = "idle" /\
    packetEdits = "idle" /\ world = "idle" /\ cleanups = "idle"

\* HostAdmission
VARIABLES hostPc, waited, live, first, host, desc, receipt, proc, packet,
          bound, kills, hostEdits
hostVars == <<hostPc, waited, live, first, host, desc, receipt, proc, packet,
              bound, kills, hostEdits>>
IdleHost == hostPc = "idle" /\ waited = "idle" /\ live = "idle" /\
    first = "idle" /\ host = "idle" /\ desc = "idle" /\ receipt = "idle" /\
    proc = "idle" /\ packet = "idle" /\ bound = "idle" /\ kills = "idle" /\
    hostEdits = "idle"

\* VerificationContract
VARIABLES adm, pin, held, contractEdits
contractVars == <<adm, pin, held, contractEdits>>
IdleContract == adm = "idle" /\ pin = "idle" /\ held = "idle" /\
    contractEdits = "idle"

\* OutputPromotion
VARIABLES tree, stray, cand, main, prep, outputPc, at, report, why,
          leftovers, foreign
outputVars == <<tree, stray, cand, main, prep, outputPc, at, report, why,
                leftovers, foreign>>
IdleOutput == tree = "idle" /\ stray = "idle" /\ cand = "idle" /\
    main = "idle" /\ prep = "idle" /\ outputPc = "idle" /\ at = "idle" /\
    report = "idle" /\ why = "idle" /\ leftovers = "idle" /\
    foreign = "idle"

\* ModeExit
VARIABLES disk, man, intact, exitWorld, row, copies, ver, exitReport, exitSeen
exitVars == <<disk, man, intact, exitWorld, row, copies, ver, exitReport,
              exitSeen>>
IdleExit == disk = "idle" /\ man = "idle" /\ intact = "idle" /\
    exitWorld = "idle" /\ row = "idle" /\ copies = "idle" /\ ver = "idle" /\
    exitReport = "idle" /\ exitSeen = "idle"

\* Worktrees
VARIABLES commits, target, landing, branch, wt, dirty, away, promoted, ctl,
          spent
treeVars == <<commits, target, landing, branch, wt, dirty, away, promoted,
              ctl, spent>>
IdleTree == commits = "idle" /\ target = "idle" /\ landing = "idle" /\
    branch = "idle" /\ wt = "idle" /\ dirty = "idle" /\ away = "idle" /\
    promoted = "idle" /\ ctl = "idle" /\ spent = "idle"

vars == <<part, admissionVars, hostVars, contractVars, outputVars, exitVars,
          treeVars>>

(* Admission: the packets. *)

\* A packet like p with the fields of x.
With(p, x) == x @@ p
Contract(t, kind, req) == [id |-> t, kind |-> kind, required |-> req]
Plain == [id |-> "t", scope |-> {"a"}, art |-> "a", owed |-> FALSE,
          contract |-> Contract("t", "work", FALSE), names |-> {}, ap |-> "default",
          focus |-> FALSE, canary |-> FALSE, autoclean |-> FALSE, defects |-> {}]

\* The same task dispatched again with other words: another scope, review or text.
Wider == With(Plain, [scope |-> {"a", "b"}])
Unwritten == With(Plain, [scope |-> {}])
Reviewed == With(Plain, [owed |-> TRUE, contract |-> Contract("t", "work", TRUE)])
Downgraded == With(Plain, [owed |-> TRUE])
Quiet == With(Reviewed, [contract |-> Contract("t", "work", FALSE), owed |-> FALSE])
Review == With(Unwritten, [owed |-> TRUE, contract |-> Contract("t", "review", FALSE)])
WritingReview == With(Review, [scope |-> {"a"}])
TwoDrafts == d1 :> {Plain, Reviewed} @@ d2 :> {Wider, Review}

\* Packets that one gate or the other turns away.
Turned == {With(Plain, [defects |-> {x}]) :
              x \in {"override", "role", "alias", "ignored", "oversize"}}
            \cup {With(Plain, [art |-> "c"]), With(Plain, [autoclean |-> TRUE]),
                  With(Plain, [focus |-> TRUE]), Downgraded, WritingReview}
GateDrafts == d1 :> Turned \cup {Plain} @@ d2 :> {Plain}

\* Memory apertures against blind dossiers.
Aimed(a) == With(Unwritten, [names |-> {"s"}, ap |-> a, focus |-> (a = "focused")])
BlindDrafts ==
  d1 :> {Aimed(a) : a \in {"rich", "focused", "default", "cold", "pool_blind", "none"}}
          \cup {With(Unwritten, [names |-> {"s"}, focus |-> TRUE])}

\* An inventory canary, dispatched again while the first is cleaned up.
Canary == With(Plain, [canary |-> TRUE, autoclean |-> TRUE])
CanaryDrafts ==
  d1 :> {Canary}
  @@ d2 :> {Canary, With(Canary, [ap |-> "cold"]), With(Canary, [autoclean |-> FALSE])}

(* Host admission: three attempts of one family and one of another. *)
FamilyOf == h1 :> "openai" @@ h2 :> "openai" @@ h3 :> "openai" @@ h4 :> "xai"

(* Output promotion: both tasks return the same artifact path. *)
ResultShared == t1 :> "report" @@ t2 :> "report"
OutboxOf == t1 :> "outbox1" @@ t2 :> "outbox2"
EvidenceShared == t1 :> <<"manifest">> @@ t2 :> <<"manifest">>
EvidenceOne == t1 :> <<"log">> @@ t2 :> <<>>
\* The standard packet: the response is its own return artifact.
ResultAliased == t1 :> "outbox1" @@ t2 :> "report"

(* The verification contract: admissions of every mode and result, with    *)
(* the gaps their evidence and their lists may have, and edits of fields.  *)
GoodEvidence == [subject |-> "sha", author |-> "claude", reviewer |-> "openai",
                 state |-> "approved", mutated |-> "false"]
NoEvidence == [x \in DOMAIN GoodEvidence |-> "absent"]
Evidence ==
  {NoEvidence, GoodEvidence}
    \cup {[GoodEvidence EXCEPT !.author = x] : x \in {"openai", "bad"}}
    \cup {[GoodEvidence EXCEPT !.reviewer = x] : x \in {"claude", "absent"}}
    \cup {[GoodEvidence EXCEPT !.mutated = x] : x \in {"true", "null"}}
    \cup {[GoodEvidence EXCEPT !.state = x] : x \in {"complete", "bad"}}
    \cup {[GoodEvidence EXCEPT !.subject = "bad"]}
NoCard == [id |-> "absent", state |-> "absent", gates |-> <<>>]
Cards == {NoCard} \cup {[id |-> "card", state |-> x, gates |-> y] :
                          x \in {"live", "bad"}, y \in {<<>>, <<2>>}}
Lists == {None, <<>>, <<1>>, <<2, 1>>, <<1, 1>>, <<0>>, <<1, 2, 3>>}
Request == [ids |-> TRUE, mode |-> "project", result |-> "normal", kind |-> "single",
            lane |-> "codex", capability |-> NoCard, gates |-> <<>>, deletes |-> None,
            evidence |-> NoEvidence, review_required |-> "absent", reserved |-> FALSE]
Admissions ==
  {[Request EXCEPT !.mode = m, !.result = r, !.lane = l, !.evidence = e,
                   !.review_required = q] :
     m \in {"project", "bounty", "modeless", "content"},
     r \in {"absent", "normal", "dry_run", "review", "chat"},
     l \in {"claude", "codex"}, e \in Evidence, q \in {"absent", "true", "false"}}
  \cup {[Request EXCEPT !.mode = m, !.capability = c, !.gates = y, !.deletes = x] :
          m \in {"project", "bounty", "modeless"}, c \in Cards,
          y \in {<<>>, <<1>>, <<1, 1>>}, x \in Lists}
  \cup {[Request EXCEPT !.reserved = TRUE], [Request EXCEPT !.ids = FALSE],
        [Request EXCEPT !.kind = "batch"], [Request EXCEPT !.kind = "absent"],
        [Request EXCEPT !.lane = "other"]}
Values ==
  "mode" :> {"project", "bounty", "modeless", "content"}
  @@ "result" :> {"normal", "dry_run", "review", "chat"}
  @@ "family" :> {"claude", "openai", "bad"}
  @@ "kinds" :> {<<"project_tests", "recipient_contract">>, <<"project_tests">>}
  @@ "recall" :> {"required", "optional"} @@ "plan" :> {"legacy", "settled", "bad"}
  @@ "deliverable" :> {"true", "false", "null"} @@ "delivery" :> {"allowed"}
  @@ "bounty" :> {"v1", "absent"} @@ "fixed" :> {"bad"} @@ "version" :> {"v2"}
  @@ "gates" :> Lists \ {None} @@ "deletes" :> Lists @@ "evidence" :> Evidence
  @@ "capability" :> {NoCard, [NoCard EXCEPT !.id = "card"]}

(* Mode exit: a project close with one gate, and a bounty close with and   *)
(* without a finding.                                                      *)
ProjectKinds == {"project_tests", "recipient_contract"}
BountyKinds == {"scope_gate", "no_self_inflicted_kind", "poc_reproduction"}
AppRoot == <<"app">>
ExitTargets == {AppRoot, <<"app", "login">>, <<"application">>}
Finding == [author |-> "openai", reproducer |-> "claude", same_run |-> FALSE,
            reproduced |-> TRUE, artifact |-> 1, subject |-> 1, scored |-> TRUE,
            target |-> AppRoot]
Findings == {{}, {Finding}, {[Finding EXCEPT !.target = <<"application">>]}}
ProjectRemade == {"project_tests", "receipt"}
BountyMissing == {"negative_results", "negative_control"}
BountyRemade == BountyMissing \cup {"poc_reproduction"}
BountyDeclared == "submitted" :> BOOLEAN @@ "restricted" :> BOOLEAN
ExitWorld ==
  "manifest" :> {"torn"} @@ "approval" :> {"malformed", "approve"}
  @@ "citations" :> {"missing"} @@ "tests" :> {"rejected"}
  @@ "base" :> {"unresolved", "bad"} @@ "dirty" :> {TRUE}
ExitDeclared == "ops" :> {"flagged", "command"} @@ "phased" :> {0}
                @@ "local" :> {FALSE}

(* Worktrees: f is a file of the base, in directory srcDir; g another of *)
(* it, generated or tracked; o a mailbox output, ignored.                   *)
InDir(paths) == [p \in paths |-> IF p \in {f, g} THEN {srcDir} ELSE {}]
Contents(base, paths) == [p \in paths |-> IF p \in base THEN v ELSE None]
OwnFile == a1 :> {f} @@ a2 :> {g}
\* A restricted content leaks; two changes may pass alone and fail together.
Leaking(t) == \E p \in DOMAIN t : t[p] = bad
Together(t) == ~(\A p \in DOMAIN t : t[p] = w)
Fine(t) == TRUE

-----------------------------------------------------------------------------
(* The instances. *)

\* The constants of a dispatch up to the publication of its outputs; an instance
\* below overrides those of its own settings, one for each component. Admission,
\* the host, the contract and publication share no state.
Dispatchers == {d1, d2}
Drafts == TwoDrafts
Edits == {Quiet}
MaxPacketEdits == 1
MaxWorld == 1
MaxCleanups == 0
Dossiers == {}
NoPacket == None
FamilyTarget == 2
Weather == {"fits", "tight"}
Budget == 0
MaxEdits == 0
MaxKills == 1
ContractLanes == <<"claude", "gpt-codex", "codex">>
Family == "claude" :> "claude" @@ "gpt-codex" :> "openai" @@ "codex" :> "openai"
Text == STRING
MaxDeletes == 2
MaxRewrites == 1
Nothing == None
Attempts == {h1, h2, h3, h4}
Launches == {a1, a2}
TaskOf == a1 :> t1 @@ a2 :> t1
ResultOf == ResultShared
EvidenceOf == EvidenceOne
Manifest == "manifest"
Closing == {}
GoodManifests == {}
CodeScoped == {}
StrayLanes == {}
Versions == {1, 2}
Claims == {"complete"}
Broken == FALSE
BaseDiag == {}
Diags == {}
MaxLeftovers == 0
MaxForeign == 0
NoOutput == None

\* Two dispatchers of one task; the host; the contract; two tasks that close
\* their runs with the same manifest.
Entry == INSTANCE DispatchProofs WITH
    Targets <- Dossiers, Lanes <- ContractLanes,
    TaskOf <- a1 :> t1 @@ a2 :> t2, EvidenceOf <- EvidenceShared,
    Closing <- {t1, t2}, GoodManifests <- {2},
    phase <- hostPc, edits <- hostEdits, pc <- admitPc

\* Packets that a gate turns away, beside one that passes; a retry over what
\* the first attempt left in its worktree.
GateKeeping == INSTANCE DispatchProofs WITH
    Targets <- Dossiers, Lanes <- ContractLanes,
    Drafts <- GateDrafts, Edits <- {}, MaxWorld <- 0, MaxLeftovers <- 1,
    phase <- hostPc, edits <- hostEdits, pc <- admitPc

\* Briefs and dossiers that turn blind; a response that is its own return
\* artifact, beside another writer of the repository.
Blind == INSTANCE DispatchProofs WITH
    Targets <- {"s"}, Lanes <- ContractLanes,
    Dispatchers <- {d1}, Drafts <- BlindDrafts, Edits <- {},
    MaxPacketEdits <- 0, MaxWorld <- 2,
    ResultOf <- ResultAliased, MaxForeign <- 1,
    phase <- hostPc, edits <- hostEdits, pc <- admitPc

\* A canary that is cleaned up; a task that changes code on a base whose own
\* diagnostics fail, whatever its worker claims.
Cleanup == INSTANCE DispatchProofs WITH
    Targets <- Dossiers, Lanes <- ContractLanes,
    Drafts <- CanaryDrafts, Edits <- {}, MaxPacketEdits <- 0, MaxCleanups <- 2,
    Launches <- {a1}, TaskOf <- a1 :> t1, EvidenceOf <- EvidenceShared,
    CodeScoped <- {t1}, StrayLanes <- {t1}, Versions <- {1},
    Claims <- {"complete", "needs_review", "needs_human", "blocked", "odd"},
    Broken <- TRUE, BaseDiag <- {old}, Diags <- {old, new},
    phase <- hostPc, edits <- hostEdits, pc <- admitPc

Bytes == INSTANCE ModeExit WITH
    Modes <- {"project"}, ResultType <- "normal", Contracts <- {"c1"},
    Author <- "openai", Families <- {"openai", "claude"},
    Kinds <- ProjectKinds, Cited <- ProjectKinds, Gates <- {"gate"}, Targets <- ExitTargets,
    Allowed <- {AppRoot}, Findings <- {{}}, Remade <- ProjectRemade,
    Missing <- {}, WorldValues <- <<>>, Declared <- <<>>, Faults <- {"bytes"},
    MaxVersion <- 2, MaxRuns <- 1, MaxTouches <- 0, MaxChanges <- 0, world <- exitWorld,
    report <- exitReport,
    seen <- exitSeen

Packet == INSTANCE ModeExit WITH
    Modes <- {"project", "content"}, ResultType <- "normal",
    Contracts <- {"c1", "c2"}, Author <- "openai",
    Families <- {"openai", "claude"}, Kinds <- ProjectKinds,
    Cited <- ProjectKinds, Gates <- {"gate"}, Targets <- ExitTargets, Allowed <- {AppRoot},
    Findings <- {{}}, Remade <- {}, Missing <- {}, WorldValues <- <<>>,
    Declared <- <<>>, Faults <- {"packet"}, MaxVersion <- 1, MaxRuns <- 1,
    MaxTouches <- 0, MaxChanges <- 0, world <- exitWorld, report <- exitReport,
    seen <- exitSeen

BountyClose == INSTANCE ModeExit WITH
    Modes <- {"bounty"}, ResultType <- "normal", Contracts <- {"c1"},
    Author <- "openai", Families <- {"openai", "claude"},
    Kinds <- BountyKinds, Cited <- {"negative_control"}, Gates <- {}, Targets <- ExitTargets,
    Allowed <- {AppRoot}, Findings <- Findings, Remade <- BountyRemade,
    Missing <- BountyMissing, WorldValues <- <<>>, Declared <- BountyDeclared,
    Faults <- {"log"}, MaxVersion <- 2, MaxRuns <- 1, MaxTouches <- 1, MaxChanges <- 0,
    world <- exitWorld, report <- exitReport,
    seen <- exitSeen

World == INSTANCE ModeExit WITH
    Modes <- {"project"}, ResultType <- "normal", Contracts <- {"c1"},
    Author <- "openai", Families <- {"openai", "claude"},
    Kinds <- ProjectKinds, Cited <- ProjectKinds, Gates <- {"gate"}, Targets <- ExitTargets,
    Allowed <- {AppRoot}, Findings <- {{}}, Remade <- {}, Missing <- {},
    WorldValues <- ExitWorld, Declared <- ExitDeclared, Faults <- {"world"},
    MaxVersion <- 1, MaxRuns <- 1, MaxTouches <- 0, MaxChanges <- 3, world <- exitWorld,
    report <- exitReport,
    seen <- exitSeen

Single == INSTANCE Worktrees WITH
    Attempts <- {a1}, Paths <- {f, o}, Parents <- InDir({f, o}),
    Scope <- [a \in {a1} |-> {srcDir}], Outputs <- [a \in {a1} |-> {o}],
    Deletes <- [a \in {a1} |-> {f}], External <- {}, Ignored <- {o},
    Structural <- {}, Autoload <- {}, Values <- {v, bad},
    BaseTree <- Contents({f}, {f, o}), Leaks <- Leaking, Passes <- Fine,
    MaxFiles <- 1, MaxWork <- 3, MaxOps <- 1, MaxFaults <- 1, MaxCommits <- 4

Launder == INSTANCE Worktrees WITH
    Attempts <- {a1}, Paths <- {f}, Parents <- InDir({f}),
    Scope <- [a \in {a1} |-> {srcDir}], Outputs <- [a \in {a1} |-> {}],
    Deletes <- [a \in {a1} |-> {f}], External <- {}, Ignored <- {},
    Structural <- {}, Autoload <- {}, Values <- {v},
    BaseTree <- Contents({f}, {f}), Leaks <- Leaking, Passes <- Fine,
    MaxFiles <- 1, MaxWork <- 4, MaxOps <- 0, MaxFaults <- 0, MaxCommits <- 4

Pair == INSTANCE Worktrees WITH
    Attempts <- {a1, a2}, Paths <- {f, g}, Parents <- InDir({f, g}),
    Scope <- OwnFile, Outputs <- [a \in {a1, a2} |-> {}],
    Deletes <- [a \in {a1, a2} |-> {}], External <- {}, Ignored <- {},
    Structural <- {}, Autoload <- {}, Values <- {v, w},
    BaseTree <- Contents({f, g}, {f, g}), Leaks <- Leaking, Passes <- Together,
    MaxFiles <- 1, MaxWork <- 2, MaxOps <- 0, MaxFaults <- 0, MaxCommits <- 4

Race == INSTANCE Worktrees WITH
    Attempts <- {a1}, Paths <- {f, g}, Parents <- InDir({f, g}),
    Scope <- OwnFile, Outputs <- [a \in {a1} |-> {}],
    Deletes <- [a \in {a1} |-> {}], External <- {}, Ignored <- {},
    Structural <- {}, Autoload <- {}, Values <- {v, w},
    BaseTree <- Contents({f, g}, {f, g}), Leaks <- Leaking, Passes <- Fine,
    MaxFiles <- 1, MaxWork <- 1, MaxOps <- 3, MaxFaults <- 0, MaxCommits <- 7

Release == INSTANCE Worktrees WITH
    Attempts <- {a1}, Paths <- {f, g, o}, Parents <- InDir({f, g, o}),
    Scope <- [a \in {a1} |-> {srcDir}], Outputs <- [a \in {a1} |-> {o}],
    Deletes <- [a \in {a1} |-> {f}], External <- {}, Ignored <- {g, o},
    Structural <- {}, Autoload <- {}, Values <- {v},
    BaseTree <- Contents({f}, {f, g, o}), Leaks <- Leaking, Passes <- Fine,
    MaxFiles <- 1, MaxWork <- 2, MaxOps <- 1, MaxFaults <- 1, MaxCommits <- 4

Beyond == INSTANCE Worktrees WITH
    Attempts <- {a1}, Paths <- {f, o}, Parents <- InDir({f, o}),
    Scope <- OwnFile, Outputs <- [a \in {a1} |-> {o}],
    Deletes <- [a \in {a1} |-> {f}], External <- {a1}, Ignored <- {o},
    Structural <- {}, Autoload <- {}, Values <- {v, w},
    BaseTree <- Contents({f}, {f, o}), Leaks <- Leaking, Passes <- Fine,
    MaxFiles <- 1, MaxWork <- 2, MaxOps <- 1, MaxFaults <- 1, MaxCommits <- 4

Init ==
  \/ part = "two" /\ Entry!AdmitInit /\ IdleHost /\ IdleContract /\ IdleOutput /\
        IdleExit /\ IdleTree
  \/ part = "gates" /\ GateKeeping!AdmitInit /\ IdleHost /\ IdleContract /\
        IdleOutput /\ IdleExit /\ IdleTree
  \/ part = "blind" /\ Blind!AdmitInit /\ IdleHost /\ IdleContract /\ IdleOutput /\
        IdleExit /\ IdleTree
  \/ part = "canary" /\ Cleanup!AdmitInit /\ IdleHost /\ IdleContract /\
        IdleOutput /\ IdleExit /\ IdleTree
  \/ part = "host" /\ Entry!HostInit /\ IdleAdmission /\ IdleContract /\
        IdleOutput /\ IdleExit /\ IdleTree
  \/ part = "contract" /\ Entry!ContractInit /\ IdleAdmission /\ IdleHost /\
        IdleOutput /\ IdleExit /\ IdleTree
  \/ part = "close" /\ Entry!OutputInit /\ IdleAdmission /\ IdleHost /\
        IdleContract /\ IdleExit /\ IdleTree
  \/ part = "judge" /\ Cleanup!OutputInit /\ IdleAdmission /\ IdleHost /\
        IdleContract /\ IdleExit /\ IdleTree
  \/ part = "retry" /\ GateKeeping!OutputInit /\ IdleAdmission /\ IdleHost /\
        IdleContract /\ IdleExit /\ IdleTree
  \/ part = "aliased" /\ Blind!OutputInit /\ IdleAdmission /\ IdleHost /\
        IdleContract /\ IdleExit /\ IdleTree
  \/ part = "bytes" /\ Bytes!Init /\ IdleAdmission /\ IdleHost /\
        IdleContract /\ IdleOutput /\ IdleTree
  \/ part = "packet" /\ Packet!Init /\ IdleAdmission /\ IdleHost /\
        IdleContract /\ IdleOutput /\ IdleTree
  \/ part = "bounty" /\ BountyClose!Init /\ IdleAdmission /\ IdleHost /\
        IdleContract /\ IdleOutput /\ IdleTree
  \/ part = "world" /\ World!Init /\ IdleAdmission /\ IdleHost /\
        IdleContract /\ IdleOutput /\ IdleTree
  \/ part = "single" /\ Single!Init /\ IdleAdmission /\ IdleHost /\
        IdleContract /\ IdleOutput /\ IdleExit
  \/ part = "launder" /\ Launder!Init /\ IdleAdmission /\ IdleHost /\
        IdleContract /\ IdleOutput /\ IdleExit
  \/ part = "pair" /\ Pair!Init /\ IdleAdmission /\ IdleHost /\
        IdleContract /\ IdleOutput /\ IdleExit
  \/ part = "race" /\ Race!Init /\ IdleAdmission /\ IdleHost /\
        IdleContract /\ IdleOutput /\ IdleExit
  \/ part = "release" /\ Release!Init /\ IdleAdmission /\ IdleHost /\
        IdleContract /\ IdleOutput /\ IdleExit
  \/ part = "external" /\ Beyond!Init /\ IdleAdmission /\ IdleHost /\
        IdleContract /\ IdleOutput /\ IdleExit

Next ==
  \/ part = "two" /\ Entry!AdmitNext /\ UNCHANGED <<part, hostVars, contractVars,
        outputVars, exitVars, treeVars>>
  \/ part = "gates" /\ GateKeeping!AdmitNext /\ UNCHANGED <<part, hostVars,
        contractVars, outputVars, exitVars, treeVars>>
  \/ part = "blind" /\ Blind!AdmitNext /\ UNCHANGED <<part, hostVars, contractVars,
        outputVars, exitVars, treeVars>>
  \/ part = "canary" /\ Cleanup!AdmitNext /\ UNCHANGED <<part, hostVars,
        contractVars, outputVars, exitVars, treeVars>>
  \/ part = "host" /\ Entry!HostNext /\ UNCHANGED <<part, admissionVars,
        contractVars, outputVars, exitVars, treeVars>>
  \/ part = "contract" /\ Entry!ContractNext /\ UNCHANGED <<part, admissionVars,
        hostVars, outputVars, exitVars, treeVars>>
  \/ part = "close" /\ Entry!OutputNext /\ UNCHANGED <<part, admissionVars,
        hostVars, contractVars, exitVars, treeVars>>
  \/ part = "judge" /\ Cleanup!OutputNext /\ UNCHANGED <<part, admissionVars,
        hostVars, contractVars, exitVars, treeVars>>
  \/ part = "retry" /\ GateKeeping!OutputNext /\ UNCHANGED <<part, admissionVars,
        hostVars, contractVars, exitVars, treeVars>>
  \/ part = "aliased" /\ Blind!OutputNext /\ UNCHANGED <<part, admissionVars,
        hostVars, contractVars, exitVars, treeVars>>
  \/ part = "bytes" /\ Bytes!Next /\ UNCHANGED <<part, admissionVars,
        hostVars, contractVars, outputVars, treeVars>>
  \/ part = "packet" /\ Packet!Next /\ UNCHANGED <<part, admissionVars,
        hostVars, contractVars, outputVars, treeVars>>
  \/ part = "bounty" /\ BountyClose!Next /\ UNCHANGED <<part, admissionVars,
        hostVars, contractVars, outputVars, treeVars>>
  \/ part = "world" /\ World!Next /\ UNCHANGED <<part, admissionVars,
        hostVars, contractVars, outputVars, treeVars>>
  \/ part = "single" /\ Single!Next /\ UNCHANGED <<part, admissionVars,
        hostVars, contractVars, outputVars, exitVars>>
  \/ part = "launder" /\ Launder!Next /\ UNCHANGED <<part, admissionVars,
        hostVars, contractVars, outputVars, exitVars>>
  \/ part = "pair" /\ Pair!Next /\ UNCHANGED <<part, admissionVars, hostVars,
        contractVars, outputVars, exitVars>>
  \/ part = "race" /\ Race!Next /\ UNCHANGED <<part, admissionVars, hostVars,
        contractVars, outputVars, exitVars>>
  \/ part = "release" /\ Release!Next /\ UNCHANGED <<part, admissionVars,
        hostVars, contractVars, outputVars, exitVars>>
  \/ part = "external" /\ Beyond!Next /\ UNCHANGED <<part, admissionVars,
        hostVars, contractVars, outputVars, exitVars>>

Spec == Init /\ [][Next]_vars

\* What the components assume of their constants.
ASSUME InstanceAssumption ==
  /\ Entry!AdmissionAssumption
  /\ GateKeeping!AdmissionAssumption
  /\ Blind!AdmissionAssumption
  /\ Cleanup!AdmissionAssumption
  /\ Entry!HostAssumption
  /\ Entry!ContractAssumption
  /\ Entry!PromotionAssumption
  /\ Entry!OutboxIsOwn
  /\ Cleanup!PromotionAssumption
  /\ GateKeeping!PromotionAssumption
  /\ GateKeeping!OutboxIsOwn
  /\ Blind!PromotionAssumption
  /\ Bytes!ModeExitAssumption
  /\ Packet!ModeExitAssumption
  /\ BountyClose!ModeExitAssumption
  /\ World!ModeExitAssumption

\* No instance tells the three attempts of one family apart.
Symmetric == Permutations({h1, h2, h3})

-----------------------------------------------------------------------------
(* Properties. *)

\* What a dispatcher publishes passed preflight, what it launches carries the
\* contract that was admitted, a review that is owed is told to the worker, a
\* row whose attempt has not settled is kept, and a blind dispatch launches
\* blind (dispatch_preflight, send-task.sh). A host runs more of a family
\* than its target only when admissions raced, and its slots count only the
\* living (host_admission).
LaunchWasAdmitted ==
  /\ [](part = "two" =>
           /\ Entry!AdmissionTypeOK
           /\ Entry!PublishedWasAllowed
           /\ Entry!LaunchedContractIsAdmitted
           /\ Entry!ReviewOwedIsTold)
  /\ [](part = "gates" =>
           /\ GateKeeping!PublishedWasAllowed
           /\ GateKeeping!UnsettledKeepsRow
           /\ GateKeeping!ReviewOwedIsTold)
  /\ [](part = "canary" => Cleanup!UnsettledKeepsRow)
  /\ [][part = "blind" => Blind!LaunchesBlind]_vars
  /\ [](part = "host" => Entry!HostTypeOK /\ Entry!OverTargetIsARace)
  /\ [][part = "host" => Entry!CountsOnlyTheLiving]_vars

\* A verification contract means after its round trip through a packet what
\* it meant before, its policy is the one pinned, its terminal review is by
\* another family, what a modeless contract may leave out is narrow, and its
\* authority is canonical (verification_contract.py).
ContractIsPinned ==
  /\ part = "contract" =>
        /\ Entry!RoundTrip
        /\ Entry!PolicyIsPinned
        /\ Entry!TerminalReviewIsIndependent
        /\ Entry!ModelessIsNarrow
        /\ Entry!AuthorityIsCanonical

\* Any verdict short of OPERATOR-SURFACE is about one set of bytes that were
\* on disk while the verifier ran, under a contract the registry pinned at
\* some moment of the run; a hunt that reports nothing passes only with a
\* negative control and kill evidence, and a retry never hides what only the
\* operator may decide (vibecoding_check.py).
VerdictIsGenuine ==
  /\ [](part = "bytes" => Bytes!ModeExitTypeOK)
  /\ [][part = "bytes" => Bytes!VerdictIsBound]_vars
  /\ [][part = "packet" => Packet!VerdictUnderPin]_vars
  /\ [][part = "bounty" => BountyClose!ZeroFindingPays]_vars
  /\ [][part = "world" => World!RetryIsRecoverable]_vars

\* Promotion overwrites nothing but the task's own stub (_atomic_publish); a
\* completion was claimed by the worker and its health judged on the
\* candidate, not the base; while an envelope lies in the outbox everything
\* it commits is in the repository, a closed run has a manifest that
\* verifies, and a refusal after publication began means another writer came
\* later (publish_prepared_worktree_outputs).
PublicationIsWhole ==
  /\ [](part = "close" => Entry!ClosedRunIsVerified)
  /\ [][part = "close" => Entry!NoClobber]_vars
  /\ [][part = "aliased" => Blind!NoClobber]_vars
  /\ [](part = "judge" => Cleanup!PromotionTypeOK)
  /\ [][part = "judge" =>
           /\ Cleanup!CompletionIsClaimed
           /\ Cleanup!HealthJudgesCandidate]_vars
  /\ [](part = "retry" => GateKeeping!LateRefusalIsARace /\ GateKeeping!EnvelopeCommitsAll)

\* Every commit of a landed history was audited and the head that lands is
\* the validated one; the target only grows, by trees that pass, on a scope
\* as it was known; giving up the race needs the target to move three times;
\* releasing a worktree loses no selected work, and an external base is never
\* touched (worktree_isolation.py).
LandingKeepsWork ==
  /\ [](part = "single" =>
           /\ Single!WorktreesTypeOK
           /\ Single!LandedHistoryAudited)
  /\ [][part = "single" => Single!LandsValidatedHead]_vars
  /\ [](part = "launder" => Launder!LandedHistoryAudited)
  /\ [][part = "pair" => Pair!TargetOnlyGrows /\ Pair!LandedTreePasses]_vars
  /\ [][part = "race" => Race!TargetOnlyGrows /\ Race!LandsOnKnownScope]_vars
  /\ [](part = "race" => Race!RaceNeedsThreeMoves)
  /\ [][part = "release" => Release!ReleaseKeepsWork]_vars
  /\ [](part = "external" => Beyond!LandedHistoryAudited)
  /\ [][part = "external" =>
           /\ Beyond!ReleaseKeepsWork
           /\ Beyond!ExternalBaseUntouched]_vars
=============================================================================
