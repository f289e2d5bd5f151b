---------------------------------- MODULE MCVault ----------------------------------
(***************************************************************************)
(* The memory vault, one instance in each behaviour: two processes that    *)
(* move three notes through their lifecycle, or that index, recall and     *)
(* judge two; engagements of different apertures beside the controller; the*)
(* broker with several connections; and capture processes over two         *)
(* responses.                                                              *)
(***************************************************************************)
EXTENDS Naturals, Sequences, TLC

CONSTANTS Absence, n1, n2, n3, p1, p2, q1, q2, r1, r2

VARIABLE memoryPart  \* the instance this behaviour is of

\* Vault
VARIABLES file, db, lock, job, flags, vaultBlind, used
vaultVars == <<file, db, lock, job, flags, vaultBlind, used>>
IdleVault == file = "idle" /\ db = "idle" /\ lock = "idle" /\ job = "idle" /\
    flags = "idle" /\ vaultBlind = "idle" /\ used = "idle"

\* VaultAccess
VARIABLES clock, start, notes, indexed, store, event
accessVars == <<clock, start, notes, indexed, store, event>>
IdleAccess == clock = "idle" /\ start = "idle" /\ notes = "idle" /\
    indexed = "idle" /\ store = "idle" /\ event = "idle"

\* VaultBroker
VARIABLES sup, backend, thread, serving, listening, stop, failure, complaints,
          client, backlog, bridged, launched, faults
brokerVars == <<sup, backend, thread, serving, listening, stop, failure,
                complaints, client, backlog, bridged, launched, faults>>
IdleBroker == sup = "idle" /\ backend = "idle" /\ thread = "idle" /\
    serving = "idle" /\ listening = "idle" /\ stop = "idle" /\
    failure = "idle" /\ complaints = "idle" /\ client = "idle" /\ backlog = "idle" /\
    bridged = "idle" /\ launched = "idle" /\ faults = "idle"

\* Autocapture
VARIABLES files, packets, records, spool, today, captureNotes, broken,
          vaultUp, captureLock, captureJob, outcome, sent, captureFaults
captureVars == <<files, packets, records, spool, today, captureNotes, broken,
                 vaultUp, captureLock, captureJob, outcome, sent,
                 captureFaults>>
IdleCapture == files = "idle" /\ packets = "idle" /\ records = "idle" /\
    spool = "idle" /\ today = "idle" /\ captureNotes = "idle" /\
    broken = "idle" /\ vaultUp = "idle" /\ captureLock = "idle" /\
    captureJob = "idle" /\ outcome = "idle" /\ sent = "idle" /\
    captureFaults = "idle"

memoryVars == <<memoryPart, vaultVars, accessVars, brokerVars, captureVars>>

\* Who connects to the broker: a relay and its retry, a local process that
\* sends another line, and one that sends nothing.
ClientKind == [c \in {"r1", "r2", "s1", "q1"} |->
    CASE c = "s1" -> "stray" [] c = "q1" -> "silent" [] OTHER -> "relay"]
RelayKind == [c \in {"r1", "r2", "s1"} |-> IF c = "s1" THEN "stray" ELSE "relay"]

Engagement(a, m, f, c) == [aperture |-> a, mode |-> m, focus |-> f, clearance |-> c]

\* Labels: who writes restricted notes, and who might read them.
LabelLanes == [l \in {"ctl", "bounty", "free", "proj"} |->
    CASE l = "ctl" -> Engagement("unbound", Absence, Absence, "restricted")
      [] l = "bounty" -> Engagement("cold", "bounty", Absence, "restricted")
      [] l = "free" -> Engagement("default", "modeless", Absence, "restricted")
      [] l = "proj" -> Engagement("rich", "project", Absence, "internal")]
\* Focus: a focused engagement next to writers about the same target.
FocusLanes == [l \in {"ctl", "focus", "none"} |->
    CASE l = "ctl" -> Engagement("unbound", Absence, Absence, "internal")
      [] l = "focus" -> Engagement("focused", "project", "t1", "internal")
      [] l = "none" -> Engagement("none", "project", Absence, "internal")]

Filter(st, ty, tg, be, ce, bad) == [statuses |-> st, type |-> ty, target |-> tg,
    before |-> be, ceiling |-> ce, bad |-> bad]
Active == {"candidate", "verified"}
AnyStatus == Active \cup {"superseded", "archived", "invalidated"}
LabelFilters == {Filter(Active, Absence, Absence, Absence, Absence, Absence),
                 Filter(AnyStatus, Absence, Absence, Absence, "restricted", Absence)}
FocusFilters == {Filter(Active, Absence, Absence, Absence, Absence, Absence),
                 Filter(AnyStatus, Absence, "t1", 2, "internal", Absence),
                 Filter({"archived"}, "attempt", Absence, 0, Absence, Absence),
                 Filter(Active, Absence, Absence, Absence, Absence, "query"),
                 Filter(Active, Absence, Absence, Absence, Absence, "syntax")}

-----------------------------------------------------------------------------
(* The instances. *)

\* What authors of notes declare: nothing, a replacement of their own (a note
\* that was never there, too) with or without the status for it, a predecessor.
Header(st, by, over) == [status |-> st, by |-> by, sup |-> over]
PlainHeaders == {Header("candidate", "none", {}), Header("verified", "none", {})}
LifecycleHeaders ==
  {Header("verified", "none", {}), Header("superseded", "none", {}),
   Header("archived", "gone", {})}
  \cup UNION {{Header("verified", n, {}), Header("superseded", n, {}),
               Header("verified", "none", {n})} : n \in {n1, n2}}

Lifecycle == INSTANCE Vault WITH
    blind <- vaultBlind, Headers <- LifecycleHeaders, MaxUnread <- 0,
    Notes <- {n1, n2, n3}, Seeded <- {n1, n2}, Procs <- {p1, p2},
    Recalls <- {q1}, Kinds <- {"record", "status"}, MaxOps <- 3,
    MaxFaults <- 1, MaxCrashes <- 1

Index == INSTANCE Vault WITH
    blind <- vaultBlind, Headers <- PlainHeaders, MaxUnread <- 1,
    Notes <- {n1, n2}, Seeded <- {}, Procs <- {p1, p2}, Recalls <- {q1, q2},
    Kinds <- {"record", "usage", "recall", "sync", "rebuild"}, MaxOps <- 4,
    MaxFaults <- 2, MaxCrashes <- 1

\* What processes bring to the vault, its broker and its capture; an instance
\* of VaultProofs says where it differs.
Lanes == {"ctl", "focus", "none"}
Eng == FocusLanes
NoteIds == {n1, n2}
Targets == {"t1"}
Filters == FocusFilters
Created == {0, 1}
WriteTypes == {"finding"}
NewStatuses == {"verified"}
Faults == {}
HasKey == TRUE
MaxClock == 2
Clients == {"r1", "r2", "s1", "q1"}
Kind == ClientKind
Aperture == "default"
MaxFaults == 1
Procs == {p1, p2}
Responses == {r1, r2}
Valid == Responses
Named == {r1}
Bounty == {r1}
Says == [r \in Responses |-> IF r = r1 THEN "internal" ELSE "bounty"]
Security == {}
Thin == {}
OptIn == FALSE
Due == {r1}
Offset == [r \in Responses |-> 1]
MaxRows == 6
ReaderRows == 3
Days == 1
MaxOutages == 0
MaxFailures == 1
MaxCrashes == 0
MaxTears == 0
Prunable == {}
MaxDamage == 1

\* A focused engagement; the broker of a worker that may read; two processes
\* that capture and replay.
Usual == INSTANCE VaultProofs WITH
    None <- Absence, lock <- captureLock, job <- captureJob

\* Engagements that write labelled notes; the broker of a worker that may not
\* read; one process that captures a restricted response through an outage.
Restricted == INSTANCE VaultProofs WITH
    None <- Absence, lock <- captureLock, job <- captureJob,
    Lanes <- {"ctl", "bounty", "free", "proj"}, Eng <- LabelLanes,
    Filters <- LabelFilters, Created <- {0}, WriteTypes <- {"attempt", "finding"},
    MaxClock <- 0,
    Clients <- {"r1", "r2", "s1"}, Kind <- RelayKind, Aperture <- "none",
    Procs <- {p1}, Named <- {r2}, Bounty <- {r2}, Thin <- {r1}, Due <- {r2},
    Says <- [r \in Responses |-> "none"], MaxRows <- 3, ReaderRows <- 5, Days <- 2,
    MaxOutages <- 1, MaxFailures <- 0, MaxCrashes <- 1, MaxTears <- 1,
    Prunable <- {"packet"}, MaxDamage <- 0

\* A store that goes missing, stale or unreadable.
Store == INSTANCE VaultProofs WITH
    None <- Absence, lock <- captureLock, job <- captureJob,
    NoteIds <- {n1}, Targets <- {"t1", "t2"}, WriteTypes <- {"attempt", "finding"},
    NewStatuses <- {"verified", "archived"},
    Faults <- {"root", "missing", "stale", "weights", "generation", "search", "path",
               "returns"},
    MaxClock <- 1

MemoryInit ==
  \/ memoryPart = "lifecycle" /\ Lifecycle!Init /\ IdleAccess /\ IdleBroker /\
        IdleCapture
  \/ memoryPart = "index" /\ Index!Init /\ IdleAccess /\ IdleBroker /\ IdleCapture
  \/ memoryPart = "labels" /\ Restricted!AccessInit /\ IdleVault /\ IdleBroker /\ IdleCapture
  \/ memoryPart = "focus" /\ Usual!AccessInit /\ IdleVault /\ IdleBroker /\ IdleCapture
  \/ memoryPart = "store" /\ Store!AccessInit /\ IdleVault /\ IdleBroker /\ IdleCapture
  \/ memoryPart = "broker" /\ Usual!Init /\ IdleVault /\ IdleAccess /\ IdleCapture
  \/ memoryPart = "denied" /\ Restricted!Init /\ IdleVault /\ IdleAccess /\ IdleCapture
  \/ memoryPart = "replay" /\ Usual!CaptureInit /\ IdleVault /\ IdleAccess /\ IdleBroker
  \/ memoryPart = "faults" /\ Restricted!CaptureInit /\ IdleVault /\ IdleAccess /\ IdleBroker

MemoryNext ==
  \/ memoryPart = "lifecycle" /\ Lifecycle!Next /\ UNCHANGED <<memoryPart, accessVars,
        brokerVars, captureVars>>
  \/ memoryPart = "index" /\ Index!Next /\ UNCHANGED <<memoryPart, accessVars, brokerVars,
        captureVars>>
  \/ memoryPart = "labels" /\ Restricted!AccessNext /\ UNCHANGED <<memoryPart, vaultVars,
        brokerVars, captureVars>>
  \/ memoryPart = "focus" /\ Usual!AccessNext /\ UNCHANGED <<memoryPart, vaultVars, brokerVars,
        captureVars>>
  \/ memoryPart = "store" /\ Store!AccessNext /\ UNCHANGED <<memoryPart, vaultVars, brokerVars,
        captureVars>>
  \/ memoryPart = "broker" /\ Usual!Next /\ UNCHANGED <<memoryPart, vaultVars,
        accessVars, captureVars>>
  \/ memoryPart = "denied" /\ Restricted!Next /\ UNCHANGED <<memoryPart, vaultVars,
        accessVars, captureVars>>
  \/ memoryPart = "replay" /\ Usual!CaptureNext /\ UNCHANGED <<memoryPart, vaultVars,
        accessVars, brokerVars>>
  \/ memoryPart = "faults" /\ Restricted!CaptureNext /\ UNCHANGED <<memoryPart, vaultVars,
        accessVars, brokerVars>>

MemorySpec == MemoryInit /\ [][MemoryNext]_memoryVars

\* What the components assume of their constants.
ASSUME MemoryAssumption ==
  /\ Lifecycle!VaultAssumption
  /\ Index!VaultAssumption
  /\ Restricted!AccessAssumption
  /\ Usual!AccessAssumption
  /\ Store!AccessAssumption
  /\ Usual!BrokerAssumption
  /\ Restricted!BrokerAssumption
  /\ Usual!AutocaptureAssumption
  /\ Restricted!AutocaptureAssumption

\* No instance tells n1 from n2, or p1 from p2.
MemorySymmetric == Permutations({n1, n2}) \cup Permutations({p1, p2})

-----------------------------------------------------------------------------
(* Properties. *)

\* A status changes only on the status its writer saw, supersession is
\* acyclic and its pointers are mirrored; a recall flags a note for curation
\* once, usage feedback is never dropped, and an index generation names one
\* content (set_status, record_usage, the index sync).
VaultKeepsHistory ==
  /\ [](memoryPart = "lifecycle" =>
           /\ Lifecycle!VaultTypeOK
           /\ Lifecycle!TransitionsInformed
           /\ Lifecycle!SupersessionAcyclic
           /\ Lifecycle!PointerMatchesStatus
           /\ Lifecycle!PointersMirrored)
  /\ [](memoryPart = "index" => Index!FlaggedOnce)
  /\ [][memoryPart = "index" =>
           /\ Index!FeedbackKept
           /\ Index!GenerationNamesContent]_memoryVars

\* What a bounty or a modeless engagement writes is returned to no process of
\* internal clearance and a finding is as restricted as the attempt it cites
\* (apply_record_policy, record_finding); a focused engagement is only
\* returned verified knowledge of its target from before it started;
\* "no_match" is said only of an index that was searched, a store recall_ready
\* is false of answers no recall, and one it is true of fails a recall only
\* where health does not look.
AccessIsHonest ==
  /\ memoryPart = "labels" =>
        /\ Restricted!AccessTypeOK
        /\ Restricted!BountyStaysRestricted
        /\ Restricted!FindingKeepsLabel
  /\ memoryPart = "focus" => Usual!FocusedReadsThePast
  /\ memoryPart = "store" =>
        /\ Store!FocusedReadsThePast
        /\ Store!NoMatchMeansSearched
        /\ Store!HealthTruthful

\* The broker bridges at most one session, leaves nothing running when it is
\* closed, fails only for a cause and bridges nothing under the aperture
\* "none", whatever connects, stalls or dies meanwhile (broker.py).
BrokerServesOnce ==
  /\ memoryPart = "broker" =>
        /\ Usual!BrokerTypeOK
        /\ Usual!OneSession
        /\ Usual!CloseLeavesNothing
        /\ Usual!FailureHasCause
  /\ memoryPart = "denied" =>
        /\ Restricted!OneSession
        /\ Restricted!CloseLeavesNothing
        /\ Restricted!NoneIsADenial

\* A response is one note however often it is captured, spooled and replayed;
\* the spool stays bounded, no response worth keeping is lost by a crash or
\* an outage, only knowledge is noted, and a restricted response stays
\* restricted (autocapture.py).
CaptureKeepsFindings ==
  /\ memoryPart = "replay" =>
        /\ Usual!AutocaptureTypeOK
        /\ Usual!OneNotePerKey
        /\ Usual!SpoolRowsBounded
        /\ Usual!RestrictedStaysLocal
  /\ memoryPart = "faults" =>
        /\ Restricted!OneNotePerKey
        /\ Restricted!NothingLost
        /\ Restricted!NotesAreKnowledge
        /\ Restricted!RestrictedStaysLocal
=============================================================================
