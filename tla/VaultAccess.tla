---------------------------- MODULE VaultAccess ----------------------------
(***************************************************************************)
(* Who may read and write what in the vault: the apertures and clearances  *)
(* of src/plugins/chrono-vault/clearance.py, enforced by the tools of      *)
(* mcp_server.py on recall.py, lifecycle.py and notes.py, and the audit    *)
(* event each call leaves (audit.py).  Engagements run concurrently over   *)
(* the same notes, whose status the controller changes between their       *)
(* calls; the store may be missing, stale or unreachable at any of them.   *)
(* How the store itself is kept is the module Vault; one call is atomic    *)
(* here.                                                                   *)
(***************************************************************************)
EXTENDS Naturals, FiniteSets

CONSTANTS
    Lanes,      \* engagements and controller processes
    Eng,        \* what each is bound to: aperture, mode, focus, clearance
    NoteIds, Targets,
    None,       \* absence
    Filters,    \* the filters recall is called with
    Created,    \* creation times an unbound process may write
    WriteTypes, \* types of the notes written
    NewStatuses,\* statuses the controller sets
    Faults,     \* what may become of the store
    HasKey,     \* the lanes hold a key of the Obsidian REST service
    MaxClock

Statuses == {"candidate", "verified", "superseded", "invalidated", "archived"}
Types == {"attempt", "finding", "learning"}
Apertures == {"rich", "focused", "default", "cold", "pool_blind", "none"}

NoteType == [type : Types, status : Statuses, sens : {"internal", "restricted"},
             target : Targets \cup {None}, created : Nat, by : Lanes,
             cites : NoteIds \cup {None}]

AccessAssumption ==
    /\ \A l \in Lanes : /\ Eng[l].aperture \in Apertures \cup {"unbound"}
                        /\ Eng[l].clearance \in {"internal", "restricted"}
                        /\ (Eng[l].aperture = "focused") <=> (Eng[l].focus # None)
                        /\ Eng[l].focus \in Targets \cup {None}
                        /\ Eng[l].aperture # "unbound" =>
                              Eng[l].mode \in {"project", "bounty", "modeless"}
    /\ WriteTypes \subseteq Types /\ NewStatuses \subseteq Statuses
    /\ Faults \subseteq {"root", "missing", "stale", "weights", "generation",
                        "search", "path", "returns"}
    /\ \A f \in Filters : f.before \in Nat \cup {None}
    /\ MaxClock \in Nat /\ Created \subseteq Nat
    /\ None \notin Nat /\ None \notin NoteType /\ None \notin {"query", "filter", "syntax"}

VARIABLES
    clock,
    start,      \* the engagement start of each lane, or None
    notes,      \* the notes, by identifier
    indexed,    \* the notes the index holds
    store,      \* "ok" or what recall would find wrong
    event       \* the last audit event, with what its call returned

accessVars == <<clock, start, notes, indexed, store, event>>

----------------------------------------------------------------------------
(* The policy table and the checks. *)

\* memory_policies: the rows of memory-apertures.tsv.
Policy(a) ==
    [read |-> a \in {"rich", "default", "focused"},
     record |-> a # "none",
     browse |-> a \in {"rich", "default"},
     statuses |-> IF a = "focused" THEN {"verified"} ELSE {"candidate", "verified"},
     types |-> IF a = "focused" THEN {"finding", "learning"} ELSE Types,
     cutoff |-> a = "focused"]

\* memory_context: a process without a context keeps the legacy behaviour.
Bound(l) == Eng[l].aperture # "unbound"
Row(l) == Policy(Eng[l].aperture)

\* require_memory_operation.
MayRead(l) == Bound(l) => Row(l).read
MayRecord(l) == Bound(l) => Row(l).record
MayBrowse(l) == Bound(l) => Row(l).browse

\* can_read, require_note_within_clearance.
CanRead(s, c) == s = "internal" \/ c = "restricted"

Exists(n) == notes[n] # None

\* require_note_visible.
Visible(l, n) ==
    /\ MayRead(l) /\ CanRead(notes[n].sens, Eng[l].clearance)
    /\ Bound(l) => /\ notes[n].status \in Row(l).statuses
                   /\ notes[n].type \in Row(l).types
                   /\ Eng[l].focus # None => notes[n].target = Eng[l].focus
                   /\ Row(l).cutoff => notes[n].created < start[l]

\* apply_record_policy: modeless takes the strictest floor of the typed modes.
WriteFloor(m) == IF m \in {"bounty", "modeless"} THEN "restricted" ELSE "internal"

\* apply_record_policy refuses the fields.
RecordRefused(l, status, target) ==
    \/ ~MayRecord(l)
    \/ Bound(l) /\ status # "candidate"
    \/ Bound(l) /\ Eng[l].focus # None /\ target \notin {None, Eng[l].focus}

\* apply_record_policy: the sensitivity and the target of the note.
WriteSens(l, s) == IF Bound(l) /\ WriteFloor(Eng[l].mode) = "restricted"
                   THEN "restricted" ELSE s
WriteTarget(l, t) == IF Bound(l) /\ Eng[l].focus # None THEN Eng[l].focus ELSE t

\* notes._normalize: an attempt or a finding names its target.
Schema(type, target) == type = "learning" \/ target # None

----------------------------------------------------------------------------
(* Audit. *)

RootOK == store # "root"

(* audit.emit: one event per call, whatever becomes of the call.  What the *)
(* call returned and the state of the store are kept with it.              *)
Emit(l, op, result, returned) ==
    event' = [lane |-> l, op |-> op, result |-> result, returned |-> returned,
              store |-> store]

\* The call returns to its caller; the next one starts after.
Return ==
    /\ event # None /\ event' = None
    /\ UNCHANGED <<clock, start, notes, indexed, store>>

Running(l) == ~Bound(l) \/ start[l] # None

----------------------------------------------------------------------------
(* The tools. *)

\* The controller starts an engagement; the context carries the time.
Engage(l) ==
    /\ Bound(l) /\ start[l] = None
    /\ start' = [start EXCEPT ![l] = clock]
    /\ UNCHANGED <<clock, notes, indexed, store, event>>

Tick ==
    /\ clock < MaxClock /\ clock' = clock + 1
    /\ UNCHANGED <<start, notes, indexed, store, event>>

(* notes.record: the note is written when the policy, the schema and the   *)
(* root allow; its entry in the index is best effort.                      *)
Write(l, n, type, status, sens, target, created, cites) ==
    /\ ~Exists(n)
    /\ LET written == /\ ~RecordRefused(l, status, target) /\ RootOK
                      /\ Schema(type, WriteTarget(l, target))
       IN /\ notes' = IF ~written THEN notes ELSE
               [notes EXCEPT ![n] =
                   [type |-> type, status |-> status,
                    sens |-> WriteSens(l, sens), target |-> WriteTarget(l, target),
                    created |-> IF Bound(l) THEN clock ELSE created,
                    by |-> l, cites |-> cites]]
          /\ \/ indexed' = IF written THEN indexed \cup {n} ELSE indexed
             \/ written /\ indexed' = indexed
          /\ Emit(l, "record",
                  IF RecordRefused(l, status, target) THEN "denied"
                  ELSE IF ~Schema(type, WriteTarget(l, target)) THEN "rejected"
                  ELSE IF ~RootOK THEN "unavailable"
                  ELSE IF n \in indexed' THEN "recorded" ELSE "recorded_unindexed", {})
    /\ UNCHANGED <<clock, start, store>>

\* record, record_attempt.
Record(l, n) ==
    /\ Running(l)
    /\ \E type \in WriteTypes, status \in {"candidate", "verified"},
          sens \in {"internal", "restricted"}, target \in Targets \cup {None},
          created \in Created :
        /\ Bound(l) => created = CHOOSE c \in Created : TRUE
        /\ Write(l, n, type, status, sens, target, created, None)

\* record_finding: what it takes from an attempt it may read.
Inherited(l, a) ==
    IF a # None /\ Exists(a) /\ Visible(l, a) /\ notes[a].type = "attempt"
    THEN [cites |-> a, target |-> notes[a].target, sens |-> notes[a].sens]
    ELSE [cites |-> None, target |-> None, sens |-> "internal"]

RecordFinding(l, n) ==
    /\ Running(l)
    /\ \E a \in NoteIds, target \in Targets \cup {None} :
        LET from == Inherited(l, a)
            tgt == IF target # None THEN target ELSE from.target
        IN /\ tgt # None           \* otherwise ValueError, before any call
           /\ Write(l, n, "finding", "candidate", from.sens, tgt, clock, from.cites)

\* get_note.
GetNote(l, n) ==
    /\ Running(l) /\ RootOK /\ Exists(n)
    /\ IF Visible(l, n) THEN Emit(l, "get_note", "read", {n})
                        ELSE Emit(l, "get_note", "denied", {})
    /\ UNCHANGED <<clock, start, notes, indexed, store>>

\* Mutant: the caller's cutoff replaces the engagement's.
CutoffCaller(l, f) == IF f.before # None THEN f.before
                      ELSE IF Bound(l) /\ Row(l).cutoff THEN start[l] ELSE None

\* _recall: the earlier of the engagement's cutoff and the caller's.
Cutoff(l, f) ==
    IF ~(Bound(l) /\ Row(l).cutoff) THEN f.before
    ELSE IF f.before # None /\ f.before < start[l] THEN f.before ELSE start[l]

\* _recall: the statuses searched.
Searched(l, f) == IF Bound(l) THEN f.statuses \cap Row(l).statuses ELSE f.statuses

\* _narrow_sensitivities: a ceiling only removes.
Sensitivities(l, f) == {s \in {"internal", "restricted"} :
    /\ CanRead(s, Eng[l].clearance)
    /\ f.ceiling = None \/ s = "internal" \/ s = f.ceiling}

\* _recall: constraints the filters cannot meet.
Unmet(l, f) ==
    \/ Bound(l) /\ f.type # None /\ f.type \notin Row(l).types
    \/ Bound(l) /\ Eng[l].focus # None /\ f.target \notin {None, Eng[l].focus}
    \/ Searched(l, f) = {} \/ Sensitivities(l, f) = {}

\* _recall: the WHERE clause.
Eligible(l, f) == {n \in indexed :
    /\ notes[n].status \in Searched(l, f)
    /\ notes[n].sens \in Sensitivities(l, f)
    /\ Bound(l) => notes[n].type \in Row(l).types
    /\ f.type # None => notes[n].type = f.type
    /\ LET t == IF Bound(l) /\ Eng[l].focus # None THEN Eng[l].focus ELSE f.target
       IN t # None => notes[n].target = t
    /\ LET c == Cutoff(l, f) IN c # None => notes[n].created < c}

\* _read_index and _recall: what the index is refused for.
IndexError == store \in {"stale", "weights", "generation"}

\* _recall: the search of an index that opened fails.
SearchError == store = "search"

\* _note_link, _record_returns: a match lies outside the vault, or the rows of
\* what is returned cannot be written.
MatchError == store \in {"path", "returns"}

(* recall, _recall: the result code, in the order of the checks.  A query  *)
(* is refused before the store is looked at, or by the search itself.      *)
Outcome(l, f, matches) ==
    IF ~MayRead(l) THEN "denied"
    ELSE IF f.bad = "query" THEN "query_error"
    ELSE IF f.bad = "filter" THEN "unavailable"
    ELSE IF Unmet(l, f) THEN "filtered"
    ELSE IF ~RootOK THEN "unavailable"
    ELSE IF store = "missing" THEN "empty_store"
    ELSE IF IndexError THEN "unavailable"
    ELSE IF f.bad = "syntax" THEN "query_error"
    ELSE IF SearchError \/ (MatchError /\ matches # {}) THEN "unavailable"
    ELSE IF matches # {} THEN "matched" ELSE "no_match"

Recall(l) ==
    /\ Running(l)
    /\ \E f \in Filters, some \in BOOLEAN :   \* the text matches all or none
        LET matches == IF some THEN Eligible(l, f) ELSE {}
            result == Outcome(l, f, matches)
        IN Emit(l, "recall", result, IF result = "matched" THEN matches ELSE {})
    /\ UNCHANGED <<clock, start, notes, indexed, store>>

\* set_status: controller only; the index follows in the same transaction.
SetStatus(l, n) ==
    /\ ~Bound(l) /\ RootOK /\ Exists(n)
    /\ \E s \in NewStatuses \ {notes[n].status} :
        /\ notes' = [notes EXCEPT ![n].status = s]
        /\ Emit(l, "set_status", "transitioned", {})
    /\ UNCHANGED <<clock, start, indexed, store>>

\* set_status by a bound engagement.
SetStatusRefused(l, n) ==
    /\ Bound(l) /\ Running(l) /\ RootOK /\ Exists(n)
    /\ Emit(l, "set_status", "denied", {})
    /\ UNCHANGED <<clock, start, notes, indexed, store>>

\* vault_get, vault_list, vault_search: the aperture alone is checked.
Browse(l) ==
    /\ Running(l) /\ HasKey /\ MayBrowse(l)
    /\ Emit(l, "browse", "read", {n \in NoteIds : Exists(n)})
    /\ UNCHANGED <<clock, start, notes, indexed, store>>

\* The store is damaged, upgraded, moved; then synced or rebuilt.
StoreFault ==
    /\ store = "ok"
    /\ store' \in Faults
    /\ UNCHANGED <<clock, start, notes, indexed, event>>

StoreRepair ==
    /\ store' = "ok" /\ indexed' = {n \in NoteIds : Exists(n)}
    /\ <<store', indexed'>> # <<store, indexed>>
    /\ UNCHANGED <<clock, start, notes, event>>

\* health, _index_health: recall_ready.
RecallReady == store \notin {"root", "missing"} /\ ~IndexError

AccessInit ==
    /\ clock = 0 /\ start = [l \in Lanes |-> None]
    /\ notes = [n \in NoteIds |-> None] /\ indexed = {}
    /\ store = "ok" /\ event = None

Call(l) ==
    \/ Recall(l) \/ Browse(l)
    \/ \E n \in NoteIds : \/ Record(l, n) \/ RecordFinding(l, n) \/ GetNote(l, n)
                          \/ SetStatus(l, n) \/ SetStatusRefused(l, n)

AccessNext ==
    \/ Return
    \/ /\ event = None
       /\ \/ Tick \/ StoreFault \/ StoreRepair
          \/ \E l \in Lanes : Engage(l) \/ Call(l)

AccessSpec == AccessInit /\ [][AccessNext]_accessVars

----------------------------------------------------------------------------
(* Properties. *)

\* Type invariant: only notes that exist are indexed or returned.
AccessTypeOK ==
    /\ clock \in 0..MaxClock /\ start \in [Lanes -> 0..clock \cup {None}]
    /\ notes \in [NoteIds -> NoteType \cup {None}]
    /\ store \in Faults \cup {"ok"}
    /\ indexed \subseteq {n \in NoteIds : Exists(n)}
    /\ event # None => event.returned \subseteq {n \in NoteIds : Exists(n)}

Read == event # None /\ event.op \in {"recall", "get_note"}

(* What a bounty or a modeless engagement writes, whatever label it asks   *)
(* for and whoever changes the note's status later, recall and get_note    *)
(* return to no process of internal clearance (apply_record_policy's       *)
(* floor, can_read).                                                       *)
BountyStaysRestricted ==
    Read => \A n \in event.returned :
        (Bound(notes[n].by) /\ Eng[notes[n].by].mode # "project")
            => Eng[event.lane].clearance = "restricted"

(* A focused engagement is only ever returned knowledge of its own target  *)
(* that existed before it started: not what it or a concurrent engagement  *)
(* wrote since, even once that was verified, and through no tool.          *)
FocusedReadsThePast ==
    (event # None /\ Eng[event.lane].aperture = "focused") =>
        \A n \in event.returned :
            /\ notes[n].target = Eng[event.lane].focus
            /\ notes[n].created < start[event.lane]
            /\ notes[n].type # "attempt" /\ notes[n].status = "verified"

(* A finding is at least as restricted as the attempt it cites             *)
(* (record_finding inherits the label when it may read the attempt).       *)
FindingKeepsLabel ==
    \A n \in NoteIds : (Exists(n) /\ notes[n].cites # None) =>
        (notes[notes[n].cites].sens = "restricted" => notes[n].sens = "restricted")

(* audit.py's reason to exist: "no_match" is only said of an index that    *)
(* was searched, so unreachable memory never reads as no memory; and a     *)
(* match is only reported once it was recorded.                            *)
NoMatchMeansSearched ==
    (event # None /\ event.op = "recall") =>
        /\ event.result = "no_match" => event.store \in {"ok", "path", "returns"}
        /\ event.result = "matched" => event.store = "ok"

(* health's recall_ready against a recall that gets as far as the store    *)
(* (_index_health): a store it calls unready answers no recall, and one it *)
(* calls ready fails a recall only through what health does not look at:   *)
(* the search itself, the path of a match, the recording of what is        *)
(* returned.                                                               *)
HealthTruthful ==
    (event # None /\ event.op = "recall"
        /\ event.result \notin {"denied", "query_error", "filtered"}) =>
        /\ event.result \in {"matched", "no_match"} => RecallReady
        /\ (RecallReady /\ event.result \notin {"matched", "no_match"})
               => SearchError \/ MatchError

=============================================================================
