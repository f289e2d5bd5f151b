------------------------------ MODULE Workboard ------------------------------
(***************************************************************************)
(* The pure part of src/scripts/python/chrono_state/workboard.py: the      *)
(* event vocabulary of the append-only ledger OPEN-WORK.md, the fold that  *)
(* projects the ledger to the open items and the declared focus            *)
(* (project_workboard), the validator, the item census, and the            *)
(* postcondition an appended event has to meet (_event_is_reflected).      *)
(*                                                                         *)
(* A ledger is a sequence of records.  A record is an event or a legacy    *)
(* checklist row; its text (summary and why) and its action are opaque     *)
(* notes.  An opaque work id is a member of WorkIds; an item that is       *)
(* addressed by its alias only has the identity Legacy(alias), as          *)
(* _legacy_work_id computes it.                                            *)
(***************************************************************************)
EXTENDS Integers, FiniteSets, SequencesExt, Functions

CONSTANTS WorkIds,       \* opaque work ids, W-<32 hex>
          Aliases,       \* human aliases
          Notes,         \* summaries and actions
          None

TerminalKinds == {"complete", "archive", "drop"}
OpeningKinds  == {"start", "queue"}
TargetKinds   == {"switch", "advance", "restate", "block", "complete", "archive"}
BoundaryKinds == {"restart", "compact"}
EventKinds    == TerminalKinds \cup OpeningKinds \cup TargetKinds
                   \cup BoundaryKinds \cup {"fold", "adopt", "idle"}

Legacy(a) == <<"legacy", a>>

NoFocus == [to |-> "none", work |-> None, act |-> None]

\* One parsed line.  "row" is a legacy checkbox row: its text is a record that
\* also holds what the parser finds in it, the next action and the IN PROGRESS
\* marker.
Blank == [id |-> None, kind |-> None, work |-> None, alias |-> None,
          text |-> None, act |-> None, focus |-> NoFocus, source |-> None,
          checked |-> FALSE]

IsEvent(r) == r.kind # "row"
Structured(led) == \E i \in DOMAIN led : IsEvent(led[i])

-----------------------------------------------------------------------------
(* The fold. *)

EmptyBoard == [items |-> <<>>, terminal |-> {}, known |-> {}, disposed |-> {},
               rejected |-> <<>>, seen |-> {}, issues |-> {}, idle |-> FALSE,
               waiting |-> None, at |-> 0]

Open(p) == DOMAIN p.items
Issue(p, what) == [p EXCEPT !.issues = @ \cup {<<what, p.at>>}]
Item(r, state, via, at) == [alias |-> r.alias, text |-> r.text, act |-> r.act,
                            state |-> state, via |-> via, at |-> at]
Put(p, w, item) == [p EXCEPT !.items = (w :> item) @@ @]
Close(p, w) == [p EXCEPT !.items = Restrict(@, DOMAIN @ \ {w}),
                         !.terminal = @ \cup {w}]

\* Every other item that holds the focus goes back to the queue.
Demoted(p, w) ==
  [i \in Open(p) |-> IF i # w /\ p.items[i].state \in {"active", "waiting"}
                     THEN [p.items[i] EXCEPT !.state = "queued"] ELSE p.items[i]]

activate(p, w, act) ==
  IF w \notin Open(p) THEN Issue(p, "successor is not open")
  ELSE [p EXCEPT !.items = [Demoted(p, w) EXCEPT ![w].state = "active",
                                                 ![w].act = act, ![w].at = p.at],
                 !.idle = FALSE, !.waiting = None]

\* Mutant: idling drops the waiting item instead of queueing it again.
IdleForgets(p) ==
  [p EXCEPT !.items = Restrict(@, {i \in Open(p) : p.items[i].state # "waiting"}),
            !.idle = TRUE, !.waiting = None]
declare_idle(p) ==
  [p EXCEPT !.items = [i \in Open(p) |->
                         IF p.items[i].state \in {"active", "waiting"}
                         THEN [p.items[i] EXCEPT !.state = "queued", !.at = p.at]
                         ELSE p.items[i]],
            !.idle = TRUE, !.waiting = None]

\* A blocked target keeps its obstruction and its own unblock action.
declare_waiting(p, w, act) ==
  IF w \notin Open(p) THEN Issue(p, "waiting target is not open")
  ELSE LET held == p.items[w].state = "blocked"
       IN [p EXCEPT !.items = [Demoted(p, w) EXCEPT
                                 ![w].state = IF held THEN "blocked" ELSE "waiting",
                                 ![w].act = IF held THEN @ ELSE act,
                                 ![w].at = p.at],
                    !.idle = FALSE, !.waiting = w]

apply_atomic_focus(p, f) ==
  CASE f.to = "successor" -> activate(p, f.work, f.act)
    [] f.to = "idle"      -> declare_idle(p)
    [] f.to = "waiting"   -> declare_waiting(p, f.work, f.act)
    [] OTHER              -> p

\* A start takes the focus from a declared pause, never from an active item.
TakeFocus(p) ==
  LET w == p.waiting
  IN [p EXCEPT !.items = IF w \in Open(p) /\ p.items[w].state = "waiting"
                         THEN [@ EXCEPT ![w].state = "queued"] ELSE @,
               !.idle = FALSE, !.waiting = None]

ProjectRow(p, r) ==
  LET w == Legacy(IF r.alias = None THEN r.text ELSE r.alias)
      q == [p EXCEPT !.known = @ \cup {w}]
  IN IF w \in Open(p) \cup p.terminal THEN Issue(p, "duplicate open item")
     ELSE IF r.checked THEN [q EXCEPT !.terminal = @ \cup {w}]
     ELSE Put(q, w, Item([r EXCEPT !.act = r.text.next],
                         IF r.text.active THEN "active" ELSE "queued", "legacy", p.at))

ProjectOpening(p, r) ==
  LET reused == \/ r.work \in p.known
                \/ r.kind = "queue" /\ r.work \in p.disposed
      item == Item(r, IF r.kind = "start" THEN "active" ELSE "queued", r.kind, p.at)
      q == Put([p EXCEPT !.known = @ \cup {r.work},
                         !.disposed = IF r.kind = "queue" THEN @ \cup {r.work} ELSE @],
               r.work, item)
  IN CASE reused -> [Issue(p, "opening reuses work id")
                       EXCEPT !.rejected = (r.id :> [opening |-> r, at |-> p.at]) @@ @]
       [] ~reused /\ r.kind = "start" -> TakeFocus(q)
       [] OTHER -> q

\* An adopted opening gets a fresh id; its own collision issue is withdrawn.
ProjectAdopt(p, r) ==
  IF r.source \notin DOMAIN p.rejected
  THEN Issue(p, "adopt source is not an unresolved opening collision")
  ELSE LET src == p.rejected[r.source]
           o == src.opening
       IN IF r.alias # o.alias \/ r.work \in p.known \cup p.disposed
          THEN Issue(p, "adopt does not match or reuses work id")
          ELSE LET q == [Put(p, r.work, [Item(o, IF o.kind = "start" THEN "active" ELSE "queued",
                                              "adopt", p.at) EXCEPT !.alias = r.alias])
                          EXCEPT !.known = @ \cup {r.work},
                                 !.disposed = IF o.kind = "queue" THEN @ \cup {r.work} ELSE @,
                                 !.issues = @ \ {<<"opening reuses work id", src.at>>},
                                 !.rejected = Restrict(@, DOMAIN @ \ {r.source})]
               IN IF o.kind = "start" THEN TakeFocus(q) ELSE q

ProjectFold(p, r) ==
  LET request == Legacy(r.alias)
  IN CASE request \in Open(p) \cup p.terminal \cup p.disposed ->
            Issue(p, "fold reuses request id")
       [] request \notin Open(p) \cup p.terminal \cup p.disposed
            /\ (r.work \in Open(p) => p.items[r.work].state # "active") ->
            Issue(p, "fold target is not the active item")
       [] OTHER -> [p EXCEPT !.disposed = @ \cup {request},
                             !.items[r.work].act = r.act, !.items[r.work].at = p.at]

\* A drop closes an open item, or disposes of a request that never became one.
ProjectDrop(p, r) ==
  LET w == r.work
      held == w \in Open(p) /\ (p.items[w].state = "active" \/ p.waiting = w)
      closed == [Close(p, w) EXCEPT !.idle = IF held THEN FALSE ELSE @,
                                    !.waiting = IF held THEN None ELSE @]
      refused == [p EXCEPT !.known = @ \cup {w}, !.disposed = @ \cup {w},
                           !.terminal = @ \cup {w}]
  IN CASE w \in Open(p) -> apply_atomic_focus(closed, r.focus)
       [] w \notin Open(p) /\ w \in p.terminal \cup p.disposed ->
            Issue(p, "drop reuses work id")
       [] OTHER -> apply_atomic_focus(refused, r.focus)

ProjectBlock(p, r) ==
  LET w == r.work
      q == [p EXCEPT !.items[w].state = "blocked", !.items[w].act = r.act,
                     !.items[w].at = p.at]
  IN CASE w \notin Open(p) -> Issue(p, "block target is not open")
       [] w \in Open(p) /\ r.focus.to # "none" -> apply_atomic_focus(q, r.focus)
       [] w \in Open(p) /\ r.focus.to = "none" /\ p.items[w].state = "active" ->
            [q EXCEPT !.idle = FALSE, !.waiting = w]
       [] OTHER -> q

ProjectClose(p, r) ==
  LET w == r.work
      held == p.items[w].state = "active" \/ p.waiting = w
      q == [Close(p, w) EXCEPT !.idle = IF held THEN FALSE ELSE @,
                               !.waiting = IF held THEN None ELSE @]
  IN IF w \notin Open(p) THEN Issue(p, "target is not open")
     ELSE apply_atomic_focus(q, r.focus)

\* advance moves the action of the active item; restate rewrites an open one.
ProjectRewrite(p, r) ==
  LET w == r.work
      open == w \in Open(p)
  IN IF ~open THEN Issue(p, "target is not open")
     ELSE IF r.kind = "advance" /\ p.items[w].state # "active"
     THEN Issue(p, "advance target is not active")
     ELSE [p EXCEPT !.items[w].act = r.act, !.items[w].at = p.at,
                    !.items[w].text = IF r.kind = "restate" THEN r.text ELSE @]

ProjectEvent(p, r) ==
  CASE r.kind \in OpeningKinds             -> ProjectOpening(p, r)
    [] r.kind = "adopt"                    -> ProjectAdopt(p, r)
    [] r.kind = "fold"                     -> ProjectFold(p, r)
    [] r.kind = "drop"                     -> ProjectDrop(p, r)
    [] r.kind = "switch"                   -> activate(p, r.work, r.act)
    [] r.kind \in {"advance", "restate"}   -> ProjectRewrite(p, r)
    [] r.kind = "block"                    -> ProjectBlock(p, r)
    [] r.kind \in {"complete", "archive"}  -> ProjectClose(p, r)
    [] r.kind = "idle"                     -> declare_idle(p)
    [] OTHER                               -> p

ProjectRecord(p0, r) ==
  LET p == [p0 EXCEPT !.at = @ + 1]
  IN IF ~IsEvent(r) THEN ProjectRow(p, r)
     ELSE IF r.id \in p.seen THEN Issue(p, "duplicate event_id")
     ELSE ProjectEvent([p EXCEPT !.seen = @ \cup {r.id}], r)

project_workboard(led) ==
  LET after[i \in 0..Len(led)] ==
        IF i = 0 THEN EmptyBoard ELSE ProjectRecord(after[i - 1], led[i])
  IN after[Len(led)]

Active(p) == {w \in Open(p) : p.items[w].state = "active"}

-----------------------------------------------------------------------------
(* What is checked of a projection, and what is shown of it. *)

\* The focus rules hold of the event spine; a checklist alone is not judged.
FocusIssues(p) ==
  LET n == Cardinality(Active(p))
      paused == p.idle \/ p.waiting # None
      held == {w \in Open(p) : w = p.waiting /\ p.items[w].state \in {"waiting", "blocked"}}
  IN (IF n > 1 \/ (n = 1) = paused THEN {<<"exactly one active item", n>>} ELSE {})
       \cup (IF p.idle /\ p.waiting # None
             THEN {<<"cannot declare both idle and waiting", 0>>} ELSE {})
       \cup (IF p.waiting # None /\ held = {}
             THEN {<<"declared waiting focus must be open", 0>>} ELSE {})
       \cup {<<"terminal item also appears open", w>> : w \in Open(p) \cap p.terminal}
       \cup {<<"open item has no literal resume action", w>> :
               w \in {x \in Open(p) : p.items[x].act = None}}

validate_workboard(led, p) ==
  p.issues \cup (IF Structured(led) THEN FocusIssues(p) ELSE {})

Issues(led) == validate_workboard(led, project_workboard(led))

\* The item that may be named: by its opaque id, or by an alias no other open
\* item shares (_open_work_id_for_alias).
Nameable(p, w) ==
  w \in WorkIds \/ (w \in Open(p) =>
                      \A v \in Open(p) \ {w} : p.items[v].alias # p.items[w].alias)

\* The rows of the resume block: the active item first, then by last change.
Prominent(p) ==
  SetToSortSeq(Open(p), LAMBDA v, w :
    LET a == p.items[v].state = "active"
        b == p.items[w].state = "active"
    IN (a /\ ~b) \/ (a = b /\ p.items[v].at > p.items[w].at))
Shown(p, limit) == LET s == Prominent(p)
                   IN {s[i] : i \in 1..(IF Len(s) < limit THEN Len(s) ELSE limit)}

-----------------------------------------------------------------------------
(* _event_is_reflected: the event did what its kind says. *)

FocusReflected(q, f) ==
  CASE f.to = "successor" -> /\ f.work \in Open(q)
                             /\ q.items[f.work].state = "active"
                             /\ q.items[f.work].at = q.at
    [] f.to = "idle"      -> q.idle /\ Cardinality(Active(q)) # 1
    [] f.to = "waiting"   -> /\ q.waiting = f.work
                             /\ f.work \in Open(q)
                             /\ q.items[f.work].state \in {"waiting", "blocked"}
                             /\ q.items[f.work].at = q.at
    [] OTHER              -> TRUE

Reflected(p, q, r) ==
  /\ r.id \notin p.seen
  /\ CASE r.kind \in BoundaryKinds -> TRUE
       [] r.kind = "idle" -> q.idle /\ q.waiting = None /\ Cardinality(Active(q)) # 1
       [] r.kind = "restate" ->
            /\ r.work \in Open(p) \cap Open(q)
            /\ q.items[r.work] = [p.items[r.work] EXCEPT !.text = r.text, !.act = r.act,
                                                         !.at = q.at]
            /\ Active(q) = Active(p) /\ q.waiting = p.waiting /\ q.idle = p.idle
       [] r.kind \in OpeningKinds \cup {"adopt", "switch", "advance", "fold"} ->
            r.work \in Open(q) /\ q.items[r.work].at = q.at
       [] r.kind = "block" ->
            /\ r.work \in Open(q)
            /\ q.items[r.work].state = "blocked" /\ q.items[r.work].at = q.at
            /\ FocusReflected(q, r.focus)
       [] OTHER ->
            /\ r.kind # "drop" => r.work \in Open(p)
            /\ r.work \notin Open(q) /\ r.work \in q.terminal
            /\ FocusReflected(q, r.focus)

\* append_event's simulation: the candidate adds no issue and is reflected.
Accepted(led, p, r) ==
  LET q == ProjectRecord(p, r)
  IN /\ validate_workboard(Append(led, r), q) \subseteq validate_workboard(led, p)
     /\ Reflected(p, q, r)

-----------------------------------------------------------------------------
(* The census: every item that ever existed, whether it is closed, its text. *)

EmptyCensus == [checked |-> <<>>, text |-> <<>>, rejected |-> <<>>, issues |-> {}, at |-> 0]

CensusRecord(c0, r) ==
  LET c == [c0 EXCEPT !.at = @ + 1]
      w == IF IsEvent(r) THEN r.work ELSE Legacy(r.alias)
      known == w \in DOMAIN c.checked
      Enter(b, k, t, v) == [b EXCEPT !.checked = (k :> v) @@ @, !.text = (k :> t) @@ @]
      Bad(what) == [c EXCEPT !.issues = @ \cup {<<what, c.at>>}]
  IN CASE ~IsEvent(r) /\ r.alias = None -> c
       [] ~IsEvent(r) /\ r.alias # None ->
            IF known THEN Bad("duplicate") ELSE Enter(c, w, r.text, r.checked)
       [] r.kind \in OpeningKinds ->
            IF known THEN [Bad("duplicate")
                             EXCEPT !.rejected = (r.id :> [text |-> r.text, at |-> c.at]) @@ @]
            ELSE Enter(c, w, r.text, FALSE)
       [] r.kind = "adopt" ->
            IF r.source \notin DOMAIN c.rejected \/ known THEN Bad("adopt")
            ELSE LET s == c.rejected[r.source]
                 IN [Enter(c, w, s.text, FALSE)
                       EXCEPT !.issues = @ \ {<<"duplicate", s.at>>},
                              !.rejected = Restrict(@, DOMAIN @ \ {r.source})]
       [] r.kind \in TerminalKinds ->
            IF known THEN [c EXCEPT !.checked[w] = TRUE]
            ELSE IF r.kind = "drop" THEN c ELSE Bad("no census source")
       [] OTHER -> c

item_census(led) ==
  LET after[i \in 0..Len(led)] ==
        IF i = 0 THEN EmptyCensus ELSE CensusRecord(after[i - 1], led[i])
  IN after[Len(led)]

\* Rows without an id are fingerprinted, in the order they stand.
Anonymous(led) ==
  LET rows == SelectSeq(led, LAMBDA r : ~IsEvent(r) /\ r.alias = None)
  IN [i \in DOMAIN rows |-> <<rows[i].text, rows[i].checked>>]

\* compare_item_censuses with its "ok" and "state_preserved" both demanded.
SameCensus(before, after) ==
  LET a == item_census(before)
      b == item_census(after)
  IN /\ a.checked = b.checked
     /\ a.text = b.text
     /\ Anonymous(before) = Anonymous(after)
     /\ a.issues \cup b.issues = {}

-----------------------------------------------------------------------------
(* Compaction: the ledger partitioned into a live ledger and an archive. *)

OpeningAt(led, w) ==
  LET at == {i \in DOMAIN led : led[i].kind \in OpeningKinds /\ led[i].work = w}
  IN IF at = {} THEN 0 ELSE Min(at)

\* What compaction v1 cannot re-emit: adopted or legacy openings, and a
\* declared waiting state.
Compactable(led, p) ==
  /\ Structured(led)
  /\ validate_workboard(led, p) = {}
  /\ \A w \in Open(p) : /\ p.items[w].via \in OpeningKinds
                        /\ p.items[w].state # "waiting"
                        /\ OpeningAt(led, w) # 0

Facts(kind, w, act) == [Blank EXCEPT !.kind = kind, !.work = w, !.act = act]

Reopened(led, p, w) ==
  LET o == led[OpeningAt(led, w)]
      item == p.items[w]
      queue == [o EXCEPT !.kind = "queue"]
      restate == [Facts("restate", w, item.act) EXCEPT !.text = item.text]
  IN IF <<item.text, item.act>> = <<o.text, o.act>> THEN <<queue>>
     ELSE <<queue, restate>>

\* The blocks of every blocked item but the one the focus waits on, whose
\* block has to come after a switch to make it the waiting focus again.
Reblocked(p, order) ==
  LET held == SelectSeq(order, LAMBDA w : p.items[w].state = "blocked" /\ p.waiting # w)
  IN [i \in DOMAIN held |-> Facts("block", held[i], p.items[held[i]].act)]

Refocused(p) ==
  CASE Cardinality(Active(p)) = 1 ->
         LET w == CHOOSE x \in Active(p) : TRUE
         IN <<Facts("switch", w, p.items[w].act)>>
    [] Cardinality(Active(p)) # 1 /\ p.waiting # None ->
         <<Facts("switch", p.waiting, p.items[p.waiting].act),
           Facts("block", p.waiting, p.items[p.waiting].act)>>
    [] Cardinality(Active(p)) # 1 /\ p.waiting = None /\ p.idle ->
         <<Facts("idle", None, None)>>
    [] OTHER -> <<>>

\* CMP-<seed of the source>-<ordinal>: fresh for every source compacted.
Generation(led) ==
  1 + Max({0} \cup {led[i].id[2] : i \in {j \in DOMAIN led : IsEvent(led[j])
                                                             /\ led[j].id[1] = "CMP"}})
Numbered(body, gen) ==
  [i \in DOMAIN body |-> IF body[i].id = None
                         THEN [body[i] EXCEPT !.id = <<"CMP", gen, i>>] ELSE body[i]]

Compacted(led, p) ==
  LET order == SetToSortSeq(Open(p), LAMBDA v, w : OpeningAt(led, v) < OpeningAt(led, w))
      body == FlattenSeq([i \in DOMAIN order |-> Reopened(led, p, order[i])])
                \o Reblocked(p, order) \o Refocused(p)
                \o <<Facts("compact", None, None)>>
  IN Numbered(body, Generation(led))

Archived(led, p) ==
  LET moved == {OpeningAt(led, w) : w \in Open(p)}
      kept == SetToSortSeq(DOMAIN led \ moved, <)
  IN [i \in DOMAIN kept |-> led[kept[i]]]

\* _projection_shape: everything but the event-spine bookkeeping.
Shape(p) ==
  [items |-> [w \in Open(p) |-> <<p.items[w].alias, p.items[w].text, p.items[w].act,
                                  p.items[w].state>>],
   idle |-> p.idle, waiting |-> p.waiting]

Ids(led) == {led[i].id : i \in {j \in DOMAIN led : IsEvent(led[j])}}

\* The four proofs the plan needs: the target validates, shows the same
\* projection, and with the archive carries every item and every event once.
PlanHolds(led, p) ==
  LET target == Compacted(led, p)
      archive == Archived(led, p)
      carried == {i \in Ids(target) : i[1] # "CMP"}
  IN /\ Issues(target) = {}
     /\ Shape(project_workboard(target)) = Shape(p)
     /\ SameCensus(led, archive \o target)
     /\ Ids(archive) \cap carried = {} /\ Ids(archive) \cup carried = Ids(led)

-----------------------------------------------------------------------------
(* Migration of a legacy checklist to events, and back. *)

Explicit(r) == r.kind = "row" /\ r.alias # None

MigratableRows(led) ==
  LET rows == {i \in DOMAIN led : Explicit(led[i])}
  IN /\ ~Structured(led)
     /\ rows # {}
     /\ \A i, j \in rows : led[i].alias = led[j].alias => i = j
     /\ Cardinality({i \in rows : led[i].text.active /\ ~led[i].checked}) = 1

\* A checked row is opened and completed, the active one started, the rest
\* queued with the action the row names, or a stock one.
MigrationEvents(r, n) ==
  LET open == [Blank EXCEPT !.id = <<"MIG", n, 1>>, !.work = Legacy(r.alias),
                            !.alias = r.alias, !.text = r.text,
                            !.kind = IF r.text.active /\ ~r.checked
                                     THEN "start" ELSE "queue",
                            !.act = IF r.checked \/ r.text.next = None
                                    THEN "continue" ELSE r.text.next]
      done == [Facts("complete", open.work, None) EXCEPT !.id = <<"MIG", n, 2>>]
  IN IF r.checked THEN <<open, done>> ELSE <<open>>

Migrated(led) ==
  FlattenSeq([i \in DOMAIN led |-> IF Explicit(led[i]) THEN MigrationEvents(led[i], i)
                                   ELSE <<led[i]>>])

MigrationHolds(led) ==
  /\ Issues(Migrated(led)) = {}
  /\ SameCensus(led, Migrated(led))

\* _restore_migration_source: the rows read back from the migration events.
Restored(body) ==
  LET IsOpen(i) == IsEvent(body[i]) /\ body[i].id[3] = 1
      Checked(i) == /\ body[i].kind = "queue" /\ i < Len(body)
                    /\ IsEvent(body[i + 1])
                    /\ body[i + 1].id = <<"MIG", body[i].id[2], 2>>
                    /\ body[i + 1].kind = "complete"
      Row(i) == IF ~IsOpen(i) THEN body[i]
                ELSE [Blank EXCEPT !.kind = "row", !.alias = body[i].alias,
                                   !.text = body[i].text, !.checked = Checked(i)]
      at == SetToSortSeq({i \in DOMAIN body : ~IsEvent(body[i]) \/ IsOpen(i)}, <)
  IN [k \in DOMAIN at |-> Row(at[k])]
=============================================================================
