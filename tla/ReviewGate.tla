----------------------------- MODULE ReviewGate -----------------------------
(***************************************************************************)
(* settle_review of scripts/python/registry_reconciler.py: the explicit    *)
(* command that closes a held task on a review, the three validators one   *)
(* of which must accept that review, the recovery of a review's target     *)
(* from its packet while the packet is being archived, the verdict and its *)
(* artifact fallback, and what follows once the registry lock is released: *)
(* the queue receipt and the promotion of the memory notes the task used   *)
(* (scripts/python/memory_promotion.py).                                   *)
(*                                                                         *)
(* Settlement abstracts this whole command to one step.  Here the review   *)
(* is a document whose fields its author chose, the registry row and the   *)
(* packet are what the controller wrote, and the notes have other writers. *)
(* A landed document is not rewritten while a command holds the lock, so   *)
(* the validator and the verdict read it in one step.                      *)
(***************************************************************************)
EXTENDS Naturals, FiniteSets

CONSTANTS HeldTasks,     \* tasks held for review
          ReviewTasks,   \* names a review reference may carry
          Lanes, FamilyOf, \* the lanes and the provider family of each
          Notes,         \* memory notes
          Cmds,          \* settle_review processes
          Entries,       \* registry rows a held task may have
          Rows,          \* registry rows a review task may have, or None
          Docs,          \* documents written without the output bridge
          MaxVersion,    \* rewrites of a held task's response
          MaxDecisions,  \* lifecycle decisions by other writers
          MaxFaults,     \* crashes and failing calls
          None

VARIABLES entry,    \* held task -> its registry row
          version,  \* held task -> which bytes its response file holds
          row,      \* review task -> its registry row
          packet,   \* review task -> [at: "inbox" or "archive", reviews]
          doc,      \* review task -> its landed document, or None
          lock,     \* command holding the registry lock, or None
          cmd,      \* command -> its state
          note,     \* note -> [status, rev, there]
          meta,     \* note -> the status the index shows
          index,    \* the index file is there
          used,     \* <<task, note>> reported used
          queue,    \* receipts appended to the Chrono queue
          decisions, faults

gateVars == <<entry, version, row, packet, doc, lock, cmd>>
memVars == <<note, meta, index, used, decisions>>
vars == <<entry, version, row, packet, doc, lock, cmd, note, meta, index,
          used, queue, decisions, faults>>

Verdicts == {"APPROVE", "REJECT"}
Classes == {"standard", "factual", "security-finding"}
Idle == [pc |-> "idle", task |-> None, ref |-> None, force |-> FALSE,
         globbed |-> {}, scans |-> 0, target |-> None, todo |-> {},
         moved |-> {}, at |-> None, result |-> None]

Init == /\ entry \in [HeldTasks -> Entries]
        /\ version = [h \in HeldTasks |-> 1]
        /\ row \in [ReviewTasks -> Rows]
        /\ packet \in [ReviewTasks -> [at : {"inbox"}, reviews : HeldTasks \cup {None}]]
        /\ \A r \in ReviewTasks :
             row[r] # None /\ row[r].reviews # None
               => packet[r].reviews = row[r].reviews
        /\ doc = [r \in ReviewTasks |-> None]
        /\ lock = None
        /\ cmd = [c \in Cmds |-> Idle]
        /\ note = [n \in Notes |-> [status |-> "candidate", rev |-> 1, there |-> TRUE]]
        /\ meta = [n \in Notes |-> "candidate"]
        /\ index = TRUE /\ used = {} /\ queue = {}
        /\ decisions = 0 /\ faults = 0

(***************************************************************************)
(* The review and the held response.                                       *)
(***************************************************************************)
\* What the output bridge renders for review task r: identity rows from the
\* launch authority, only the verdict and the status from the worker.
BoardDoc(r, verdict) ==
  [from |-> row[r].lane, type |-> "RESULT", inResponseTo |-> r,
   reviews |-> packet[r].reviews, lane |-> None, family |-> None,
   class |-> None, sha |-> None, status |-> "complete",
   verdict |-> verdict, artifact |-> None]

LandBoard(r, verdict) ==
  /\ doc[r] = None /\ row[r] # None
  /\ doc' = [doc EXCEPT ![r] = BoardDoc(r, verdict)]
  /\ UNCHANGED <<entry, version, row, packet, lock, cmd, queue, faults, memVars>>

LandDirect(r, d) ==
  /\ doc[r] = None
  /\ doc' = [doc EXCEPT ![r] = d]
  /\ UNCHANGED <<entry, version, row, packet, lock, cmd, queue, faults, memVars>>

\* The response of a held task is rewritten by its worker.
Rewrite(h) ==
  /\ version[h] < MaxVersion
  /\ version' = [version EXCEPT ![h] = @ + 1]
  /\ UNCHANGED <<entry, row, packet, doc, lock, cmd, queue, faults, memVars>>

\* close_task has committed the review task's row; the packet moves after.
archive_inbox_packet(r) ==
  /\ packet[r].at = "inbox"
  /\ packet' = [packet EXCEPT ![r].at = "archive"]
  /\ UNCHANGED <<entry, version, row, doc, lock, cmd, queue, faults, memVars>>

(***************************************************************************)
(* The command up to the lock.                                             *)
(***************************************************************************)
_review_reference(ref) == ref \in HeldTasks \cup {r \in ReviewTasks : doc[r] # None}

Settle(c, h, ref, force) ==
  /\ cmd[c].pc = "idle" /\ _review_reference(ref)
  /\ cmd' = [cmd EXCEPT ![c] = [Idle EXCEPT !.pc = "lock", !.task = h,
                                            !.ref = ref, !.force = force]]
  /\ UNCHANGED <<entry, version, row, packet, doc, lock, queue, faults, memVars>>

Refuse(c, why) == cmd' = [cmd EXCEPT ![c].pc = "done", ![c].result = why]

Settled(e) == e.status = "complete" /\ e.settledBy # None

\* The response statuses settle_review admits.
SettleableResponse == {"complete", "needs_review", "needs_human"}

\* Take the lock and pass, or fail, every check made before the validator.
LoadEntry(c) ==
  LET e == entry[cmd[c].task] IN
  /\ cmd[c].pc = "lock" /\ lock = None
  /\ \/ /\ Settled(e) /\ e.ref = cmd[c].ref
        /\ Refuse(c, "already") /\ lock' = lock
     \/ /\ Settled(e) /\ e.ref # cmd[c].ref
        /\ Refuse(c, "other-ref") /\ lock' = lock
     \/ /\ ~Settled(e)
        /\ \/ e.status \notin {"review-required", "needs_review"}
           \/ e.response \notin SettleableResponse
           \/ cmd[c].ref = cmd[c].task
           \/ cmd[c].ref \in HeldTasks
           \/ ~e.mandatory
           \/ e.class \notin Classes
        /\ Refuse(c, "refused") /\ lock' = lock
     \/ /\ ~Settled(e)
        /\ e.status \in {"review-required", "needs_review"}
        /\ e.response \in SettleableResponse /\ cmd[c].ref \notin HeldTasks
        /\ e.mandatory /\ e.class \in Classes
        /\ lock' = c
        /\ cmd' = [cmd EXCEPT ![c].pc =
             IF e.class = "standard" THEN "provenance" ELSE "check"]
  /\ UNCHANGED <<entry, version, row, packet, doc, queue, faults, memVars>>

(***************************************************************************)
(* _standard_review_provenance: the row's target, or the packet's.  The    *)
(* packet is looked for by listing the mailbox places one after the other  *)
(* and then reading what was listed, twice at most.                        *)
(***************************************************************************)

_standard_review_provenance(c) ==
  LET r == cmd[c].ref IN
  /\ cmd[c].pc = "provenance"
  /\ \/ row[r] = None /\ Refuse(c, "refused") /\ lock' = None
     \/ /\ row[r] # None /\ row[r].reviews # None /\ lock' = lock
        /\ cmd' = [cmd EXCEPT ![c].pc = "check", ![c].target = row[r].reviews]
     \/ /\ row[r] # None /\ row[r].reviews = None /\ lock' = lock
        /\ cmd' = [cmd EXCEPT ![c].pc = "inbox"]
  /\ UNCHANGED <<entry, version, row, packet, doc, queue, faults, memVars>>

\* task_packet_candidates lists the inbox, then the archive.
ListInbox(c) ==
  /\ cmd[c].pc = "inbox"
  /\ cmd' = [cmd EXCEPT ![c].pc = "archive",
       ![c].globbed = IF packet[cmd[c].ref].at = "inbox" THEN {"inbox"} ELSE {}]
  /\ UNCHANGED <<entry, version, row, packet, doc, lock, queue, faults, memVars>>

ListArchive(c) ==
  /\ cmd[c].pc = "archive"
  /\ cmd' = [cmd EXCEPT ![c].pc = "read",
       ![c].globbed = @ \cup (IF packet[cmd[c].ref].at = "archive"
                              THEN {"archive"} ELSE {})]
  /\ UNCHANGED <<entry, version, row, packet, doc, lock, queue, faults, memVars>>

\* for _attempt in range(2)
PacketScans == 2

\* A listed packet that has moved reads as empty; an empty result is retried.
ReadPackets(c) ==
  LET r == cmd[c].ref
      found == packet[r].at \in cmd[c].globbed /\ packet[r].reviews # None IN
  /\ cmd[c].pc = "read"
  /\ \/ /\ found /\ lock' = lock
        /\ row' = [row EXCEPT ![r].reviews = packet[r].reviews]
        /\ cmd' = [cmd EXCEPT ![c].pc = "check", ![c].target = packet[r].reviews]
     \/ /\ ~found /\ cmd[c].scans + 1 < PacketScans /\ lock' = lock
        /\ cmd' = [cmd EXCEPT ![c].pc = "inbox", ![c].scans = @ + 1]
     \/ /\ ~found /\ cmd[c].scans + 1 >= PacketScans
        /\ Refuse(c, "no-provenance") /\ lock' = None
  /\ UNCHANGED <<entry, version, row, packet, doc, queue, faults, memVars>>

(***************************************************************************)
(* The validators.                                                         *)
(***************************************************************************)
CrossFamily(family, e) == family # None /\ e.family # None /\ family # e.family

_validate_factual_attestation(h, d) ==
  /\ d.from = "chrono" /\ d.type = "REVIEW_ATTESTATION" /\ d.class = "factual"
  /\ d.inResponseTo = h /\ d.status = "complete"
  /\ d.lane \in Lanes /\ d.lane = entry[h].reviewModel
  /\ d.family = FamilyOf[d.lane] /\ CrossFamily(d.family, entry[h])
  /\ d.sha = version[h]

_validate_security_review(h, d) ==
  /\ d.from # "chrono" /\ d.type # "REVIEW_ATTESTATION"
  /\ d.inResponseTo = h /\ d.status = "complete"
  /\ d.from \in Lanes /\ d.from = entry[h].reviewModel
  /\ d.family \in {None, FamilyOf[d.from]}
  /\ CrossFamily(FamilyOf[d.from], entry[h])
  /\ d.sha = version[h]

_validate_standard_review(h, d, target, reviewRow) ==
  /\ d.from # "chrono" /\ d.type = "RESULT"
  /\ reviewRow.lane \in Lanes /\ FamilyOf[reviewRow.lane] # None
  /\ target = h
  /\ d.reviews \in {None, target}
  /\ d.from = reviewRow.lane /\ reviewRow.lane = entry[h].reviewModel
  /\ d.family \in {None, FamilyOf[reviewRow.lane]}
  /\ CrossFamily(FamilyOf[reviewRow.lane], entry[h])
  /\ d.status \in {"complete", "needs_review"}

Accepts(c) ==
  LET h == cmd[c].task
      d == doc[cmd[c].ref] IN
  CASE entry[h].class = "factual" -> _validate_factual_attestation(h, d)
    [] entry[h].class = "security-finding" -> _validate_security_review(h, d)
    [] OTHER -> _validate_standard_review(h, d, cmd[c].target, row[cmd[c].ref])

\* The verdict of the response, else the one of the artifact the registry
\* declares.  "error" is a refusal no force overrides: a declared artifact
\* that is gone or malformed, or a response naming another one.
review_verdict(r) ==
  IF doc[r].verdict # None THEN doc[r].verdict
  ELSE IF row[r] = None \/ row[r].artifact = None THEN "MISSING"
  ELSE IF doc[r].artifact = "other" \/ row[r].artifact \in {"gone", "bad"}
       THEN "error"
  ELSE IF row[r].artifact = "blank" THEN "MISSING" ELSE row[r].artifact

require_approval_verdict(verdict, force) ==
  verdict # "error" /\ (verdict = "APPROVE" \/ force)

\* The validator, the verdict and the one registry write, which also stores
\* a target recovered from the packet on the review task's row.
Commit(c) ==
  LET h == cmd[c].task
      verdict == review_verdict(cmd[c].ref)
      ok == Accepts(c) /\ require_approval_verdict(verdict, cmd[c].force) IN
  /\ cmd[c].pc = "check" /\ lock' = None
  /\ \/ /\ ok
        /\ entry' = [entry EXCEPT ![h].status = "complete",
             ![h].settledBy = "chrono", ![h].ref = cmd[c].ref,
             ![h].verdict = verdict, ![h].forced = verdict # "APPROVE",
             ![h].bytes = version[h]]
        /\ row' = IF entry[h].class = "standard"
                  THEN [row EXCEPT ![cmd[c].ref].reviews = cmd[c].target] ELSE row
        /\ cmd' = [cmd EXCEPT ![c].pc = "receipt", ![c].result = "settled"]
     \/ /\ ~ok /\ UNCHANGED <<entry, row>> /\ Refuse(c, "refused")
  /\ UNCHANGED <<version, packet, doc, queue, faults, memVars>>

(***************************************************************************)
(* After the lock: the receipt, then memory_promotion_message.             *)
(***************************************************************************)
Append(s, h, notes) == queue' = queue \cup {[status |-> s, task |-> h, notes |-> notes]}

\* The append may raise, which ends the command without a promotion.
Receipt(c) ==
  LET h == cmd[c].task IN
  /\ cmd[c].pc = "receipt"
  /\ \/ /\ Append(IF entry[h].forced THEN "REVIEW-SETTLED-FORCED"
                                    ELSE "REVIEW-SETTLED", h, {})
        /\ cmd' = [cmd EXCEPT ![c].pc = "promote"] /\ faults' = faults
     \/ /\ faults < MaxFaults /\ faults' = faults + 1 /\ queue' = queue
        /\ cmd' = [cmd EXCEPT ![c].pc = "done"]
  /\ UNCHANGED <<entry, version, row, packet, doc, lock, memVars>>

PassesGate(verdict) == verdict = "APPROVE"

_cited_candidates(h) == {n \in Notes : <<h, n>> \in used /\ meta[n] = "candidate"}

\* CHRONO_VAULT_ROOT unset, the gate, the index, the query.
StartPromotion(c) ==
  LET h == cmd[c].task
      cited == _cited_candidates(h) IN
  /\ cmd[c].pc = "promote"
  /\ \/ /\ faults < MaxFaults /\ faults' = faults + 1
        /\ Append("MEMORY-PROMOTION-SKIPPED", h, {})
        /\ cmd' = [cmd EXCEPT ![c].pc = "done"]
     \/ /\ faults' = faults
        /\ \/ /\ ~PassesGate(entry[h].verdict)
              /\ cmd' = [cmd EXCEPT ![c].pc = "done"] /\ queue' = queue
           \/ /\ PassesGate(entry[h].verdict) /\ ~index
              /\ Append("MEMORY-PROMOTION-FAILED", h, {})
              /\ cmd' = [cmd EXCEPT ![c].pc = "done"]
           \/ /\ PassesGate(entry[h].verdict) /\ index /\ queue' = queue
              /\ cmd' = [cmd EXCEPT ![c].pc = "find", ![c].todo = cited]
  /\ UNCHANGED <<entry, version, row, packet, doc, lock, memVars>>

\* The next note: gone or no longer a candidate is passed over, else its
\* revision is kept for the swap.
FindNote(c, n) ==
  /\ cmd[c].pc = "find" /\ n \in cmd[c].todo
  /\ cmd' = IF note[n].there /\ note[n].status = "candidate"
            THEN [cmd EXCEPT ![c].pc = "swap", ![c].todo = @ \ {n},
                             ![c].at = [note |-> n, rev |-> note[n].rev]]
            ELSE [cmd EXCEPT ![c].todo = @ \ {n}]
  /\ UNCHANGED <<entry, version, row, packet, doc, lock, queue, faults, memVars>>

\* Mutant: the swap does not compare the revision.
SwapBlind(n, rev) == note[n].there

SwapApplies(n, rev) == note[n].there /\ note[n].rev = rev

\* set_status: done, a revision conflict that is passed over, or any other
\* error, which ends the loop with the notes before it already moved.
SwapNote(c) ==
  LET n == cmd[c].at.note IN
  /\ cmd[c].pc = "swap"
  /\ \/ /\ SwapApplies(n, cmd[c].at.rev)
        /\ note' = [note EXCEPT ![n].status = "verified", ![n].rev = @ + 1]
        /\ meta' = [meta EXCEPT ![n] = "verified"]
        /\ cmd' = [cmd EXCEPT ![c].pc = "find", ![c].at = None,
                              ![c].moved = @ \cup {n}]
        /\ UNCHANGED <<queue, faults>>
     \/ /\ note[n].there /\ ~SwapApplies(n, cmd[c].at.rev)
        /\ cmd' = [cmd EXCEPT ![c].pc = "find", ![c].at = None]
        /\ UNCHANGED <<note, meta, queue, faults>>
     \/ /\ \/ ~note[n].there /\ faults' = faults
           \/ faults < MaxFaults /\ faults' = faults + 1
        /\ Append("MEMORY-PROMOTION-FAILED", cmd[c].task, {})
        /\ cmd' = [cmd EXCEPT ![c].pc = "done", ![c].at = None,
                              ![c].result = "promotion-failed"]
        /\ UNCHANGED <<note, meta>>
  /\ UNCHANGED <<entry, version, row, packet, doc, lock, index, used, decisions>>

ReportPromotion(c) ==
  /\ cmd[c].pc = "find" /\ cmd[c].todo = {}
  /\ IF cmd[c].moved = {} THEN queue' = queue
     ELSE Append("MEMORY-PROMOTION", cmd[c].task, cmd[c].moved)
  /\ cmd' = [cmd EXCEPT ![c].pc = "done"]
  /\ UNCHANGED <<entry, version, row, packet, doc, lock, faults, memVars>>

\* The command ends anywhere; the kernel drops its lock.
Crash(c) ==
  /\ cmd[c].pc \notin {"idle", "done"} /\ faults < MaxFaults
  /\ faults' = faults + 1
  /\ cmd' = [cmd EXCEPT ![c].pc = "done"]
  /\ lock' = IF lock = c THEN None ELSE lock
  /\ UNCHANGED <<entry, version, row, packet, doc, queue, memVars>>

(***************************************************************************)
(* Other writers of the memory store (modelled in Vault).                  *)
(***************************************************************************)
record_usage(h, n) ==
  /\ <<h, n>> \notin used
  /\ used' = used \cup {<<h, n>>}
  /\ UNCHANGED <<gateVars, note, meta, index, queue, decisions, faults>>

\* Another set_status; the index may lag behind the note.
Decide(n, indexed) ==
  /\ decisions < MaxDecisions /\ note[n].there
  /\ note[n].status \in {"candidate", "verified"}
  /\ decisions' = decisions + 1
  /\ note' = [note EXCEPT ![n].status = "invalidated", ![n].rev = @ + 1]
  /\ meta' = IF indexed THEN [meta EXCEPT ![n] = "invalidated"] ELSE meta
  /\ UNCHANGED <<gateVars, index, used, queue, faults>>

LoseNote(n) ==
  /\ decisions < MaxDecisions /\ note[n].there
  /\ decisions' = decisions + 1
  /\ note' = [note EXCEPT ![n].there = FALSE]
  /\ UNCHANGED <<gateVars, meta, index, used, queue, faults>>

LoseIndex ==
  /\ decisions < MaxDecisions /\ index
  /\ decisions' = decisions + 1 /\ index' = FALSE
  /\ UNCHANGED <<gateVars, note, meta, used, queue, faults>>

Review == \E r \in ReviewTasks :
            \/ \E v \in Verdicts \cup {None} : LandBoard(r, v)
            \/ \E d \in Docs : LandDirect(r, d)
            \/ archive_inbox_packet(r)

Command(c) == \/ \E h \in HeldTasks, ref \in ReviewTasks, f \in BOOLEAN : Settle(c, h, ref, f)
              \/ \E h \in HeldTasks : Settle(c, h, h, FALSE)
              \/ LoadEntry(c) \/ _standard_review_provenance(c)
              \/ ListInbox(c) \/ ListArchive(c) \/ ReadPackets(c) \/ Commit(c)
              \/ Receipt(c) \/ StartPromotion(c) \/ ReportPromotion(c)
              \/ \E n \in Notes : FindNote(c, n)
              \/ SwapNote(c) \/ Crash(c)

Memory == \/ \E h \in HeldTasks, n \in Notes : record_usage(h, n)
          \/ \E n \in Notes : LoseNote(n) \/ \E i \in BOOLEAN : Decide(n, i)
          \/ LoseIndex

Next == \/ Review \/ Memory
        \/ \E h \in HeldTasks : Rewrite(h)
        \/ \E c \in Cmds : Command(c)

Spec == Init /\ [][Next]_vars

(***************************************************************************)
(* Properties.                                                             *)
(***************************************************************************)
\* The shape of the state: the lock belongs to a command that is inside it,
\* and a settled row carries its review.
GateTypeOK ==
  /\ lock \in Cmds \cup {None}
  /\ \A c \in Cmds :
       (lock = c) <=> cmd[c].pc \in {"provenance", "inbox", "archive", "read", "check"}
  /\ \A h \in HeldTasks : Settled(entry[h]) => entry[h].ref \in ReviewTasks

\* settle_review / _standard_review_provenance: a standard settlement rests on
\* a review task the controller dispatched for this very task, on the
\* configured lane and of another family, whatever the response claims; and
\* it carries APPROVE unless the override is recorded on the row.
SettledByDispatchedReview ==
  \A h \in HeldTasks : LET e == entry[h] IN
    Settled(e) /\ e.class = "standard" =>
      /\ row[e.ref] # None /\ packet[e.ref].reviews = h
      /\ row[e.ref].lane = e.reviewModel
      /\ CrossFamily(FamilyOf[row[e.ref].lane], e)

\* require_approval_verdict / _registry_review_artifact: a command without
\* --force settles only on an APPROVE in the review's response, or, when that
\* has none, in the artifact the registry declares and the response does not
\* contradict; a missing verdict is not an approval.
UnforcedIsApproved ==
  \A c \in Cmds : cmd[c].result = "settled" /\ ~cmd[c].force =>
    LET r == cmd[c].ref IN
    \/ doc[r].verdict = "APPROVE"
    \/ /\ doc[r].verdict = None /\ row[r] # None
       /\ row[r].artifact = "APPROVE" /\ doc[r].artifact # "other"

\* _validate_factual_attestation: the bytes settled are the bytes attested,
\* although the response may be rewritten before and after.
AttestedBytesSettle ==
  \A h \in HeldTasks : Settled(entry[h]) /\ entry[h].class = "factual"
                    => doc[entry[h].ref].sha = entry[h].bytes

\* _validate_security_review: the same for a reviewed security finding.
ReviewedBytesSettle ==
  \A h \in HeldTasks : Settled(entry[h]) /\ entry[h].class = "security-finding"
                    => doc[entry[h].ref].sha = entry[h].bytes

\* _packet_review_target: archiving the packet while the command looks for it
\* never turns into a refusal for missing provenance.
ProvenanceSurvivesArchive ==
  \A c \in Cmds : cmd[c].result = "no-provenance"
                    => packet[cmd[c].ref].reviews = None

\* settle_review: two commands with different reviews cannot both settle; the
\* first one's reference, verdict and override stay.
SettlesOnce ==
  \A h \in HeldTasks : Settled(entry[h]) => entry'[h] = entry[h]

\* promote_cited_notes: a MEMORY-PROMOTION line names notes its task reported
\* used, and its task was approved and not forced.
PromotionEarned ==
  \A q \in queue : q.status = "MEMORY-PROMOTION" =>
    /\ q.notes # {} /\ \A n \in q.notes : <<q.task, n>> \in used
    /\ entry[q.task].verdict = "APPROVE" /\ ~entry[q.task].forced

\* promote_cited_notes / set_status: a lifecycle decision another writer made
\* is never overturned by a promotion that read the note before it.
DecisionsStand ==
  \A n \in Notes : note[n].status = "invalidated"
                     => note'[n].status = "invalidated"

=============================================================================
