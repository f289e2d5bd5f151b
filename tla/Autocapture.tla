---------------------------- MODULE Autocapture ----------------------------
(***************************************************************************)
(* Automatic capture of task responses into the memory vault               *)
(* (plugins/chrono-vault/autocapture.py, jsonl.py, privacy.py).            *)
(*                                                                         *)
(* The outbox watcher starts one autocapture process per response file,    *)
(* unthrottled, and replays every file at each start.  A process classifies *)
(* the response, appends its raw material to the episodic spool, screens   *)
(* it mechanically, sends it to the distiller when its label allows, and   *)
(* writes one learning note under the vault's dedupe lock.  A replay that  *)
(* finds its note already written may instead graduate one spooled row.    *)
(*                                                                         *)
(* A response stands for its dedupe key (source_task, artifact_hash).      *)
(* Titles, bodies, redaction patterns and the distiller's text are         *)
(* abstracted to what decides the control flow.                            *)
(***************************************************************************)
EXTENDS Naturals, Sequences, FiniteSets

CONSTANTS
  Procs,        \* autocapture processes alive at once
  Responses,    \* response files, one dedupe key each
  Valid,        \* responses that parse and match their task
  Named,        \* responses whose envelope names the specialist
  Bounty,       \* responses of tasks dispatched in bounty mode
  Says,         \* Says[r]: the mode r's own envelope names, or NoValue
  Security,     \* responses under departments/security, or declared restricted
  Thin,         \* responses the mechanical filter refuses
  OptIn,        \* CHRONO_AUTOCAPTURE_DISTILL_RESTRICTED is on
  Due,          \* responses whose path selects the spool reader
  Offset,       \* Offset[r]: the hash of r's path, taken modulo the backlog
  MaxRows,      \* rows of one day's spool file
  ReaderRows,   \* EPISODIC_READER_MAX_ROWS, the rows one look may hold
  Days,         \* UTC days, one spool file each: 1 .. Days
  MaxOutages,   \* vault outages
  MaxFailures,  \* distiller answers other than a usable claim
  MaxCrashes,   \* processes killed
  MaxTears,     \* processes killed inside a spool append
  Prunable,     \* records that may disappear: SUBSET {"packet", "record"}
  MaxDamage     \* learning notes made unreadable from outside

VARIABLES
  files,     \* responses present in an outbox
  packets,   \* responses whose task packet is in some mailbox
  records,   \* responses whose task is in _state/active-tasks.json
  spool,     \* spool[d]: the rows of day d's file, in order
  today,     \* the current UTC day
  captureNotes, \* the learning notes, in the order they were written
  broken,    \* some learning note cannot be read
  vaultUp,   \* resolve_vault_root succeeds
  lock,      \* holder of .autocapture.lock, or Absent
  job,       \* job[p]: what process p is doing
  outcome,   \* outcome[r]: the reason the last run on r ended with
  sent,      \* responses whose body was given to the distiller
  captureFaults \* faults the environment has spent

captureVars == <<files, packets, records, spool, today, captureNotes, broken, vaultUp,
          lock, job, outcome, sent, captureFaults>>

NoValue == "none"

AutocaptureAssumption ==
  /\ Valid \subseteq Responses /\ Named \subseteq Responses
  /\ Bounty \subseteq Responses /\ Security \subseteq Responses
  /\ Says \in [Responses -> {"bounty", "internal", NoValue}]
  /\ Thin \subseteq Responses
  /\ Due \subseteq Responses /\ OptIn \in BOOLEAN
  /\ Offset \in [Responses -> Nat]
  /\ Days \in Nat \ {0} /\ MaxRows \in Nat /\ ReaderRows \in Nat
  /\ IsFiniteSet(Procs) /\ NoValue \notin Procs \cup Responses
  /\ Prunable \subseteq {"packet", "record"}

MaxAttempts == 2                        \* DISTILL_MAX_ATTEMPTS

Unread == [d \in 1 .. Days |-> 0]

\* sizes: what fstat said of the spool's files when they were opened.  whole:
\* the look that found no row could read every file.
Idle == [pc |-> "idle", resp |-> NoValue, key |-> NoValue, label |-> NoValue,
         named |-> FALSE, root |-> FALSE, tries |-> 0, queue |-> <<>>,
         sizes |-> Unread, whole |-> FALSE]

Spend(f) == captureFaults' = [captureFaults EXCEPT ![f] = @ + 1]

----------------------------------------------------------------------------
(* Classification.                                                         *)

\* _resolve_specialist: the envelope, else the packet, else the board record.
Attributed(r) == r \in Named \cup packets \cup records

\* The mode known now: the envelope's own word, else the packet's, else the
\* board record's, else the namespace's default, which is never bounty outside
\* departments/security.
BountyMode(r) ==
  IF Says[r] # NoValue THEN Says[r] = "bounty"
  ELSE r \in Bounty /\ r \in packets \cup records

\* The label capture_response gives the response now.
Label(r) == IF r \in Security \/ BountyMode(r) THEN "restricted" ELSE "internal"

\* _distillation_enabled
DistillEnabled(label) == label = "internal" \/ OptIn

\* _refusal_reason: no author, or not durable knowledge.
Refused(r, named) == ~named \/ r \in Thin

----------------------------------------------------------------------------
(* The spool and the notes.                                                *)

SpoolRow(j) == [key |-> j.resp, label |-> j.label, named |-> j.named,
           ok |-> TRUE, ended |-> TRUE, whole |-> j.whole]

\* Half a line, without its newline: what an append killed in os.write leaves.
TornRow(r) == [key |-> r, label |-> NoValue, named |-> FALSE, ok |-> FALSE,
               ended |-> FALSE, whole |-> FALSE]

\* fstat of every file when it is opened.
Sizes == [d \in 1 .. Days |-> Len(spool[d])]

\* read_objects: a file is refused on its first unparseable line, and when it
\* changed since it was opened.
Reads(p, d) ==
  /\ job[p].sizes[d] = Len(spool[d])
  /\ \A i \in DOMAIN spool[d] : spool[d][i].ok

\* _spooled_rows: the lines of the files p can read, each its day and its
\* place; a refused file is skipped.
Lines(p) == {c \in (1 .. Days) \X (1 .. MaxRows) :
               Reads(p, c[1]) /\ c[2] \in DOMAIN spool[c[1]]}
LineAt(c) == spool[c[1]][c[2]]
TooLarge(p) == Cardinality(Lines(p)) > ReaderRows

\* _spool_contains, for the response of p.
SpoolContains(p) == \E c \in Lines(p) : LineAt(c).key = job[p].resp

\* Day d's file holds half a line.
TornFile(d) == \E i \in DOMAIN spool[d] : ~spool[d][i].ended

\* A whole row that parses is there; in a file with half a line it may be the
\* row that continues it, which does not parse.
Spooled(r) ==
  \E d \in 1 .. Days : \E i \in DOMAIN spool[d] :
    /\ spool[d][i].key = r /\ spool[d][i].ended
    /\ spool[d][i].ok \/ TornFile(d)

\* append_line: O_APPEND under the file's lock.  After a torn tail the new
\* line continues the torn one, and neither parses.
AppendLine(d, row) ==
  LET n == Len(spool[d])
      glued == n > 0 /\ ~spool[d][n].ended
  IN [spool EXCEPT ![d] = Append(@, [row EXCEPT !.ok = ~glued])]

\* _find_duplicate / _semantic_keys
NoteKeys == {captureNotes[i].key : i \in DOMAIN captureNotes}
HasNote(r) == r \in NoteKeys

----------------------------------------------------------------------------
(* One run of main().                                                      *)

\* The run ends with a result for the response it was started on.
EndRun(p, reason) ==
  /\ job' = [job EXCEPT ![p] = Idle]
  /\ outcome' = [outcome EXCEPT ![job[p].resp] = reason]

\* A replay duplicate whose path is due goes on to the spool reader.
FinishDuplicate(p) ==
  /\ outcome' = [outcome EXCEPT ![job[p].resp] = "duplicate"]
  /\ job' = [job EXCEPT ![p] = IF job[p].resp \in Due
                               THEN [Idle EXCEPT !.pc = "reader", !.resp = job[p].resp]
                               ELSE Idle]

Continue(p, pc) == job' = [job EXCEPT ![p].pc = pc] /\ UNCHANGED outcome

\* The watcher starts a process on a response: it is read, parsed and
\* classified from what the envelope, the packet and the board say now.
Start(p, r) ==
  /\ job[p].pc = "idle"
  /\ r \in files
  /\ IF r \in Valid
     THEN /\ job' = [job EXCEPT ![p] =
                      [Idle EXCEPT !.pc = "check", !.resp = r, !.key = r,
                                   !.label = Label(r), !.named = Attributed(r),
                                   !.root = vaultUp]]
          /\ UNCHANGED outcome
     ELSE /\ outcome' = [outcome EXCEPT ![r] = "invalid"]
          /\ UNCHANGED job
  /\ UNCHANGED <<files, packets, records, spool, today, captureNotes, broken, vaultUp,
                 lock, sent, captureFaults>>

\* The duplicate check that process p makes without the lock found no note.
Unseen(p) == ~(job[p].root /\ (broken \/ HasNote(job[p].resp)))

\* The check ends the run: a note is unreadable, or the response has one.
EndsAsSeen(p) ==
  \/ job[p].root /\ broken /\ EndRun(p, "dedupe_scan_failed")
  \/ job[p].root /\ ~broken /\ HasNote(job[p].resp) /\ FinishDuplicate(p)

\* The replay check, before anything is appended: no note, and the files of
\* the spool are opened.
CheckReplay(p) ==
  /\ job[p].pc = "check"
  /\ \/ EndsAsSeen(p)
     \/ /\ Unseen(p)
        /\ job' = [job EXCEPT ![p] = [@ EXCEPT !.pc = "read", !.sizes = Sizes]]
        /\ UNCHANGED outcome
  /\ UNCHANGED <<files, packets, records, spool, today, captureNotes, broken, vaultUp,
                 lock, sent, captureFaults>>

\* Their lines are read and searched; too many of them end the run.
ReadSpool(p) ==
  LET found == SpoolContains(p) IN
  /\ job[p].pc = "read"
  /\ \/ TooLarge(p) /\ EndRun(p, "episodic_spool_too_large")
     \/ /\ ~TooLarge(p)
        /\ job' = [job EXCEPT ![p] =
                     [@ EXCEPT !.pc = IF found THEN "screen" ELSE "spool",
                               !.sizes = Unread,
                               !.whole = ~found /\ \A d \in 1 .. Days : Reads(p, d)]]
        /\ UNCHANGED outcome
  /\ UNCHANGED <<files, packets, records, spool, today, captureNotes, broken, vaultUp,
                 lock, sent, captureFaults>>

\* _spool_episodic: the raw material, durable before anything may reject it.
Spool(p) ==
  /\ job[p].pc = "spool"
  /\ Len(spool[today]) < MaxRows
  /\ spool' = AppendLine(today, SpoolRow(job[p]))
  /\ job' = [job EXCEPT ![p] = [@ EXCEPT !.pc = "screen", !.whole = FALSE]]
  /\ UNCHANGED <<files, packets, records, today, captureNotes, broken, vaultUp, lock,
                 outcome, sent, captureFaults>>

\* The second unlocked duplicate check, the mechanical filter, the vault.
Screen(p) ==
  /\ job[p].pc = "screen"
  /\ \/ EndsAsSeen(p)
     \/ /\ Unseen(p) /\ Refused(job[p].resp, job[p].named)
        /\ EndRun(p, "refused")
     \/ /\ Unseen(p) /\ ~Refused(job[p].resp, job[p].named) /\ ~job[p].root
        /\ EndRun(p, "vault_unavailable")
     \/ /\ Unseen(p) /\ ~Refused(job[p].resp, job[p].named) /\ job[p].root
        /\ Continue(p, IF DistillEnabled(job[p].label) THEN "distill" ELSE "lock")
  /\ UNCHANGED <<files, packets, records, spool, today, captureNotes, broken, vaultUp,
                 lock, sent, captureFaults>>

\* One distiller subprocess for the row in hand, the run's own or a graduated
\* one.  Only an unparseable answer is retried; a timeout, a non-zero exit or
\* a bad field ends the run, and so does "no claim", which in the reader
\* escapes as an error.
Distill(p) ==
  LET own == job[p].queue = <<>> IN
  /\ job[p].pc = "distill"
  /\ sent' = sent \cup {job[p].key}
  /\ \/ /\ Continue(p, "lock")
        /\ UNCHANGED captureFaults
     \/ /\ captureFaults.failure < MaxFailures
        /\ Spend("failure")
        /\ \/ /\ job[p].tries + 1 < MaxAttempts
              /\ job' = [job EXCEPT ![p].tries = @ + 1]
              /\ UNCHANGED outcome
           \/ \E reason \in {"distillation_failed", "refused"} :
                IF own THEN EndRun(p, reason)
                ELSE job' = [job EXCEPT ![p] = Idle] /\ UNCHANGED outcome
  /\ UNCHANGED <<files, packets, records, spool, today, captureNotes, broken, vaultUp, lock>>

\* _dedupe_lock: an flock the system releases when its holder dies.
Acquire(p) ==
  /\ job[p].pc = "lock"
  /\ lock = NoValue
  /\ \/ /\ vaultUp
        /\ lock' = p
        /\ Continue(p, "write")
     \/ /\ ~vaultUp
        /\ IF job[p].queue = <<>> THEN EndRun(p, "dedupe_lock_failed")
           ELSE job' = [job EXCEPT ![p] = Idle] /\ UNCHANGED outcome
        /\ UNCHANGED lock
  /\ UNCHANGED <<files, packets, records, spool, today, captureNotes, broken, vaultUp,
                 sent, captureFaults>>

\* The run goes on after the locked section: the run's own row ends it, a
\* duplicate met by the reader sends it to the next row.
AfterWrite(p, reason) ==
  IF job[p].queue = <<>>
  THEN IF reason = "duplicate" THEN FinishDuplicate(p) ELSE EndRun(p, reason)
  ELSE /\ job' = [job EXCEPT ![p] = IF reason = "duplicate"
                                    THEN [job[p] EXCEPT !.pc = "next", !.queue = Tail(@)]
                                    ELSE Idle]
       /\ UNCHANGED outcome

\* Mutant: the duplicate check is not repeated under the lock.
WriteUnchecked(p) ==
  /\ job[p].pc = "write"
  /\ lock' = NoValue
  /\ captureNotes' = Append(captureNotes, [key |-> job[p].key, label |-> job[p].label])
  /\ AfterWrite(p, "captured")
  /\ UNCHANGED <<files, packets, records, spool, today, broken, vaultUp, sent, captureFaults>>

\* Under the lock: the authoritative duplicate check, then record().
WriteNote(p) ==
  /\ job[p].pc = "write"
  /\ lock' = NoValue
  /\ \/ /\ broken
        /\ AfterWrite(p, "dedupe_scan_failed")
        /\ UNCHANGED captureNotes
     \/ /\ ~broken /\ HasNote(job[p].key)
        /\ AfterWrite(p, "duplicate")
        /\ UNCHANGED captureNotes
     \/ /\ ~broken /\ ~HasNote(job[p].key) /\ vaultUp
        /\ captureNotes' = Append(captureNotes, [key |-> job[p].key, label |-> job[p].label])
        /\ AfterWrite(p, "captured")
     \/ /\ ~broken /\ ~HasNote(job[p].key) /\ ~vaultUp
        /\ AfterWrite(p, "capture_failed")
        /\ UNCHANGED captureNotes
  /\ UNCHANGED <<files, packets, records, spool, today, broken, vaultUp, sent, captureFaults>>

----------------------------------------------------------------------------
(* graduate_spooled_once, the spool reader.                                *)

\* How many lines the files that p can read have before line c.
Rank(p, c) ==
  Cardinality({b \in Lines(p) : b[1] < c[1] \/ (b[1] = c[1] /\ b[2] < c[2])})

\* When line c has its turn in a scan that starts at line start and wraps around.
Turn(p, c, start) == IF Rank(p, c) >= start THEN Rank(p, c) - start
                     ELSE Rank(p, c) + Cardinality(Lines(p)) - start

\* Mutant: the scan does not wrap around.
FreshUnwrapped(p, start) ==
  {c \in Lines(p) : /\ Rank(p, c) >= start /\ ~HasNote(LineAt(c).key)
                    /\ \A b \in Lines(p) :
                         LineAt(b).key = LineAt(c).key /\ Rank(p, b) >= start
                           => Rank(p, c) <= Rank(p, b)}

\* The first line of each key (the reader's "seen") that is not searchable yet.
Fresh(p, start) ==
  {c \in Lines(p) : /\ ~HasNote(LineAt(c).key)
                    /\ \A b \in Lines(p) : LineAt(b).key = LineAt(c).key
                                            => Turn(p, c, start) <= Turn(p, b, start)}

\* The lines still to try, in the order of their turns.
ScanOrders(p, start) ==
  {q \in [1 .. Cardinality(Fresh(p, start)) -> Fresh(p, start)] :
     \A j, k \in DOMAIN q : j < k => Turn(p, q[j], start) < Turn(p, q[k], start)}

\* The vault is there, and the files of the spool are opened.
Reader(p) ==
  /\ job[p].pc = "reader"
  /\ job' = [job EXCEPT ![p] = IF vaultUp THEN [@ EXCEPT !.pc = "scan", !.sizes = Sizes]
                                ELSE Idle]
  /\ UNCHANGED <<files, packets, records, spool, today, captureNotes, broken, vaultUp,
                 lock, outcome, sent, captureFaults>>

\* The backlog is read and ordered from the seed's offset.
Scan(p) ==
  LET unavailable == broken \/ TooLarge(p) \/ Lines(p) = {} IN
  /\ job[p].pc = "scan"
  /\ \/ unavailable /\ job' = [job EXCEPT ![p] = Idle]
     \/ /\ ~unavailable
        /\ \E q \in ScanOrders(p, Offset[job[p].resp] % Cardinality(Lines(p))) :
             job' = [job EXCEPT ![p] = [@ EXCEPT !.pc = "next", !.sizes = Unread,
                                                !.queue = [k \in DOMAIN q |-> LineAt(q[k])]]]
  /\ UNCHANGED <<files, packets, records, spool, today, captureNotes, broken, vaultUp,
                 lock, outcome, sent, captureFaults>>

\* The next row: one the filter refuses is passed over, another is in hand,
\* at the head of the queue, while it is distilled and written.
NextRow(p) ==
  LET queue == job[p].queue IN
  /\ job[p].pc = "next"
  /\ \/ /\ queue = <<>>
        /\ job' = [job EXCEPT ![p] = Idle]
     \/ /\ queue # <<>> /\ Refused(Head(queue).key, Head(queue).named)
        /\ job' = [job EXCEPT ![p].queue = Tail(queue)]
     \/ /\ queue # <<>> /\ ~Refused(Head(queue).key, Head(queue).named)
        /\ job' = [job EXCEPT ![p] =
                     [@ EXCEPT !.pc = IF DistillEnabled(Head(queue).label)
                                      THEN "distill" ELSE "lock",
                               !.key = Head(queue).key,
                               !.label = Head(queue).label,
                               !.tries = 0]]
  /\ UNCHANGED <<files, packets, records, spool, today, captureNotes, broken, vaultUp,
                 lock, outcome, sent, captureFaults>>

----------------------------------------------------------------------------
(* The environment.                                                        *)

Release(p) == lock' = IF lock = p THEN NoValue ELSE lock

\* The process is killed.
Crash(p) ==
  /\ job[p].pc # "idle"
  /\ captureFaults.crash < MaxCrashes
  /\ Spend("crash")
  /\ job' = [job EXCEPT ![p] = Idle]
  /\ Release(p)
  /\ UNCHANGED <<files, packets, records, spool, today, captureNotes, broken, vaultUp,
                 outcome, sent>>

\* The process is killed inside os.write: the day's file ends in half a line.
TearAppend(p) ==
  /\ job[p].pc = "spool"
  /\ captureFaults.tear < MaxTears
  /\ Len(spool[today]) < MaxRows
  /\ Spend("tear")
  /\ spool' = [spool EXCEPT ![today] = Append(@, TornRow(job[p].resp))]
  /\ job' = [job EXCEPT ![p] = Idle]
  /\ UNCHANGED <<files, packets, records, today, captureNotes, broken, vaultUp, lock,
                 outcome, sent>>

NextDay ==
  /\ today < Days
  /\ today' = today + 1
  /\ UNCHANGED <<files, packets, records, spool, captureNotes, broken, vaultUp, lock,
                 job, outcome, sent, captureFaults>>

\* An operator archives an outbox file some run has ended on.
Archive(r) ==
  /\ r \in files
  /\ outcome[r] # NoValue
  /\ files' = files \ {r}
  /\ UNCHANGED <<packets, records, spool, today, captureNotes, broken, vaultUp, lock,
                 job, outcome, sent, captureFaults>>

\* Settlement deletes the task's packet; the prune removes its board record.
Prune(r) ==
  /\ \/ /\ "packet" \in Prunable /\ r \in packets
        /\ packets' = packets \ {r} /\ UNCHANGED records
     \/ /\ "record" \in Prunable /\ r \in records
        /\ records' = records \ {r} /\ UNCHANGED packets
  /\ UNCHANGED <<files, spool, today, captureNotes, broken, vaultUp, lock, job,
                 outcome, sent, captureFaults>>

VaultDown ==
  /\ vaultUp
  /\ captureFaults.outage < MaxOutages
  /\ Spend("outage")
  /\ vaultUp' = FALSE
  /\ UNCHANGED <<files, packets, records, spool, today, captureNotes, broken, lock,
                 job, outcome, sent>>

VaultBack ==
  /\ ~vaultUp
  /\ vaultUp' = TRUE
  /\ UNCHANGED <<files, packets, records, spool, today, captureNotes, broken, lock,
                 job, outcome, sent, captureFaults>>

\* Something outside makes one learning note unreadable to _canonical_key.
Damage ==
  /\ ~broken
  /\ captureFaults.damage < MaxDamage
  /\ Spend("damage")
  /\ broken' = TRUE
  /\ UNCHANGED <<files, packets, records, spool, today, captureNotes, vaultUp, lock,
                 job, outcome, sent>>

CaptureInit ==
  /\ files = Responses
  /\ packets = Responses
  /\ records = Responses
  /\ spool = [d \in 1 .. Days |-> <<>>]
  /\ today = 1
  /\ captureNotes = <<>>
  /\ broken = FALSE
  /\ vaultUp = TRUE
  /\ lock = NoValue
  /\ job = [p \in Procs |-> Idle]
  /\ outcome = [r \in Responses |-> NoValue]
  /\ sent = {}
  /\ captureFaults = [crash |-> 0, tear |-> 0, failure |-> 0, outage |-> 0, damage |-> 0]

Step(p) ==
  \/ CheckReplay(p) \/ ReadSpool(p) \/ Spool(p) \/ Screen(p) \/ Distill(p)
  \/ Acquire(p) \/ WriteNote(p) \/ Reader(p) \/ Scan(p) \/ NextRow(p)

CaptureNext ==
  \/ \E p \in Procs : Step(p)
  \/ \E p \in Procs, r \in Responses : Start(p, r)
  \/ \E p \in Procs : Crash(p) \/ TearAppend(p)
  \/ \E r \in Responses : Archive(r) \/ Prune(r)
  \/ NextDay \/ VaultDown \/ VaultBack \/ Damage

CaptureSpec == CaptureInit /\ [][CaptureNext]_captureVars

\* The watcher's restarts replay every response on disk, a started process
\* runs, the lock is granted to every waiter, and an outage ends.
Fairness ==
  /\ \A p \in Procs :
       /\ WF_captureVars(CheckReplay(p) \/ ReadSpool(p) \/ Spool(p) \/ Screen(p) \/ Distill(p)
                         \/ WriteNote(p) \/ Reader(p) \/ Scan(p) \/ NextRow(p))
       /\ SF_captureVars(Acquire(p))
  /\ \A r \in Responses : SF_captureVars(\E p \in Procs : Start(p, r))
  /\ WF_captureVars(VaultBack)

CaptureFairSpec == CaptureSpec /\ Fairness

----------------------------------------------------------------------------
(* Properties.                                                             *)

Pcs == {"idle", "check", "read", "spool", "screen", "distill", "lock", "write", "reader",
        "scan", "next"}

\* Every process is at a step of capture_response or of the reader, and only
\* the process in the locked section holds the lock.
AutocaptureTypeOK ==
  /\ \A p \in Procs : job[p].pc \in Pcs
  /\ today \in 1 .. Days
  /\ \A p \in Procs : (lock = p) = (job[p].pc = "write")

\* However many processes replay the same response, and whether its note
\* comes from the response or from its spooled row, the vault holds at most
\* one note per (source_task, source_artifact_hash).
OneNotePerKey ==
  \A i, j \in DOMAIN captureNotes : captureNotes[i].key = captureNotes[j].key => i = j

\* "the raw material is already spooled": whatever the semantic tier did with
\* a response -- captured, refused, distiller failed, vault down -- its raw row
\* is in the spool and parses.  The one exception is an append killed inside
\* os.write in the same day's file: the row after it continues the half line.
NothingLost ==
  \A r \in Responses :
    outcome[r] \in {"captured", "refused", "distillation_failed", "vault_unavailable",
                    "capture_failed", "dedupe_lock_failed", "duplicate"} => Spooled(r)

\* Watcher restarts do not grow the spool: however often a response is
\* replayed, the rows that were appended after a look through the whole spool
\* are at most the processes that looked at the same moment (the replay check
\* before _spool_episodic).  A look that had to skip a file, because it was
\* appended to while it was read or holds half a line, may add one row more.
SpoolRowsBounded ==
  \A r \in Responses :
    Cardinality({c \in (1 .. Days) \X (1 .. MaxRows) :
                   /\ c[2] \in DOMAIN spool[c[1]]
                   /\ spool[c[1]][c[2]].key = r /\ spool[c[1]][c[2]].whole})
      <= Cardinality(Procs)

\* No path into the vault, direct or through the spool, writes a note the
\* mechanical filter refuses.
NotesAreKnowledge ==
  \A i \in DOMAIN captureNotes : captureNotes[i].key \notin Thin

\* What must not leave: security work, what its own envelope calls bounty, and
\* bounty tasks whose envelope is silent.  An envelope that names another mode
\* overrules the packet and the board.
KeptLocal == {r \in Responses :
  r \in Security \/ Says[r] = "bounty" \/ (r \in Bounty /\ Says[r] = NoValue)}

\* Bounty and security material is never given to the external distiller
\* while the operator has not opted in (_distillation_enabled), directly or
\* through its spooled row.
RestrictedStaysLocal ==
  ~OptIn => sent \cap KeptLocal = {}

=============================================================================
