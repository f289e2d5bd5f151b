------------------------------ MODULE Admission ------------------------------
(***************************************************************************)
(* From a drafted packet to a launched attempt: bin/send-task.sh (scope     *)
(* check, preflight, publication, registration, start), dispatch_preflight, *)
(* dispatch_context_builder.build_context and cleanup_canary, and the       *)
(* comparisons of board-supervisor.sh before it launches.  No lock spans a  *)
(* dispatch: several dispatchers, of one task or of several, interleave     *)
(* between the locked registry calls, the packet in the inbox is read three *)
(* times while one authority is built, and the files behind it may change.  *)
(*                                                                         *)
(* A packet is a record of what the gates tell apart; its digest is the     *)
(* packet itself.  A dispatcher stands for the attempt it registers.  Host  *)
(* admission is HostAdmission's.                                            *)
(***************************************************************************)
EXTENDS Naturals, FiniteSets

CONSTANTS
    Dispatchers,
    Drafts,        \* dispatcher -> the packets its draft may be
    Edits,         \* packets a hand may put in the inbox
    MaxPacketEdits,      \* bound: edits of drafts and of the inbox
    MaxWorld,      \* bound: changes of the role's brief, of the dossiers, of the registry's readability
    MaxCleanups,   \* bound: canary cleanups asked for
    Targets,       \* dossier slugs a packet's target may name
    NoPacket

Packets == (UNION {Drafts[d] : d \in Dispatchers}) \cup Edits
Tasks == {p.id : p \in Packets}

ReadPermitting == {"rich", "focused", "default"}
Apertures == ReadPermitting \cup {"cold", "pool_blind", "none"}

\* What is wrong with a packet that only one of the two gates looks at, or both; "oversize" is a
\* prompt past its limit only with the parts that the build adds.
PreflightDefects == {"override", "role"}
BuildDefects == {"role", "alias", "ignored"}

VARIABLES
    pc,       \* dispatcher -> its next step
    draft,    \* dispatcher -> bytes of its working copy
    entry,    \* dispatcher -> the packet it assembled, whose values its registry entry holds
    pre,      \* dispatcher -> the packet its preflight verdict names
    placed,   \* dispatcher -> the packet it published
    inbox, archive, \* task -> packet or NoPacket
    reg,      \* task -> row of active-tasks.json or NoPacket
    readable, \* whether the registry can be loaded
    fields,   \* dispatcher -> packet its authority's fields come from
    told,     \* dispatcher -> packet its launch prompt holds
    sha,      \* dispatcher -> packet_sha256 of its authority
    ap,       \* dispatcher -> memory aperture of its authority
    role,     \* dispatcher -> canonical_role_sha256 of its authority
    pinned,   \* dispatcher -> contract registered for it
    open,     \* dispatchers whose build found no registry to compare with
    brief,    \* the role's brief: "open", "blind" or "broken"
    blind,    \* dossiers with a _blind directory
    saw,      \* dispatcher -> the brief and the blind dossiers its aperture was floored under
    packetEdits, world, cleanups

draftVars == <<draft, entry, pre, placed>>
buildVars == <<fields, told, sha, ap, role, open, saw>>
worldVars == <<readable, brief, blind, world>>
bounds == <<packetEdits, cleanups>>
admitVars == <<pc, draftVars, inbox, archive, reg, pinned, buildVars, worldVars, bounds>>

DispatchSteps == {"draft", "scoped", "allowed", "admitted", "published", "registered", "read", "agreed",
          "quoted", "built", "started", "launched", "done", "dead"}

Briefs == {"open", "blind", "broken"}
RowStates == {"queued", "running", "blocked", "cancelled", "complete", "review"}

Before(d, step) == pc[d] = step
Go(d, step) == pc' = [pc EXCEPT ![d] = step]

InFlight(t) == reg[t] # NoPacket /\ reg[t].st \in {"queued", "running"}
Owner(t, d) == reg[t] # NoPacket /\ reg[t].att = d

-----------------------------------------------------------------------------
(* What a packet says.                                                      *)

\* is_terminal_review_task
Terminal(c, scope) == scope = {} /\ c.kind = "review" /\ ~c.required

\* _check_deliverable_review_agreement: never less review than the triggers demand
Agreement(p) == p.owed => p.contract.required \/ Terminal(p.contract, p.scope)

\* validate_verification_contract and the run and mode it is for
ContractValid(p) == p.contract.id = p.id /\ Agreement(p)

\* A declared scope holds the return artifact; an empty one is artifact-only.
ArtifactInScope(p) == p.scope = {} \/ p.art \in p.scope

\* packet_memory_contract: a focus exactly when the aperture is focused
MemoryContract(p) == (p.ap = "focused") = p.focus

\* board canary auto-clean is restricted to isolated inventory canaries
CanaryOK(p) == p.autoclean => p.canary /\ Cardinality(p.scope) = 1 /\ p.art \in p.scope

PreflightAllows(p) ==
    /\ p.defects \cap PreflightDefects = {}
    /\ ArtifactInScope(p) /\ ContractValid(p) /\ MemoryContract(p)

BuildAccepts(p) ==
    /\ p.defects \cap BuildDefects = {}
    /\ ArtifactInScope(p) /\ CanaryOK(p) /\ ContractValid(p)

\* blind_discovery_declarations: an unreadable or unparsable brief counts as blind
RequiresBlind == brief # "open"

\* enforce_blind_floor
BlindFloor(p) ==
    IF p.ap \in ReadPermitting /\ RequiresBlind /\ p.names \cap blind # {} THEN "cold" ELSE p.ap

\* _dispatch_identity of the registered entry
Identity(p) == [scope |-> p.scope, art |-> p.art, contract |-> p.contract, owed |-> p.owed]

Row(d, p) ==
    [att |-> d, st |-> "queued", pin |-> p.contract, scope |-> p.scope, owed |-> p.owed,
     identity |-> Identity(p)]

\* A row of the registry, at any time.
Rows == [att : Dispatchers, st : RowStates, pin : {p.contract : p \in Packets},
         scope : {p.scope : p \in Packets}, owed : {p.owed : p \in Packets},
         identity : {Identity(p) : p \in Packets}]

AdmissionAssumption ==
    /\ \A p \in Packets :
          /\ p.ap \in Apertures
          /\ p.names \subseteq Targets
          /\ p.defects \subseteq PreflightDefects \cup BuildDefects \cup {"oversize"}
          /\ p.contract.kind \in {"work", "review"}
    /\ NoPacket \notin Packets \cup Rows

\* derive_verification_contract_snapshot: routine work owes the review its triggers demand
Derived(p) == p.contract.kind = "work" => p.contract.required = p.owed

AdmissionTypeOK ==
    /\ pc \in [Dispatchers -> DispatchSteps]
    /\ \A d \in Dispatchers :
          /\ draft[d] \in Drafts[d]
          /\ placed[d] # NoPacket => placed[d].id \in Tasks
          /\ pc[d] \in {"built", "started", "launched"} =>
                fields[d] # NoPacket /\ told[d] # NoPacket /\ sha[d] # NoPacket
    /\ \A t \in Tasks : /\ inbox[t] \in Packets \cup {NoPacket}
                        /\ archive[t] \in Packets \cup {NoPacket}
                        /\ reg[t] # NoPacket => reg[t].att \in Dispatchers
    /\ readable \in BOOLEAN /\ brief \in Briefs /\ blind \subseteq Targets

AdmitInit ==
    /\ pc = [d \in Dispatchers |-> "draft"]
    /\ draft \in {f \in [Dispatchers -> Packets] :
                    \A d \in Dispatchers : f[d] \in Drafts[d] /\ Derived(f[d])}
    /\ entry = draft
    /\ pre = [d \in Dispatchers |-> NoPacket]
    /\ placed = [d \in Dispatchers |-> NoPacket]
    /\ inbox = [t \in Tasks |-> NoPacket] /\ archive = [t \in Tasks |-> NoPacket]
    /\ reg = [t \in Tasks |-> NoPacket]
    /\ readable = TRUE
    /\ fields = [d \in Dispatchers |-> NoPacket] /\ told = [d \in Dispatchers |-> NoPacket]
    /\ sha = [d \in Dispatchers |-> NoPacket] /\ role = [d \in Dispatchers |-> NoPacket]
    /\ ap = [d \in Dispatchers |-> NoPacket]
    /\ pinned = [d \in Dispatchers |-> NoPacket]
    /\ open = {}
    /\ brief \in {"open", "blind"} /\ blind \in SUBSET Targets
    /\ saw = [d \in Dispatchers |-> NoPacket]
    /\ packetEdits = 0 /\ world = 0 /\ cleanups = 0

-----------------------------------------------------------------------------
(* bin/send-task.sh up to publication.                                      *)

\* The overlap scan reads the registry without its lock and does not skip the task itself.
Overlaps(p) ==
    p.scope # {} /\ \E t \in Tasks : InFlight(t) /\ reg[t].scope \cap p.scope # {}

CheckScope(d) ==
    /\ Before(d, "draft")
    /\ Go(d, IF Overlaps(draft[d]) \/ (draft[d].scope # {} /\ ~readable) THEN "dead" ELSE "scoped")
    /\ UNCHANGED <<draftVars, inbox, archive, reg, pinned, buildVars, worldVars, bounds>>

\* evaluate_packet: one read, judged and hashed; a warning nobody acknowledged stops it too
Preflight(d) ==
    /\ Before(d, "scoped")
    /\ pre' = [pre EXCEPT ![d] = draft[d]]
    /\ \/ PreflightAllows(draft[d]) /\ Go(d, "allowed")
       \/ Go(d, "dead")
    /\ UNCHANGED <<draft, entry, placed, inbox, archive, reg, pinned, buildVars, worldVars, bounds>>

\* The digest is taken again before host admission, which holds the packet to it.
HostAdmit(d) ==
    /\ Before(d, "allowed")
    /\ Go(d, IF draft[d] = pre[d] THEN "admitted" ELSE "dead")
    /\ UNCHANGED <<draftVars, inbox, archive, reg, pinned, buildVars, worldVars, bounds>>

\* admitted_packet_bytes, then mv -f over whatever the inbox holds
Publish(d) ==
    /\ Before(d, "admitted")
    /\ IF draft[d] = pre[d]
       THEN /\ placed' = [placed EXCEPT ![d] = draft[d]]
            /\ inbox' = [inbox EXCEPT ![draft[d].id] = draft[d]]
            /\ Go(d, "published")
       ELSE Go(d, "dead") /\ UNCHANGED <<placed, inbox>>
    /\ UNCHANGED <<draft, entry, pre, archive, reg, pinned, buildVars, worldVars, bounds>>

-----------------------------------------------------------------------------
(* Registration, build and start.                                           *)

\* register_task, under the registry lock
Register(d) ==
    LET p == entry[d] IN LET t == p.id IN
    /\ Before(d, "published")
    /\ IF ~readable \/ (reg[t] # NoPacket /\ reg[t].identity # Identity(p))
       THEN Go(d, "dead") /\ UNCHANGED <<reg, pinned>>
       ELSE /\ reg' = IF reg[t] = NoPacket THEN [reg EXCEPT ![t] = Row(d, p)] ELSE reg
            /\ pinned' = IF reg[t] = NoPacket THEN [pinned EXCEPT ![d] = p.contract] ELSE pinned
            /\ Go(d, "registered")
    /\ UNCHANGED <<draftVars, inbox, archive, buildVars, worldVars, bounds>>

\* A dispatcher that gives up publishes a blocked completion its reconciliation settles when the
\* row is its own; die then cancels the task's row if that is still queued, whosever it is.
GiveUp(d, t) ==
    /\ Go(d, "dead")
    /\ reg' = IF ~readable \/ reg[t] = NoPacket THEN reg
              ELSE IF InFlight(t) /\ reg[t].att = d THEN [reg EXCEPT ![t].st = "blocked"]
              ELSE IF reg[t].st = "queued" THEN [reg EXCEPT ![t].st = "cancelled"]
              ELSE reg

\* require_registry_contract_pin, open when there is nothing to compare
PinAgrees(p, t) == ~readable \/ reg[t] = NoPacket \/ reg[t].pin = p.contract

\* build_context, first read: fields, registries and scope
BuildRead(d) ==
    LET t == placed[d].id IN
    /\ Before(d, "registered")
    /\ IF inbox[t] # NoPacket /\ BuildAccepts(inbox[t])
       THEN fields' = [fields EXCEPT ![d] = inbox[t]] /\ Go(d, "read") /\ UNCHANGED reg
       ELSE UNCHANGED fields /\ GiveUp(d, t)
    /\ UNCHANGED <<draftVars, inbox, archive, pinned, told, sha, ap, role, open, saw,
                   worldVars, bounds>>

BuildPin(d) ==
    LET t == placed[d].id IN
    /\ Before(d, "read")
    /\ IF PinAgrees(fields[d], t) /\ MemoryContract(fields[d])
       THEN /\ open' = IF ~readable \/ reg[t] = NoPacket THEN open \cup {d} ELSE open
            /\ ap' = [ap EXCEPT ![d] = BlindFloor(fields[d])]
            /\ saw' = [saw EXCEPT ![d] = [brief |-> brief, blind |-> blind]]
            /\ Go(d, "agreed") /\ UNCHANGED reg
       ELSE GiveUp(d, t) /\ UNCHANGED <<open, ap, saw>>
    /\ UNCHANGED <<draftVars, inbox, archive, pinned, fields, told, sha, role, worldVars, bounds>>

\* second read, of the whole text the prompt quotes; the role is hashed after it
BuildPrompt(d) ==
    LET t == placed[d].id IN
    /\ Before(d, "agreed")
    /\ IF inbox[t] # NoPacket /\ "oversize" \notin inbox[t].defects
       THEN /\ told' = [told EXCEPT ![d] = inbox[t]]
            /\ role' = [role EXCEPT ![d] = brief]
            /\ Go(d, "quoted") /\ UNCHANGED reg
       ELSE GiveUp(d, t) /\ UNCHANGED <<told, role>>
    /\ UNCHANGED <<draftVars, inbox, archive, pinned, fields, sha, ap, open, saw,
                   worldVars, bounds>>

\* registry_reconciliation_echo holds the row to this attempt; third read, for the digest
BuildSeal(d) ==
    LET t == placed[d].id IN
    /\ Before(d, "quoted")
    /\ IF inbox[t] # NoPacket /\ (~readable \/ reg[t] = NoPacket \/ reg[t].att = d)
       THEN sha' = [sha EXCEPT ![d] = inbox[t]] /\ Go(d, "built") /\ UNCHANGED reg
       ELSE GiveUp(d, t) /\ UNCHANGED sha
    /\ UNCHANGED <<draftVars, inbox, archive, pinned, fields, told, ap, role, open, saw,
                   worldVars, bounds>>

Start(d) ==
    LET t == placed[d].id IN
    /\ Before(d, "built")
    /\ IF readable /\ Owner(t, d) /\ reg[t].st = "queued"
       THEN reg' = [reg EXCEPT ![t].st = "running"] /\ Go(d, "started")
       ELSE GiveUp(d, t)
    /\ UNCHANGED <<draftVars, inbox, archive, pinned, buildVars, worldVars, bounds>>

-----------------------------------------------------------------------------
(* board-supervisor.sh.                                                     *)

\* The packet, its contract and the role must still be what the authority names.
Launchable(d) ==
    LET t == placed[d].id IN
    /\ inbox[t] # NoPacket /\ inbox[t] = sha[d] /\ inbox[t].contract = fields[d].contract
    /\ brief = role[d]

LaunchWorker(d) ==
    /\ Before(d, "started") /\ Launchable(d) /\ Go(d, "launched")
    /\ UNCHANGED <<draftVars, inbox, archive, reg, pinned, buildVars, worldVars, bounds>>

\* A refused or expired authority is settled as a blocked completion of the attempt.
Refuse(d) ==
    /\ Before(d, "started")
    /\ Go(d, "dead")
    /\ LET t == placed[d].id IN
       reg' = IF Owner(t, d) THEN [reg EXCEPT ![t].st = "blocked"] ELSE reg
    /\ UNCHANGED <<draftVars, inbox, archive, pinned, buildVars, worldVars, bounds>>

\* The worker's response is reconciled and the watcher archives the packet.
Settle(d) ==
    LET t == placed[d].id IN
    /\ Before(d, "launched") /\ Owner(t, d)
    /\ Go(d, "done")
    /\ \E st \in {"complete", "blocked", "review"} : reg' = [reg EXCEPT ![t].st = st]
    /\ \/ UNCHANGED <<inbox, archive>>
       \/ /\ inbox[t] # NoPacket
          /\ archive' = [archive EXCEPT ![t] = inbox[t]]
          /\ inbox' = [inbox EXCEPT ![t] = NoPacket]
    /\ UNCHANGED <<draftVars, pinned, buildVars, worldVars, bounds>>

\* cleanup_canary: one packet with the authority's digest, opted in, its attempt complete
Cleanable(d) ==
    LET t == placed[d].id IN
    /\ (inbox[t] = sha[d]) # (archive[t] = sha[d])
    /\ sha[d].autoclean /\ sha[d].canary
    /\ Owner(t, d) /\ reg[t].st = "complete"

CleanupCanary(d) ==
    LET t == placed[d].id IN
    /\ pc[d] \in {"launched", "done"} /\ cleanups < MaxCleanups /\ readable
    /\ Cleanable(d)
    /\ cleanups' = cleanups + 1
    /\ reg' = [reg EXCEPT ![t] = NoPacket]
    /\ \/ /\ inbox' = IF inbox[t] = sha[d] THEN [inbox EXCEPT ![t] = NoPacket] ELSE inbox
          /\ archive' = IF inbox[t] = sha[d] THEN archive ELSE [archive EXCEPT ![t] = NoPacket]
       \/ UNCHANGED <<inbox, archive>>   \* it dies between the registry write and the unlink
    /\ UNCHANGED <<pc, draftVars, pinned, buildVars, worldVars, packetEdits>>

-----------------------------------------------------------------------------
(* The surroundings.                                                        *)

\* A dispatcher is killed where no die handler runs.
Crash(d) ==
    /\ pc[d] \notin {"draft", "started", "launched", "done", "dead"}
    /\ Go(d, "dead")
    /\ UNCHANGED <<draftVars, inbox, archive, reg, pinned, buildVars, worldVars, bounds>>

EditDraft(d) ==
    /\ pc[d] \in {"scoped", "allowed", "admitted"} /\ packetEdits < MaxPacketEdits
    /\ \E p \in Drafts[d] : p # draft[d] /\ draft' = [draft EXCEPT ![d] = p]
    /\ packetEdits' = packetEdits + 1
    /\ UNCHANGED <<pc, entry, pre, placed, inbox, archive, reg, pinned, buildVars, worldVars, cleanups>>

EditInbox(t) ==
    /\ inbox[t] # NoPacket /\ packetEdits < MaxPacketEdits
    /\ \E p \in Edits : p.id = t /\ p # inbox[t] /\ inbox' = [inbox EXCEPT ![t] = p]
    /\ packetEdits' = packetEdits + 1
    /\ UNCHANGED <<pc, draftVars, archive, reg, pinned, buildVars, worldVars, cleanups>>

ChangeWorld ==
    /\ world < MaxWorld /\ world' = world + 1
    /\ \/ /\ \E b \in Briefs \ {brief} : brief' = b
          /\ UNCHANGED <<blind, readable>>
       \/ /\ \E s \in Targets \ blind : blind' = blind \cup {s}
          /\ UNCHANGED <<brief, readable>>
       \/ /\ readable' = ~readable
          /\ UNCHANGED <<brief, blind>>
    /\ UNCHANGED <<pc, draftVars, inbox, archive, reg, pinned, buildVars, bounds>>

AdmitNext ==
    \/ \E d \in Dispatchers :
          \/ CheckScope(d) \/ Preflight(d) \/ HostAdmit(d) \/ Publish(d) \/ Register(d)
          \/ BuildRead(d) \/ BuildPin(d) \/ BuildPrompt(d) \/ BuildSeal(d) \/ Start(d)
          \/ LaunchWorker(d) \/ Refuse(d) \/ Settle(d) \/ CleanupCanary(d)
          \/ Crash(d) \/ EditDraft(d)
    \/ \E t \in Tasks : EditInbox(t)
    \/ ChangeWorld

AdmitSpec == AdmitInit /\ [][AdmitNext]_admitVars

-----------------------------------------------------------------------------
(* Properties.                                                              *)

Launched(d) == pc[d] = "launched"

\* What send-task.sh publishes is what its preflight allowed, though the working copy may change
\* under it (board_host_admit, admitted_packet_bytes).
PublishedWasAllowed ==
    \A d \in Dispatchers : placed[d] # NoPacket => placed[d] = pre[d] /\ PreflightAllows(placed[d])

\* A launched attempt works under the contract that was registered for it, whatever was published
\* over its packet since, unless its build found no registry to compare with
\* (require_registry_contract_pin and the supervisor's contract hash).
LaunchedContractIsAdmitted ==
    \A d \in Dispatchers : Launched(d) /\ d \notin open =>
        /\ fields[d].contract = pinned[d]
        /\ sha[d].contract = pinned[d]

\* When the row of a launched attempt owes a different-family review, the contract the worker was
\* given says so, or the task is a terminal review that writes nothing
\* (_check_deliverable_review_agreement, is_terminal_review_task).
ReviewOwedIsTold ==
    \A d \in Dispatchers : Launched(d) /\ d \notin open /\ pre[d] = entry[d] =>
        LET row == reg[placed[d].id] IN
        row # NoPacket /\ row.att = d /\ row.owed =>
            fields[d].contract.required
            \/ (fields[d].contract.kind = "review" /\ row.scope = {})

\* The brief a role is launched with is one its memory aperture was floored under: a role that is
\* blind when its worker starts does not read memory about a target whose dossier was blind when
\* its authority was built (unless the brief changed while that was), and the floor never widens what the packet asked for
\* (enforce_blind_floor, the supervisor's canonical role hash).
LaunchesBlind ==
    \A d \in Dispatchers : pc[d] = "started" /\ pc'[d] = "launched" =>
       /\ brief # "open" /\ role[d] = saw[d].brief /\ fields[d].names \cap saw[d].blind # {}
             => ap[d] \notin ReadPermitting
       /\ fields[d].ap \notin ReadPermitting => ap[d] = fields[d].ap

\* A started attempt keeps its row until that row is settled: neither a re-dispatch nor a canary
\* cleanup takes it away (register_task, cleanup_canary).
UnsettledKeepsRow ==
    \A d \in Dispatchers : pc[d] \in {"started", "launched"} => Owner(placed[d].id, d)

=============================================================================
