--------------------------- MODULE OutputPromotion ---------------------------
(***************************************************************************)
(* The output bridge of dispatch_context_builder.py: what happens to the    *)
(* files a worker left in its disposable worktree.  prepare_worktree_outputs*)
(* captures and validates them all before anything is published;            *)
(* publish_prepared_worktree_outputs then writes the declared evidence, runs*)
(* the mode-exit verifier of a closing run, and writes the artifact and,    *)
(* last, the envelope the watcher reads.  Attempts of several tasks publish *)
(* into one repository, a worker's leftovers keep editing its tree, and the *)
(* launch may die between any two writes.                                   *)
(*                                                                         *)
(* Bytes are records: worker bytes carry a version and, in a response, the  *)
(* status it claims; envelopes are rebuilt from the launch authority, so    *)
(* they name the attempt; a stub names its task.  A bad file stands for one *)
(* that is empty, oversized, not UTF-8, a symlink or malformed.             *)
(***************************************************************************)
EXTENDS Naturals, Sequences, FiniteSets

CONSTANTS
    Launches,      \* attempts, each of which is one launch
    TaskOf,        \* the task of an attempt
    ResultOf,      \* task -> return_artifact
    OutboxOf,      \* task -> its outbox response path
    EvidenceOf,    \* task -> its declared evidence_outputs, in order
    Closing,       \* tasks whose evidence names their run's manifest
    Manifest,      \* that manifest
    GoodManifests, \* manifest versions the verifier passes
    CodeScoped,    \* tasks with a write scope beyond the bridge's own paths
    StrayLanes,    \* tasks on the lane whose cwd is not the worktree root
    Versions,
    Claims,        \* statuses a response may claim; "odd" is not a recognized spelling
    Broken,        \* whether a worker may leave out or break a declared file
    BaseDiag,      \* what the health check says of the admitted merge base
    Diags,
    MaxLeftovers,  \* bound: writes by a worker's leftovers
    MaxForeign,    \* bound: files somebody else puts in the repository
    NoOutput

VARIABLES
    tree,     \* attempt -> path -> the worker's file
    stray,    \* attempt -> path -> the file under the lane's own cwd
    cand,     \* attempt -> diagnostics its candidate tree has
    main,     \* path -> bytes in the repository
    prep,     \* attempt -> PreparedWorktreeOutputs
    outputPc, \* attempt -> step of its promotion
    at,       \* attempt -> next evidence output
    report,   \* the verifier's record of the closing run
    why,      \* attempt -> what blocked it
    leftovers, foreign

outputVars == <<tree, stray, cand, main, prep, outputPc, at, report, why, leftovers, foreign>>

OutputTasks == {TaskOf[a] : a \in Launches}
Evidence(t) == {EvidenceOf[t][i] : i \in DOMAIN EvidenceOf[t]}
Declared(t) == {ResultOf[t], OutboxOf[t]} \cup Evidence(t)
Paths == UNION {Declared(t) : t \in OutputTasks}
Aliased(t) == ResultOf[t] = OutboxOf[t]

Absent == [kind |-> "absent", by |-> NoOutput, v |-> 0, st |-> "none"]
Bad == [kind |-> "bad", by |-> NoOutput, v |-> 0, st |-> "none"]
Foreign == [kind |-> "foreign", by |-> NoOutput, v |-> 0, st |-> "none"]
Raw(v, st) == [kind |-> "raw", by |-> NoOutput, v |-> v, st |-> st]
Stub(t, reason) == [kind |-> "stub", by |-> t, v |-> 0, st |-> reason]
Envelope(a, st, v) == [kind |-> "envelope", by |-> a, v |-> v, st |-> st]

\* What a blocked launch is blocked over; the stub carries the reason.
Reasons == {"none", "outputs", "destination", "health", "status", "integration", "verifier",
            "died"}
Statuses == {"complete", "needs_review", "needs_human", "blocked", "odd", "none"}
Bytes == [kind : {"absent", "bad", "foreign", "raw", "envelope"},
          by : Launches \cup {NoOutput}, v : Versions \cup {0}, st : Statuses]
         \cup [kind : {"stub"}, by : OutputTasks, v : {0}, st : Reasons]
HealthVerdicts == {"skipped", "passed", "fail_open", "inherited_failure", "refused"}
PreparedWorktreeOutputs ==
    [result : Bytes, envelope : Bytes, status : Statuses, recognized : BOOLEAN,
     evidence : Seq(Bytes), health : HealthVerdicts]

\* The declared evidence of a task is distinct files, none of them its artifact or its response
\* (packet_evidence_outputs, prepare_worktree_outputs).
PromotionAssumption ==
    /\ Claims \subseteq Statuses \ {"none"}
    /\ BaseDiag \subseteq Diags
    /\ \A t \in Closing : \E i \in DOMAIN EvidenceOf[t] : EvidenceOf[t][i] = Manifest
    /\ \A t \in OutputTasks :
          /\ EvidenceOf[t] \in Seq(Paths)
          /\ \A i, j \in DOMAIN EvidenceOf[t] : EvidenceOf[t][i] = EvidenceOf[t][j] => i = j
          /\ {ResultOf[t], OutboxOf[t]} \cap Evidence(t) = {}
    /\ NoOutput \notin PreparedWorktreeOutputs

\* No other task declares the response that an artifact is replaced by.
OutboxIsOwn ==
    \A t, u \in OutputTasks : t # u /\ Aliased(u) => OutboxOf[u] \notin Declared(t)

PromotionSteps == {"idle", "running", "exited", "prepared", "evidence", "verify", "report",
                   "artifact", "envelope", "published", "blocked", "blockenv", "ended"}

\* The outputs of the launch are captured and may be on their way.
Prepared == {"prepared", "evidence", "verify", "report", "artifact", "envelope", "published"}

PromotionTypeOK ==
    /\ \A a \in Launches, p \in Paths : /\ tree[a][p].kind \in {"absent", "bad", "raw"}
                                        /\ stray[a][p].kind \in {"absent", "raw"}
    /\ cand \in [Launches -> SUBSET Diags]
    /\ \A p \in Paths : main[p].kind \in {"absent", "foreign", "raw", "stub", "envelope"}
    /\ outputPc \in [Launches -> PromotionSteps]
    /\ \A a \in Launches : outputPc[a] \in Prepared => prep[a] # NoOutput
    /\ \A a \in Launches : at[a] \in 1..(Len(EvidenceOf[TaskOf[a]]) + 1)

OutputInit ==
    /\ tree = [a \in Launches |-> [p \in Paths |-> Absent]]
    /\ stray = [a \in Launches |-> [p \in Paths |-> Absent]]
    /\ cand = [a \in Launches |-> BaseDiag]
    /\ main = [p \in Paths |-> Absent]
    /\ prep = [a \in Launches |-> NoOutput]
    /\ outputPc = [a \in Launches |-> "idle"]
    /\ at = [a \in Launches |-> 1]
    /\ report = "none"
    /\ why = [a \in Launches |-> "none"]
    /\ leftovers = 0 /\ foreign = 0

Goes(a, from, to) == outputPc[a] = from /\ outputPc' = [outputPc EXCEPT ![a] = to]

-----------------------------------------------------------------------------
(* The worker, which may outlive the capture of its files.                  *)

\* An attempt starts when every other one of its task has ended without a completion.
StartLaunch(a) ==
    /\ Goes(a, "idle", "running")
    /\ \A b \in Launches \ {a} : TaskOf[b] = TaskOf[a] => outputPc[b] \in {"idle", "ended"}
    /\ UNCHANGED <<tree, stray, cand, main, prep, at, report, why, leftovers, foreign>>

Written(t, p) ==
    {Raw(v, st) : v \in Versions, st \in IF p = OutboxOf[t] THEN Claims ELSE {"none"}}

Left(t, p) == Written(t, p) \cup (IF Broken THEN {Absent, Bad} ELSE {})

\* What a finished worker leaves, at the declared paths or below its lane's own cwd.
Work(a) ==
    LET t == TaskOf[a] IN
    /\ Goes(a, "running", "exited")
    /\ \E f \in [Declared(t) -> UNION {Left(t, p) : p \in Declared(t)}] :
          /\ \A p \in Declared(t) : f[p] \in Left(t, p)
          /\ tree' = [tree EXCEPT ![a] = [p \in Paths |-> IF p \in Declared(t) THEN f[p] ELSE @[p]]]
    /\ \/ UNCHANGED stray
       \/ /\ t \in StrayLanes
          /\ \E p \in Declared(t) : \E c \in Written(t, p) : stray' = [stray EXCEPT ![a][p] = c]
    /\ IF t \in CodeScoped THEN \E d \in SUBSET Diags : cand' = [cand EXCEPT ![a] = d]
                           ELSE UNCHANGED cand
    /\ UNCHANGED <<main, prep, at, report, why, leftovers, foreign>>

\* A process the worker left behind goes on writing after its files were captured.
EditLeftover(a) ==
    /\ outputPc[a] \in {"prepared", "evidence", "verify", "report", "artifact"}
    /\ leftovers < MaxLeftovers /\ leftovers' = leftovers + 1
    /\ \E p \in Declared(TaskOf[a]) : \E c \in Left(TaskOf[a], p) :
          tree' = [tree EXCEPT ![a][p] = c]
    /\ UNCHANGED <<stray, cand, main, prep, outputPc, at, report, why, foreign>>

-----------------------------------------------------------------------------
(* prepare_worktree_outputs.                                                *)

\* reclaim_lane_cwd_outputs: only an absent declared output is filled from the lane's cwd
Reclaimed(a) ==
    [p \in Paths |-> IF TaskOf[a] \in StrayLanes /\ p \in Declared(TaskOf[a])
                        /\ tree[a][p] = Absent THEN stray[a][p] ELSE tree[a][p]]

CoerceStatus(c) == IF c = "odd" THEN "blocked" ELSE c

\* Mutant: any task's stub may be overwritten, not only this one's.
ReclaimableAnyStub(existing, t, exact) == existing.kind = "stub" \/ existing = exact

\* _is_reclaimable_destination: this task's own stub, whatever its reason, or the exact bytes
\* of this completion
Reclaimable(existing, t, exact) ==
    \/ existing.kind = "stub" /\ existing.by = t
    \/ existing = exact

\* _validate_destination: absent, already these bytes, or reclaimable
Free(p, data, t, exact) == main[p] \in {Absent, data} \/ Reclaimable(main[p], t, exact)
FreeExact(p, data) == main[p] \in {Absent, data}

\* The diagnostics of one run of the health check, as printed for the tree at root.
Lines(root, texts) == {[root |-> root, text |-> x] : x \in texts}

HealthFailureLines(lines) == {l.text : l \in lines}

\* _verify_candidate_tree_health: only a failure the candidate adds is refused, and one
\* that cannot be compared with the base is let through with a warning
Health(a, comparable) ==
    IF TaskOf[a] \notin CodeScoped THEN "skipped"
    ELSE IF cand[a] = {} THEN "passed"
    ELSE IF ~comparable THEN "fail_open"
    ELSE IF HealthFailureLines(Lines("candidate", cand[a]))
               \subseteq HealthFailureLines(Lines("base", BaseDiag)) THEN "inherited_failure"
    ELSE "refused"

\* An artifact without a response is kept, but it is no completion claim.
Synthesized(t, files) == ~Aliased(t) /\ files[OutboxOf[t]] = Absent

PreparedOutputs(a, files, q, health) ==
    LET t == TaskOf[a]
        response == files[OutboxOf[t]]
        status == IF Synthesized(t, files) THEN "blocked" ELSE CoerceStatus(response.st)
    IN [result |-> files[ResultOf[t]],
        envelope |-> Envelope(a, IF q THEN "needs_review" ELSE status, response.v),
        status |-> status,
        recognized |-> ~Synthesized(t, files) /\ response.st # "odd",
        evidence |-> [i \in DOMAIN EvidenceOf[t] |-> files[EvidenceOf[t][i]]],
        health |-> health]

Readable(t, files) ==
    /\ files[ResultOf[t]].kind = "raw"
    /\ Synthesized(t, files) \/ files[OutboxOf[t]].kind = "raw"
    /\ \A p \in Evidence(t) : files[p].kind = "raw"

DestinationsFree(t, p) ==
    /\ IF Aliased(t) THEN Free(OutboxOf[t], p.envelope, t, p.result)
       ELSE Free(ResultOf[t], p.result, t, p.result) /\ FreeExact(OutboxOf[t], p.envelope)
    /\ \A i \in DOMAIN EvidenceOf[t] : FreeExact(EvidenceOf[t][i], p.evidence[i])

Block(a, reason) ==
    /\ outputPc' = [outputPc EXCEPT ![a] = "blocked"]
    /\ why' = [why EXCEPT ![a] = reason]

\* The status an attempt recovered after a transport failure may be quarantined with.
Quarantinable(status) == status \notin {"blocked", "needs_human"}

\* q: the lane failed in transport and its outputs are recovered onto the review hold.
Prepare(a, q, comparable) ==
    LET t == TaskOf[a]
        files == Reclaimed(a)
        p == PreparedOutputs(a, files, q, Health(a, comparable))
    IN /\ outputPc[a] = "exited"
       /\ tree' = [tree EXCEPT ![a] = files]
       /\ \/ /\ ~Readable(t, files) /\ Block(a, "outputs") /\ UNCHANGED prep
          \/ /\ Readable(t, files) /\ ~DestinationsFree(t, p)
             /\ Block(a, "destination") /\ UNCHANGED prep
          \/ /\ Readable(t, files) /\ DestinationsFree(t, p) /\ p.health = "refused"
             /\ Block(a, "health") /\ UNCHANGED prep
          \/ /\ Readable(t, files) /\ DestinationsFree(t, p) /\ p.health # "refused"
             /\ \/ q /\ ~Quarantinable(p.status) /\ Block(a, "status") /\ UNCHANGED prep
                \/ /\ q => Quarantinable(p.status)
                   /\ prep' = [prep EXCEPT ![a] = p]
                   /\ outputPc' = [outputPc EXCEPT ![a] = IF q THEN "evidence" ELSE "prepared"]
                   /\ UNCHANGED why
       /\ UNCHANGED <<stray, cand, main, at, report, leftovers, foreign>>

\* The code residue is integrated, preserved unintegrated, or refused (Worktrees).
Integrate(a) ==
    /\ outputPc[a] = "prepared"
    /\ \/ outputPc' = [outputPc EXCEPT ![a] = "evidence"] /\ UNCHANGED why
       \/ /\ prep[a].recognized /\ prep[a].status \in {"complete", "needs_review"}
          /\ Block(a, "integration")
    /\ UNCHANGED <<tree, stray, cand, main, prep, at, report, leftovers, foreign>>

-----------------------------------------------------------------------------
(* publish_prepared_worktree_outputs.                                       *)

\* _atomic_publish: no-replace rename, or replacement of a reclaimable file
PublishFile(a, ok, p, data, next) ==
    \/ /\ ok /\ main' = [main EXCEPT ![p] = data]
       /\ outputPc' = [outputPc EXCEPT ![a] = next] /\ UNCHANGED why
    \/ ~ok /\ UNCHANGED main /\ Block(a, "destination")

PublishEvidence(a) ==
    LET t == TaskOf[a]
        i == at[a]
    IN /\ outputPc[a] = "evidence" /\ i \in DOMAIN EvidenceOf[t]
       /\ LET data == prep[a].evidence[i] IN
             PublishFile(a, FreeExact(EvidenceOf[t][i], data), EvidenceOf[t][i], data, "evidence")
       /\ at' = [at EXCEPT ![a] = i + 1]
       /\ UNCHANGED <<tree, stray, cand, prep, report, leftovers, foreign>>

\* _project_mode_exit_manifest: the authenticated declaration, not the worker, asks for it
Gated(a) == TaskOf[a] \in Closing

EvidenceDone(a) ==
    /\ outputPc[a] = "evidence" /\ at[a] \notin DOMAIN EvidenceOf[TaskOf[a]]
    /\ outputPc' = [outputPc EXCEPT ![a] = IF Gated(a) THEN "verify" ELSE "artifact"]
    /\ UNCHANGED <<tree, stray, cand, main, prep, at, report, why, leftovers, foreign>>

\* bin/vibecoding-check.sh reads the published manifest and replaces the run's record; it
\* may also fail to run, or die without writing one.
Verify(a) ==
    /\ outputPc[a] = "verify"
    /\ \/ /\ main[Manifest].v \in GoodManifests /\ report' = "PASS"
          /\ outputPc' = [outputPc EXCEPT ![a] = "report"] /\ UNCHANGED why
       \/ main[Manifest].v \notin GoodManifests /\ report' = "FAIL" /\ Block(a, "verifier")
       \/ UNCHANGED report /\ Block(a, "verifier")
    /\ UNCHANGED <<tree, stray, cand, main, prep, at, leftovers, foreign>>

\* The record is read after the verifier exited, and must say what its exit code said.
ReadReport(a) ==
    /\ outputPc[a] = "report"
    /\ \/ report = "PASS" /\ outputPc' = [outputPc EXCEPT ![a] = "artifact"] /\ UNCHANGED why
       \/ report # "PASS" /\ Block(a, "verifier")
    /\ UNCHANGED <<tree, stray, cand, main, prep, at, report, leftovers, foreign>>

PublishArtifact(a) ==
    LET t == TaskOf[a] IN
    /\ outputPc[a] = "artifact"
    /\ IF Aliased(t)
       THEN UNCHANGED <<main, why>> /\ outputPc' = [outputPc EXCEPT ![a] = "envelope"]
       ELSE PublishFile(a, Free(ResultOf[t], prep[a].result, t, prep[a].result),
                    ResultOf[t], prep[a].result, "envelope")
    /\ UNCHANGED <<tree, stray, cand, prep, at, report, leftovers, foreign>>

PublishEnvelope(a) ==
    LET t == TaskOf[a]
        data == prep[a].envelope
        ok == IF Aliased(t) THEN Free(OutboxOf[t], data, t, prep[a].result)
              ELSE FreeExact(OutboxOf[t], data)
    IN /\ outputPc[a] = "envelope"
       /\ PublishFile(a, ok, OutboxOf[t], data, "published")
       /\ UNCHANGED <<tree, stray, cand, prep, at, report, leftovers, foreign>>

-----------------------------------------------------------------------------
(* publish_blocked_completion, by the supervisor shell of a blocked launch. *)

PublishBlockedStub(a) ==
    LET t == TaskOf[a]
        stub == Stub(t, why[a])
    IN
    /\ outputPc[a] = "blocked"
    /\ \/ Aliased(t) /\ UNCHANGED main /\ outputPc' = [outputPc EXCEPT ![a] = "blockenv"]
       \/ /\ ~Aliased(t) /\ FreeExact(ResultOf[t], stub)
          /\ main' = [main EXCEPT ![ResultOf[t]] = stub]
          /\ outputPc' = [outputPc EXCEPT ![a] = "blockenv"]
       \/ /\ ~Aliased(t) /\ ~FreeExact(ResultOf[t], stub)
          /\ UNCHANGED main /\ outputPc' = [outputPc EXCEPT ![a] = "ended"]
    /\ UNCHANGED <<tree, stray, cand, prep, at, report, why, leftovers, foreign>>

PublishBlockedEnvelope(a) ==
    LET p == OutboxOf[TaskOf[a]]
        data == Envelope(a, "blocked", 0)
    IN /\ Goes(a, "blockenv", "ended")
       /\ main' = IF FreeExact(p, data) THEN [main EXCEPT ![p] = data] ELSE main
       /\ UNCHANGED <<tree, stray, cand, prep, at, report, why, leftovers, foreign>>

-----------------------------------------------------------------------------
(* The rest of the system.                                                  *)

\* The launch dies: its supervisor shell goes on to block it, or dies with it.
Die(a) ==
    /\ outputPc[a] \notin {"idle", "published", "blocked", "blockenv", "ended"}
    /\ \/ Block(a, "died")
       \/ outputPc' = [outputPc EXCEPT ![a] = "ended"] /\ UNCHANGED why
    /\ UNCHANGED <<tree, stray, cand, main, prep, at, report, leftovers, foreign>>

\* A settled response is moved out of the outbox, by hand: no code of the repository moves one.
Archive(t) ==
    /\ main[OutboxOf[t]].kind = "envelope"
    /\ main' = [main EXCEPT ![OutboxOf[t]] = Absent]
    /\ UNCHANGED <<tree, stray, cand, prep, outputPc, at, report, why, leftovers, foreign>>

\* Somebody else creates a file where an output is declared.
PutForeign ==
    /\ foreign < MaxForeign /\ foreign' = foreign + 1
    /\ \E p \in Paths : main[p] = Absent /\ main' = [main EXCEPT ![p] = Foreign]
    /\ UNCHANGED <<tree, stray, cand, prep, outputPc, at, report, why, leftovers>>

OutputNext ==
    \/ \E a \in Launches :
          \/ StartLaunch(a) \/ Work(a) \/ EditLeftover(a) \/ Integrate(a)
          \/ PublishEvidence(a) \/ EvidenceDone(a) \/ Verify(a) \/ ReadReport(a) \/ PublishArtifact(a) \/ PublishEnvelope(a)
          \/ PublishBlockedStub(a) \/ PublishBlockedEnvelope(a) \/ Die(a)
          \/ \E q, comparable \in BOOLEAN : Prepare(a, q, comparable)
    \/ \E t \in OutputTasks : Archive(t)
    \/ PutForeign

OutputSpec == OutputInit /\ [][OutputNext]_outputVars

-----------------------------------------------------------------------------
(* Properties.                                                              *)

\* Nothing a promotion finds in the repository is overwritten except this task's own blocked
\* stub (or, in the aliased shape, the raw copy of the same completion): _atomic_publish never
\* costs another task, another attempt or the operator a file.
NoClobber ==
    \A p \in Paths : main[p] # Absent /\ main'[p] # main[p] =>
       \/ main'[p] = Absent /\ main[p].kind = "envelope"
       \/ \E a \in Launches : /\ outputPc[a] \in {"artifact", "envelope"}
                              /\ outputPc'[a] # outputPc[a]
                              /\ \/ main[p].kind = "stub" /\ main[p].by = TaskOf[a]
                                 \/ Aliased(TaskOf[a]) /\ main[p] = prep[a].result

\* The watcher-visible envelope is the commit marker: while a completion's envelope lies in the
\* outbox, its artifact and every declared evidence file are in the repository, with the bytes
\* that were validated before integration, whatever the worker's leftovers did since.
EnvelopeCommitsAll ==
    \A a \in Launches :
        LET t == TaskOf[a] IN
        (outputPc[a] = "published" /\ main[OutboxOf[t]] = prep[a].envelope) =>
            /\ Aliased(t) \/ main[ResultOf[t]] = prep[a].result
            /\ \A i \in DOMAIN EvidenceOf[t] : main[EvidenceOf[t][i]] = prep[a].evidence[i]

\* A published completion was claimed by the worker in a response the bridge read: an artifact
\* without a response, an unknown status or a transport failure never becomes one.
CompletionIsClaimed ==
    \A a \in Launches :
       (prep'[a] # prep[a] /\ prep'[a].envelope.st = "complete") =>
           (tree[a][OutboxOf[TaskOf[a]]].st = "complete"
            \/ (/\ tree[a][OutboxOf[TaskOf[a]]] = Absent
                /\ stray[a][OutboxOf[TaskOf[a]]].st = "complete"))

\* A run is not closed over a manifest the verifier would refuse: while the response of a
\* closing task is in the outbox, the manifest in the repository passes, also when another
\* task published that manifest first or another verifier rewrote the shared record.
ClosedRunIsVerified ==
    \A a \in Launches :
        (TaskOf[a] \in Closing /\ outputPc[a] = "published" /\ main[OutboxOf[TaskOf[a]]].by = a)
            => main[Manifest].v \in GoodManifests

\* The health gate judges the candidate, not the base: an attempt is refused for health only
\* over a diagnostic the merge base does not have, and such a diagnostic is never waved
\* through as inherited.
HealthJudgesCandidate ==
    \A a \in Launches :
       /\ (why'[a] = "health" /\ why[a] # "health") => ~(cand[a] \subseteq BaseDiag)
       /\ (prep'[a] # prep[a] /\ prep'[a].health \in {"passed", "inherited_failure"})
             => cand[a] \subseteq BaseDiag

\* Validation precedes publication: an attempt blocked over a destination after it published
\* something lost that destination to a writer that came after its prevalidation.
LateRefusalIsARace ==
    \A a \in Launches :
        (why[a] = "destination" /\ prep[a] # NoOutput) =>
            \/ foreign > 0
            \/ \E b \in Launches \ {a} : outputPc[b] # "idle" /\ TaskOf[b] # TaskOf[a]
=============================================================================
