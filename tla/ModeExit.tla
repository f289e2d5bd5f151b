------------------------------ MODULE ModeExit ------------------------------
(***************************************************************************)
(* The mode-exit verifier (src/scripts/python/vibecoding_check.py).        *)
(*                                                                         *)
(* A Lead writes a run manifest that claims hashes of the plan and of the  *)
(* artifacts and names, for each review, verification record, gate and     *)
(* memory receipt, the bytes it is about.  The verifier loads the manifest *)
(* once and then checks it file by file, while plan, artifacts, evidence,  *)
(* approval, packet copies and registry go on changing.                    *)
(*                                                                         *)
(* Bytes are versions and <<file, version>> is their hash.  The Lead edits *)
(* the manifest only while no verifier runs: a verifier never reads it     *)
(* again, so a later edit is as good as one after the run.                 *)
(***************************************************************************)
EXTENDS Naturals, Sequences, SequencesExt, FiniteSets

CONSTANTS
  Modes,         \* what the manifest may say its mode is
  ResultType,    \* pinned at dispatch
  Contracts,     \* contract objects a packet may carry
  Author, Families,
  Kinds,         \* required_verification_kinds of the contract
  Cited,         \* kinds whose verification record names an evidence file
  Gates,         \* expected_gates of the contract
  Targets, Allowed,   \* targets as path segments, and the scope's allowlist
  Findings,      \* what a Lead may report: no finding, or one
  Remade,        \* evidence the Lead makes again
  Missing,       \* evidence the first manifest lacks
  WorldValues,   \* world field -> values
  Declared,      \* manifest field -> values
  Faults,        \* what changes: "bytes", "log", "packet", "world"
  MaxVersion,    \* versions of one file
  MaxRuns,       \* how often the verifier is run
  MaxTouches,    \* evidence files rewritten after they were hashed
  MaxChanges,    \* how often an answer of the world changes
  None

ModeExitAssumption ==
  Author \in Families /\ MaxVersion \in Nat \ {0}

VARIABLES
  disk,    \* file -> version of the bytes on disk: plan, bundle
  man,     \* the manifest
  intact,  \* item -> its evidence file has the hash the manifest recorded
  world,   \* approval, tree, tests, base ref, citations: what checks look up
  row,     \* contract pinned in the active registry, None once archived
  copies,  \* inbox/active/archive -> contract in the packet there, or None
  ver,     \* the verifier: what it has left to do and what it found
  report,  \* verdict in _state/vibecoding-check/<run>.md
  seen     \* history: hashes, pins and answers there were while it ran

vars == <<disk, man, intact, world, row, copies, ver, report, seen>>

Reviews == {"plan_review", "deliverable_review"}
LogItems == {"no_self_inflicted", "negative_results"}
RecordKinds == Kinds \cup {"negative_control"}
Items == Reviews \cup RecordKinds \cup Gates \cup LogItems
           \cup {"receipt", "recall", "scope", "submission", "reproduction"}
Places == {"inbox", "active", "archive"}

Hash(f) == <<f, disk[f]>>
Claim(f) == <<f, man[f]>>

(***************************************************************************)
(* The checks.  Each gives the tier it fails with: 0 passes, 2 asks for a  *)
(* retry, 3 stops for the operator.                                        *)
(***************************************************************************)

Hard(ok) == IF ok THEN 0 ELSE 3
Soft(ok) == IF ok THEN 0 ELSE 2

\* The bytes on disk are the ones the manifest claims.
Current == Hash("plan") = Claim("plan") /\ Hash("bundle") = Claim("bundle")

\* An item is present, about subject, and its evidence file is unchanged.
Holds(i, subject) == man.bound[i] = subject /\ intact[i]

Profile == Hard(man.mode \in {"project", "bounty"})

Approval == Hard(world.approval \in {"approve", "override", "deletion"})

\* A dead link is an advisory; missing files and refs are not.
Citations == Hard(world.citations # "missing")

NoTodo == CASE world.todo = "unsafe" -> 3 [] world.todo = "marked" -> 2
            [] OTHER -> 0

\* S0 to S7 in order, each with evidence and its actions.
PhaseTags == Hard(man.phases)

\* A hunt that found nothing owes a negative control instead of a proof.
RequiredKinds ==
  IF man.mode = "bounty" /\ man.findings = {}
  THEN {IF k = "poc_reproduction" THEN "negative_control" ELSE k : k \in Kinds}
  ELSE Kinds

\* Every record, required or not, is about the plan or the bundle as it is;
\* one that names an evidence file must match it.
Coverage ==
  Hard(/\ \A k \in RequiredKinds : man.bound[k] # None
       /\ Current
       /\ \A k \in RecordKinds : man.bound[k] # None =>
            man.bound[k] \in {Hash("plan"), Hash("bundle")} /\ (k \in Cited => intact[k]))

\* Bounty pins recall optional; the record is always owed.
Memory ==
  Hard(/\ Current
       /\ man.bound["recall"] = None => man.mode = "bounty"
       /\ man.bound["receipt"] = Hash("bundle")
       /\ man.mode = "bounty" => man.restricted)

\* Both reviews, whatever the contract's policies say, by another family, of
\* the current bytes, echoed by the review file.
ReviewBindings ==
  Hard(/\ Current
       /\ Holds("plan_review", Hash("plan"))
       /\ Holds("deliverable_review", Hash("bundle"))
       /\ \A r \in Reviews : man.reviewer[r] # Author)

GateBindings ==
  Hard(Current /\ \A g \in Gates : Holds(g, Hash("bundle")))

\* Actions are flagged, hashed, and each belongs to one phase.
ActionLog ==
  Hard(/\ man.phased = man.log
       /\ man.ops # "flagged"
       /\ man.mode = "bounty" => man.targets # {})

\* The last iteration ends at the claimed hashes.
IterationChain ==
  Hard(man.iterated # None =>
         man.iterated = <<Claim("plan"), Claim("bundle")>>)

ExternalDelivery ==
  Hard(man.local /\ (man.mode = "bounty" => ~man.submitted))

\* Project.
\* A command that may not be run is not one that failed.
TestsPass == CASE world.tests = "rejected" -> 3 [] world.tests = "fail" -> 2
               [] OTHER -> 0
GitClean == Soft(man.allow_dirty \/ ~world.dirty)
\* A base ref that is no ref stops, one git cannot resolve is tried again.
NewCodeHasTests ==
  CASE world.base = "bad" -> 3
    [] world.base = "unresolved" -> 2
    [] OTHER -> Soft(world.added = 0 \/
                     world.tested >= IF world.added \div 2 > 1
                                     THEN world.added \div 2 ELSE 1)
NoDestructiveOps == Hard(man.ops # "command")

\* Bounty.  A target is allowed by an entry whose path it continues.
TargetAllowed(t) == \E a \in Allowed : IsPrefix(a, t)

\* Actions and negative results name logged targets, a finding its own.
ScopeAndTargets ==
  Hard(/\ intact["scope"] /\ man.bound["scope"] # None
       /\ \A t \in man.targets \cup {f.target : f \in man.findings} : TargetAllowed(t))

NoSelfInflicted == Hard(Holds("no_self_inflicted", <<"log", man.log>>))

\* Killed hunts and dry runs owe negative evidence of the current log; a
\* finding owes a reproduction by another family in another run, of the
\* artifact the finding names and with the evidence it recorded.
ResultEvidence ==
  IF man.findings = {}
  THEN Hard(Holds("negative_results", <<"log", man.log>>))
  ELSE IF ResultType = "dry_run" \/ \E f \in man.findings :
            f.author # Author \/ f.reproducer = f.author \/ f.same_run
       THEN 3
       ELSE IF \E f \in man.findings : ~f.reproduced THEN 2
       ELSE IF ~intact["reproduction"] \/ \E f \in man.findings :
                 f.subject # f.artifact THEN 3
       ELSE Soft(\A f \in man.findings : f.scored)

NoSubmit == Hard(~man.submitted /\ man.bound["submission"] # None
                 /\ intact["submission"])

Tier(c) ==
  CASE c = "profile" -> Profile          [] c = "approval" -> Approval
    [] c = "citations" -> Citations      [] c = "todo" -> NoTodo
    [] c = "phases" -> PhaseTags         [] c = "coverage" -> Coverage
    [] c = "memory" -> Memory            [] c = "reviews" -> ReviewBindings
    [] c = "gates" -> GateBindings       [] c = "actions" -> ActionLog
    [] c = "iterations" -> IterationChain
    [] c = "delivery" -> ExternalDelivery
    [] c = "tests" -> TestsPass          [] c = "tree" -> GitClean
    [] c = "new_code" -> NewCodeHasTests [] c = "ops" -> NoDestructiveOps
    [] c = "scope" -> ScopeAndTargets    [] c = "self" -> NoSelfInflicted
    [] c = "result" -> ResultEvidence    [] c = "submit" -> NoSubmit

Universal == <<"approval", "citations", "todo", "phases">>
Common == <<"coverage", "memory", "reviews", "gates", "actions", "iterations",
            "delivery">>
ModeChecks == IF man.mode = "project" THEN <<"tests", "tree", "new_code", "ops">>
              ELSE <<"scope", "self", "result", "submit">>

\* What is left to run once the contract was judged.
Rest(ok) == Universal \o (IF ok THEN Common \o ModeChecks ELSE <<>>)

(***************************************************************************)
(* The verifier.                                                           *)
(***************************************************************************)

Idle == [on |-> FALSE, todo |-> <<>>, tier |-> 0, pin |-> None, paths |-> {},
         exit |-> None, runs |-> 0]
Fresh == [Idle EXCEPT !.runs = ver.runs + 1]

\* What the operator alone may settle, and the answers that stop for him.
OperatorFields == {"approval", "citations", "todo", "tests", "base"}
Refused == {<<"approval", "malformed">>, <<"citations", "missing">>, <<"todo", "unsafe">>,
            <<"tests", "rejected">>, <<"base", "bad">>}

\* main: the manifest is loaded once.
Start ==
  /\ ~ver.on /\ ver.runs < MaxRuns /\ world.manifest = "written"
  /\ ver' = [Fresh EXCEPT !.on = TRUE,
                          !.todo = <<"profile", "row", "glob", "echo">>]
  /\ seen' = {Hash("plan"), Hash("bundle"), <<"pin", row>>}
               \cup {<<f, world[f]>> : f \in OperatorFields}
  /\ UNCHANGED <<disk, man, intact, world, row, copies, report>>

\* A manifest that is missing, torn or about another run: no report is written.
Reject ==
  /\ ~ver.on /\ ver.runs < MaxRuns /\ world.manifest # "written"
  /\ ver' = [Fresh EXCEPT !.exit = 3]
  /\ UNCHANGED <<disk, man, intact, world, row, copies, report, seen>>

\* Mutant: a contract that cannot be verified is skipped, not failed.
ContractSkipped == [ver EXCEPT !.todo = Rest(FALSE)]

\* Contract integrity is one check of several reads; once it fails only the
\* universal checks are left.
ContractFails == [ver EXCEPT !.tier = 3, !.todo = Rest(FALSE)]

\* One packet copy: gone since the glob, or another contract.
Echo(q) ==
  IF copies[q] # ver.pin THEN ContractFails
  ELSE [ver EXCEPT !.paths = @ \ {q}]

\* All copies agree with the pin; so must the manifest.
ManifestEcho ==
  IF man.contract # ver.pin THEN ContractFails
  ELSE [ver EXCEPT !.todo = Rest(TRUE)]

ContractStep ==
  LET at == Head(ver.todo)
  IN  \/ /\ at = "profile"
         /\ ver' = IF Profile = 0 THEN [ver EXCEPT !.todo = Tail(@)]
                   ELSE ContractFails
      \/ /\ at = "row"
         /\ ver' = IF row = None THEN ContractFails
                   ELSE [ver EXCEPT !.pin = row, !.todo = Tail(@)]
      \/ /\ at = "glob"
         /\ LET found == {q \in Places : copies[q] # None}
            IN  ver' = IF found = {} THEN ContractFails
                       ELSE [ver EXCEPT !.paths = found, !.todo = Tail(@)]
      \/ /\ at = "echo" /\ \E q \in ver.paths : ver' = Echo(q)
      \/ /\ at = "echo" /\ ver.paths = {} /\ ver' = ManifestEcho

Contract ==
  /\ ver.on /\ ver.todo # <<>>
  /\ ContractStep
  /\ UNCHANGED <<disk, man, intact, world, row, copies, report, seen>>

\* overall_tier: the highest tier of a failed check.
Worst(t) == IF t > ver.tier THEN t ELSE ver.tier

\* One of the remaining checks.
Check ==
  /\ ver.on /\ ver.todo # <<>>
  /\ Head(ver.todo) \notin {"profile", "row", "glob", "echo"}
  /\ ver' = [ver EXCEPT !.tier = Worst(Tier(Head(ver.todo))), !.todo = Tail(@)]
  /\ UNCHANGED <<disk, man, intact, world, row, copies, report, seen>>

Verdict(t) == CASE t = 0 -> "PASS" [] t = 2 -> "RETRY-NEEDED"
                [] t = 3 -> "OPERATOR-SURFACE"

\* The report replaces the earlier one; the exit code is the tier.
Finish ==
  /\ ver.on /\ ver.todo = <<>>
  /\ report' = Verdict(ver.tier)
  /\ ver' = [Idle EXCEPT !.exit = ver.tier, !.runs = ver.runs]
  /\ seen' = {}
  /\ UNCHANGED <<disk, man, intact, world, row, copies>>

\* atomic_write raises: no report, the earlier one stays, and Python exits with
\* the 1 that means "auto-fixed" to a caller that reads only the exit code.
ReportFails ==
  /\ ver.on /\ ver.todo = <<>>
  /\ ver' = [Idle EXCEPT !.exit = 1, !.runs = ver.runs]
  /\ seen' = {}
  /\ UNCHANGED <<disk, man, intact, world, row, copies, report>>

(***************************************************************************)
(* Everything that changes around it.                                      *)
(***************************************************************************)

Witness(s) == seen' = IF ver.on THEN seen \cup s ELSE seen

\* Plan or artifacts are rewritten, or put back as they were.
EditBytes(f, n) ==
  /\ "bytes" \in Faults /\ disk[f] # n
  /\ disk' = [disk EXCEPT ![f] = n]
  /\ Witness({<<f, n>>})
  /\ UNCHANGED <<man, intact, world, row, copies, ver, report>>

\* An evidence file is rewritten after the manifest recorded its hash.
Touch(i) ==
  /\ intact[i] /\ Cardinality({j \in Items : ~intact[j]}) < MaxTouches
  /\ intact' = [intact EXCEPT ![i] = FALSE]
  /\ UNCHANGED <<disk, man, world, row, copies, ver, report, seen>>

ChangeWorld(f, x) ==
  /\ "world" \in Faults /\ world[f] # x /\ world.changes < MaxChanges
  /\ world' = [world EXCEPT ![f] = x, !.changes = @ + 1]
  /\ Witness(IF f \in OperatorFields THEN {<<f, x>>} ELSE {})
  /\ UNCHANGED <<disk, man, intact, row, copies, ver, report>>

Moved == Witness({<<"packet", "moved">>})

MovePacket(q, r) ==
  /\ "packet" \in Faults /\ copies[q] # None
  /\ <<q, r>> \in {<<"inbox", "active">>, <<"active", "archive">>,
                    <<"active", "inbox">>}
  /\ copies' = [copies EXCEPT ![r] = copies[q], ![q] = None]
  /\ Moved
  /\ UNCHANGED <<disk, man, intact, world, row, ver, report>>

\* A task whose row was taken away is registered again under its id; a row that
\* is there refuses another dispatch.
Redispatch(c) ==
  /\ "packet" \in Faults /\ row # c
  /\ row = None \/ c = None
  /\ row' = c
  /\ Witness({<<"pin", c>>})
  /\ UNCHANGED <<disk, man, intact, world, copies, ver, report>>

WritePacket(q, c) ==
  /\ "packet" \in Faults /\ copies[q] # c
  /\ copies' = [copies EXCEPT ![q] = c]
  /\ Moved
  /\ UNCHANGED <<disk, man, intact, world, row, ver, report>>

(***************************************************************************)
(* The Lead.                                                               *)
(***************************************************************************)

Writes(m) == /\ ~ver.on /\ man # m
             /\ man' = m
             /\ UNCHANGED <<disk, world, row, copies, ver, report, seen>>

\* Claim the bytes on disk, as an iteration of the I-loop or silently.
Rehash(counted) ==
  /\ "bytes" \in Faults
  /\ Writes([man EXCEPT !.plan = disk.plan, !.bundle = disk.bundle,
                !.iterated = IF counted THEN <<Hash("plan"), Hash("bundle")>>
                                        ELSE @])
  /\ UNCHANGED intact

\* What a piece of evidence may be about when it is made.
SubjectsOf(i) ==
  CASE i = "plan_review" -> {Hash("plan")}
    [] i \in RecordKinds -> {Hash("plan"), Hash("bundle")}
    [] i \in LogItems -> {<<"log", man.log>>}
    [] OTHER -> {Hash("bundle")}

\* A review, record, gate or receipt is made, or made anew.
Redo(i, h) ==
  /\ Writes([man EXCEPT !.bound[i] = h])
  /\ intact' = [intact EXCEPT ![i] = TRUE]

ReviewBy(r, f) ==
  /\ "bytes" \in Faults
  /\ Writes([man EXCEPT !.reviewer[r] = f])
  /\ UNCHANGED intact

\* An action is logged, perhaps without naming its phase.
LogAction(t, phased) ==
  /\ "log" \in Faults /\ man.log < MaxVersion
  /\ Writes([man EXCEPT !.log = @ + 1, !.targets = @ \cup {t},
                        !.phased = IF phased THEN man.log + 1 ELSE @])
  /\ UNCHANGED intact

Conclude(fs) ==
  /\ "log" \in Faults
  /\ Writes([man EXCEPT !.findings = fs])
  /\ UNCHANGED intact

\* The remaining declarations of a manifest.
Declare(f, x) ==
  /\ "world" \in Faults
  /\ Writes([man EXCEPT ![f] = x])
  /\ UNCHANGED intact

Init ==
  /\ disk = [plan |-> 1, bundle |-> 1]
  /\ \E c \in Contracts, m \in Modes, fs \in Findings, t \in Allowed,
        f \in Families \ {Author} :
       /\ man = [mode |-> m, contract |-> c, plan |-> 1, bundle |-> 1,
                 bound |-> [i \in Items |->
                              IF i \in Missing THEN None
                              ELSE IF i = "plan_review" THEN <<"plan", 1>>
                              ELSE IF i \in LogItems THEN <<"log", 1>>
                              ELSE <<"bundle", 1>>],
                 reviewer |-> [r \in Reviews |-> f], iterated |-> None,
                 phases |-> TRUE, restricted |-> TRUE, log |-> 1, phased |-> 1,
                 ops |-> "none", targets |-> {t}, findings |-> fs,
                 local |-> TRUE, submitted |-> FALSE, allow_dirty |-> FALSE]
       /\ row = c
       /\ copies = [q \in Places |-> IF q = "active" THEN c ELSE None]
  /\ intact = [i \in Items |-> TRUE]
  /\ world = [manifest |-> "written", approval |-> "approve",
              citations |-> "ok", todo |-> "clean", tests |-> "pass",
              base |-> "commit", dirty |-> FALSE, added |-> 0, tested |-> 0,
              changes |-> 0]
  /\ ver = Idle /\ report = "none" /\ seen = {}

Verifier == Start \/ Reject \/ Contract \/ Check \/ Finish \/ ReportFails

Lead ==
  \/ \E b \in BOOLEAN : Rehash(b)
  \/ \E i \in Remade : \E h \in SubjectsOf(i) : Redo(i, h)
  \/ \E r \in Reviews, f \in Families : ReviewBy(r, f)
  \/ \E t \in Targets, b \in BOOLEAN : LogAction(t, b)
  \/ \E fs \in Findings : Conclude(fs)
  \/ \E f \in DOMAIN Declared : \E x \in Declared[f] : Declare(f, x)

Changes ==
  \/ \E f \in {"plan", "bundle"}, n \in 1 .. MaxVersion : EditBytes(f, n)
  \/ \E i \in Items : Touch(i)
  \/ \E f \in DOMAIN WorldValues : \E x \in WorldValues[f] : ChangeWorld(f, x)
  \/ \E q, r \in Places : MovePacket(q, r)
  \/ \E c \in Contracts \cup {None} : Redispatch(c)
  \/ \E q \in {"inbox", "active"}, c \in Contracts : WritePacket(q, c)

Next == Verifier \/ Lead \/ Changes

Spec == Init /\ [][Next]_vars

(***************************************************************************)
(* Properties.                                                             *)
(***************************************************************************)

\* The values the verifier, its report and the files it reads take; a tier of 1
\* (AUTOFIX) is never produced, and its exit code only by a report that failed.
ModeExitTypeOK ==
  /\ disk \in [{"plan", "bundle"} -> 1 .. MaxVersion]
  /\ intact \in [Items -> BOOLEAN]
  /\ row \in Contracts \cup {None}
  /\ copies \in [Places -> Contracts \cup {None}]
  /\ report \in {"none", "PASS", "RETRY-NEEDED", "OPERATOR-SURFACE"}
  /\ ver.on \in BOOLEAN /\ ver.tier \in {0, 2, 3} /\ ver.paths \subseteq Places
  /\ ver.exit \in {None, 0, 1, 2, 3}

\* The verifier exits with a report and a tier.
Reports(tiers) == ver.on /\ ~ver'.on /\ ver'.exit \in tiers

\* Any verdict short of OPERATOR-SURFACE, a retry too, is about one set of
\* bytes: the plan and the bundle the manifest claims were on disk while the
\* verifier ran, and both reviews, by another family, every gate, the memory
\* receipt and every verification record are about those, not about the bytes
\* of an earlier iteration.
VerdictIsBound ==
  Reports({0, 2}) =>
    /\ {Claim("plan"), Claim("bundle")} \subseteq seen
    /\ man.bound["plan_review"] = Claim("plan")
    /\ \A i \in Gates \cup {"deliverable_review", "receipt"} :
         man.bound[i] = Claim("bundle")
    /\ \A r \in Reviews : man.reviewer[r] # Author
    /\ \A k \in RequiredKinds :
         man.bound[k] \in {Claim("plan"), Claim("bundle")}
    /\ man.iterated \in {None, <<Claim("plan"), Claim("bundle")>>}

\* The contract a verdict was reached under was the registry's pin at some
\* moment of the run, and, if no packet was moved meanwhile, every copy of
\* the packet carries it: check_verification_contract reads row, copies and
\* manifest one after the other, under no common lock.
VerdictUnderPin ==
  Reports({0, 2}) =>
    /\ <<"pin", man.contract>> \in seen
    /\ <<"packet", "moved">> \notin seen =>
         /\ \A q \in Places : copies[q] \in {None, man.contract}
         /\ \E q \in Places : copies[q] # None

\* A hunt that reports nothing pays for it: it passes only with a negative
\* control of the current bytes and with kill evidence of every logged action.
ZeroFindingPays ==
  Reports({0}) /\ man.mode = "bounty" /\ man.findings = {} =>
    /\ man.bound["negative_control"] \in {Claim("plan"), Claim("bundle")}
    /\ man.bound["negative_results"] = <<"log", man.log>>
    /\ man.bound["no_self_inflicted"] = <<"log", man.log>>

\* A retry never hides what only the operator may decide, even when the world
\* changes under the run: the approval, the citations, the modified paths, the
\* test command and the base ref were each acceptable at some moment of it; and
\* no logged action is destructive or without its phase, no delivery external.
RetryIsRecoverable ==
  Reports({2}) =>
    /\ \A f \in OperatorFields : \E s \in seen \ Refused : s[1] = f
    /\ man.phased = man.log /\ man.ops \notin {"flagged", "command"}
    /\ man.local

=============================================================================
