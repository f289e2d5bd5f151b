------------------------ MODULE VerificationContract ------------------------
(***************************************************************************)
(* The dispatcher-owned verification-contract/v1 object                    *)
(* (src/scripts/python/verification_contract.py).                          *)
(*                                                                         *)
(* The dispatcher derives a contract from an admission and pins it.  Every *)
(* later reader holds only a contract, perhaps an edited one, and checks   *)
(* it by recovering an admission from it, deriving again and comparing the *)
(* two objects.  Whoever holds the file may rewrite fields one at a time   *)
(* (with the adjacent digest recomputed, so the digest says nothing).      *)
(*                                                                         *)
(* Paths and gates are ranks: 1, 2, ... in sorted order, and 0 is a value  *)
(* no list may hold (a pattern, a directory, an unknown gate).  JSON       *)
(* booleans are the strings "true" and "false", an omitted key "absent".   *)
(***************************************************************************)
EXTENDS Naturals, Sequences, FiniteSets, SequencesExt

CONSTANTS
  Lanes,        \* the keys of LANE_TO_AUTHOR_FAMILY, in their order
  Family,       \* LANE_TO_AUTHOR_FAMILY
  Admissions,   \* the admissions a producer may hand in
  Text,         \* the texts a field may hold
  Values,       \* contract field -> what somebody may write into it
  MaxDeletes,   \* _MAX_AUTHORIZED_DELETE_PATHS
  MaxRewrites,     \* how many fields somebody rewrites
  Nothing

VARIABLES
  adm,    \* the admission handed in, or Nothing
  pin,    \* the contract derived from it, or Nothing when it was refused
  held,   \* the contract a later reader holds
  contractEdits

contractVars == <<adm, pin, held, contractEdits>>

Typed == {"review", "verification"}
Families == {Family[l] : l \in DOMAIN Family}
EvidenceFields == {"subject", "author", "reviewer", "state", "mutated"}
NoEvidence == [f \in EvidenceFields |-> "absent"]

(***************************************************************************)
(* What an admission must satisfy.                                         *)
(***************************************************************************)

\* dry_run is a bounty affordance; modeless takes project's latitude.
ResultTypes(mode) ==
  {"normal"} \cup Typed \cup (IF mode = "bounty" THEN {"dry_run"} ELSE {})

ResultType(a) == IF a.result = "absent" THEN "normal" ELSE a.result

DispatchKind(a) == IF a.kind = "absent" THEN "single" ELSE a.kind

\* The five fields come together, with typed work and with nothing else.
EvidenceOK(a) ==
  IF ResultType(a) \in Typed
  THEN /\ a.evidence.subject = "sha"
       /\ a.evidence.author \in Families
       /\ a.evidence.reviewer \in Families
       /\ a.evidence.state \in {"approved", "complete"}
       /\ a.evidence.mutated \in {"true", "false"}
  ELSE a.evidence = NoEvidence

\* A review that settles itself: made by its own lane's family, of another
\* family's work, which it did not change.
IsTerminal(a) ==
  /\ a.evidence.reviewer = Family[a.lane]
  /\ a.evidence.author # Family[a.lane]
  /\ a.evidence.mutated = "false"

ReviewRequired(a) ==
  IF ResultType(a) \in Typed THEN IF IsTerminal(a) THEN "false" ELSE "true"
  ELSE IF a.review_required = "absent" THEN "true" ELSE a.review_required

ReviewRequiredOK(a) ==
  ResultType(a) \in Typed \/ a.review_required \in {"absent", "true", "false"}

\* sorted() of a set of ranks.
Sorted(S) ==
  CHOOSE s \in [1 .. Cardinality(S) -> S] :
    \A i, j \in DOMAIN s : i < j => s[i] < s[j]

\* Gates of the capability card and of the runtime map, as one sorted list.
GateValues(a) == Sorted(ToSet(a.gates) \cup ToSet(a.capability.gates))

\* Enumerated, literal file paths, each once.
DeletesOK(a) ==
  a.deletes # Nothing => /\ Len(a.deletes) <= MaxDeletes
                      /\ 0 \notin ToSet(a.deletes)
                      /\ IsInjective(a.deletes)

\* The key is present only for a non-empty list, which is sorted (and without
\* duplicates, by DeletesOK).
AuthorizedDeletes(a) ==
  IF a.deletes = Nothing \/ a.deletes = <<>> THEN Nothing
  ELSE Sorted(ToSet(a.deletes))

Admissible(a) ==
  /\ a.ids
  /\ a.mode \in {"project", "bounty", "modeless"}
  /\ ResultType(a) \in ResultTypes(a.mode)
  /\ DispatchKind(a) = "single"
  /\ a.lane \in DOMAIN Family
  /\ EvidenceOK(a)
  /\ a.capability.state # "bad"
  /\ a.mode = "modeless" => a.capability.id = "absent"
  /\ 0 \notin ToSet(a.gates) \cup ToSet(a.capability.gates)
  /\ ReviewRequiredOK(a)
  /\ DeletesOK(a)

(***************************************************************************)
(* Derivation.                                                             *)
(***************************************************************************)

Kinds(a) ==
  IF a.mode # "bounty" THEN <<"project_tests", "recipient_contract">>
  ELSE <<"scope_gate", "no_self_inflicted",
         IF ResultType(a) = "dry_run" THEN "negative_control"
                                      ELSE "poc_reproduction">>

\* The legacy object asks for a plan review; it is what an admission that does
\* not say whether a review is required still derives.
LegacyPlan(a) ==
  a.review_required = "absent" /\ ResultType(a) \notin Typed

\* derive_verification_contract_unchecked.
Unchecked(a, legacy) ==
  IF ~Admissible(a) THEN Nothing
  ELSE [version     |-> "v1",
        ids         |-> a.ids,
        mode        |-> a.mode,
        result      |-> ResultType(a),
        kind        |-> DispatchKind(a),
        family      |-> Family[a.lane],
        capability  |-> [a.capability EXCEPT !.gates = <<>>],
        kinds       |-> Kinds(a),
        recall      |-> IF a.mode = "bounty" THEN "optional" ELSE "required",
        plan        |-> IF legacy THEN "legacy" ELSE "settled",
        deliverable |-> ReviewRequired(a),
        fixed       |-> "v1",
        gates       |-> GateValues(a),
        delivery    |-> "forbidden",
        bounty      |-> IF a.mode = "bounty" THEN "v1" ELSE "absent",
        evidence    |-> a.evidence,
        deletes     |-> AuthorizedDeletes(a)]

(***************************************************************************)
(* Validation.                                                             *)
(***************************************************************************)

\* The first lane of a family: codex and gpt-codex share one.
LaneOf(family) ==
  Lanes[CHOOSE i \in DOMAIN Lanes :
          /\ Family[Lanes[i]] = family
          /\ \A j \in 1 .. i - 1 : Family[Lanes[j]] # family]

\* The exact key set: five more keys for typed work, and no stranger.
KeysOK(c) ==
  \A f \in EvidenceFields :
    (c.evidence[f] # "absent") <=> (c.result \in Typed)

\* What the contract says of the admission it came from.  A caller that knows
\* whether a review is owed says so in expect.
Recovered(c, expect) ==
  [ids |-> c.ids, mode |-> c.mode, result |-> c.result, kind |-> c.kind,
   lane |-> LaneOf(c.family), capability |-> c.capability,
   gates |-> c.gates, deletes |-> c.deletes, evidence |-> c.evidence,
   review_required |-> IF expect # "absent" THEN expect ELSE c.deliverable]

\* Mutant: what is owed is read from the object under check.
ValidateCircular(c, expect) ==
  /\ KeysOK(c) /\ c.version = "v1" /\ c.family \in Families
  /\ LET legacy == c.result \notin Typed /\ c.plan = "legacy"
         d == Unchecked(Recovered(c, "absent"), legacy)
     IN  d # Nothing /\ c = [d EXCEPT !.deliverable = c.deliverable]

Validate(c, expect) ==
  /\ KeysOK(c)
  /\ c.version = "v1"
  /\ c.family \in Families
  /\ LET legacy == c.result \notin Typed /\ c.plan = "legacy"
     IN  c = Unchecked(Recovered(c, expect), legacy)

\* derive_verification_contract: no dispatcher-owned field is taken from a
\* producer, and what was derived is validated against the admission's own
\* decision.
Derive(a) ==
  LET c == Unchecked(a, LegacyPlan(a))
  IN  IF ~a.reserved /\ c # Nothing /\ Validate(c, ReviewRequired(a)) THEN c
      ELSE Nothing

(***************************************************************************)
(* The life of a contract.                                                 *)
(***************************************************************************)

ContractInit == /\ adm = Nothing /\ pin = Nothing /\ held = Nothing
        /\ contractEdits = 0

\* The dispatcher derives a contract and writes it beside the packet.
Admit(a) ==
  /\ adm = Nothing
  /\ adm' = a
  /\ pin' = Derive(a)
  /\ held' = pin'
  /\ UNCHANGED contractEdits

\* Somebody rewrites one field of the copy.
Edit(f, x) ==
  /\ pin # Nothing /\ contractEdits < MaxRewrites
  /\ held[f] # x
  /\ held' = [held EXCEPT ![f] = x]
  /\ contractEdits' = contractEdits + 1
  /\ UNCHANGED <<adm, pin>>

ContractNext == \/ \E a \in Admissions : Admit(a)
        \/ \E f \in DOMAIN Values : \E x \in Values[f] : Edit(f, x)

ContractSpec == ContractInit /\ [][ContractNext]_contractVars

(***************************************************************************)
(* Properties.                                                             *)
(***************************************************************************)

\* What a field of a contract may hold.
ContractTypes ==
  [version |-> Text, ids |-> BOOLEAN, mode |-> Text, result |-> Text,
   kind |-> Text, family |-> Text,
   capability |-> [id : Text, state : Text, gates : Seq(Nat)],
   kinds |-> Seq(Text), recall |-> Text, plan |-> Text,
   deliverable |-> Text, fixed |-> Text, gates |-> Seq(Nat),
   delivery |-> Text, bounty |-> Text, evidence |-> [EvidenceFields -> Text],
   deletes |-> Seq(Nat) \cup {Nothing}]

Contracts ==
  LET T == ContractTypes
  IN  [version : T.version, ids : T.ids, mode : T.mode, result : T.result,
       kind : T.kind, family : T.family, capability : T.capability,
       kinds : T.kinds, recall : T.recall, plan : T.plan,
       deliverable : T.deliverable, fixed : T.fixed, gates : T.gates,
       delivery : T.delivery, bounty : T.bounty, evidence : T.evidence,
       deletes : T.deletes]

AdmissionTypes ==
  [ids : BOOLEAN, mode : Text, result : Text, kind : Text, lane : Text,
   capability : ContractTypes.capability, gates : Seq(Nat),
   deletes : ContractTypes.deletes, evidence : ContractTypes.evidence,
   review_required : Text, reserved : BOOLEAN]

\* What derivation itself writes into a field.
Words == {"v1", "absent", "normal", "single", "true", "false", "optional", "required",
          "legacy", "settled", "forbidden", "project_tests", "recipient_contract",
          "scope_gate", "no_self_inflicted", "negative_control", "poc_reproduction"}

\* Every family has a lane and none is called "absent"; admissions and edits are
\* of the types of their fields.
ContractAssumption ==
  /\ Words \subseteq Text
  /\ Family \in [DOMAIN Family -> Text \ {"absent"}]
  /\ Lanes \in Seq(DOMAIN Family) /\ ToSet(Lanes) = DOMAIN Family
  /\ MaxDeletes \in Nat /\ MaxRewrites \in Nat
  /\ Admissions \subseteq AdmissionTypes
  /\ Nothing \notin Admissions \cup Contracts \cup Seq(Nat)
  /\ DOMAIN Values \subseteq DOMAIN ContractTypes
  /\ \A f \in DOMAIN Values : Values[f] \subseteq ContractTypes[f]

\* An admission that derivation admits is never lost to validation, with or
\* without the expectation: every reader recovers an admission that derives
\* the pinned object again, although it knows neither the lane, nor where the
\* gates came from, nor whether a review was asked for.
RoundTrip ==
  /\ adm # Nothing =>
       (pin # Nothing <=> ~adm.reserved /\ Admissible(adm))
  /\ pin # Nothing => Validate(pin, "absent") /\ Validate(pin, ReviewRequired(adm))

\* What a caller accepts that knows whether a review is owed: after any edit
\* that leaves alone the fields an admission chooses, the policy is the pinned
\* one, except for the plan review, where the settled and the legacy object
\* are both v1.
PolicyIsPinned ==
  /\ pin # Nothing
  /\ Validate(held, ReviewRequired(adm))
  /\ \A f \in {"ids", "mode", "result", "family", "capability", "gates",
               "deletes", "evidence"} : held[f] = pin[f]
  => held = [pin EXCEPT !.plan = held.plan]

\* Typed work that needs no further review proves that one family judged
\* another's work and changed nothing, whoever wrote the contract.
TerminalReviewIsIndependent ==
  /\ pin # Nothing
  /\ Validate(held, "absent")
  /\ held.result \in Typed /\ held.deliverable = "false"
  => /\ held.evidence.reviewer = held.family
     /\ held.evidence.author # held.family
     /\ held.evidence.mutated = "false"

\* "On every AUTHORITY axis a modeless contract takes the INTERSECTION of the
\* typed modes": whatever a modeless contract claims, both modes would grant.
ModelessIsNarrow ==
  pin # Nothing /\ held.mode = "modeless" /\ Validate(held, "absent")
  => \A m \in {"project", "bounty"} :
       Admissible([Recovered(held, "absent") EXCEPT !.mode = m])

\* Authority has one spelling: gates and deletions of an accepted contract are
\* strictly sorted and literal, and an empty deletion list is not written.
AuthorityIsCanonical ==
  LET Strict(s) == \A i \in DOMAIN s : s[i] # 0 /\ (i > 1 => s[i - 1] < s[i])
  IN  pin # Nothing /\ Validate(held, "absent")
      => /\ Strict(held.gates)
         /\ held.deletes # Nothing => held.deletes # <<>> /\ Strict(held.deletes)
=============================================================================
