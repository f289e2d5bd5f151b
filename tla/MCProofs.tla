------------------------------ MODULE MCProofs ------------------------------
(***************************************************************************)
(* The composed vault and the composed dispatch have what their parts are  *)
(* proved to have: a behaviour of MCVault or of MCDispatch is of one part  *)
(* throughout, and so a behaviour of the part's own specification, of      *)
(* which VaultProofs and DispatchProofs speak.                             *)
(***************************************************************************)
EXTENDS MCVault, MCDispatch, TLAPS

-----------------------------------------------------------------------------
(* The vault. *)

\* The part a behaviour of the vault is of never changes.
LEMMA MemoryPartStays ==
    ASSUME NEW p, [MemoryNext]_memoryVars
    PROVE  (memoryPart = p)' <=> memoryPart = p
BY DEF MemoryNext, memoryVars

\* The engagements that write labelled notes (apply_record_policy).
LEMMA LabelsPart == MemorySpec => [](memoryPart = "labels" => Restricted!AccessInv)
<1>1. MemoryInit /\ memoryPart = "labels" => Restricted!AccessInit
  BY DEF MemoryInit
<1>2. [MemoryNext]_memoryVars /\ memoryPart = "labels"
      => [Restricted!AccessNext]_(Restricted!accessVars)
  BY DEF MemoryNext, memoryVars, accessVars, Restricted!accessVars
<1>3. [MemoryNext]_memoryVars => ((memoryPart = "labels")' <=> memoryPart = "labels")
  BY MemoryPartStays
<1>4. Restricted!AccessSpec => []Restricted!AccessInv
  BY Restricted!AccessInvariant, MemoryAssumption
<1> QED
  BY <1>1, <1>2, <1>3, <1>4, PTL DEF MemorySpec, Restricted!AccessSpec

\* The focused engagement beside writers of its target.
LEMMA FocusPart == MemorySpec => [](memoryPart = "focus" => Usual!AccessInv)
<1>1. MemoryInit /\ memoryPart = "focus" => Usual!AccessInit
  BY DEF MemoryInit
<1>2. [MemoryNext]_memoryVars /\ memoryPart = "focus"
      => [Usual!AccessNext]_(Usual!accessVars)
  BY DEF MemoryNext, memoryVars, accessVars, Usual!accessVars
<1>3. [MemoryNext]_memoryVars => ((memoryPart = "focus")' <=> memoryPart = "focus")
  BY MemoryPartStays
<1>4. Usual!AccessSpec => []Usual!AccessInv
  BY Usual!AccessInvariant, MemoryAssumption
<1> QED
  BY <1>1, <1>2, <1>3, <1>4, PTL DEF MemorySpec, Usual!AccessSpec

\* The store that goes missing, stale or unreadable; every filter of FocusFilters
\* is well formed, so health answers for recall.
LEMMA StorePart ==
  MemorySpec => [](memoryPart = "store" => Store!AccessInv /\ Store!HealthTruthful)
<1>1. MemoryInit /\ memoryPart = "store" => Store!AccessInit
  BY DEF MemoryInit
<1>2. [MemoryNext]_memoryVars /\ memoryPart = "store"
      => [Store!AccessNext]_(Store!accessVars)
  BY DEF MemoryNext, memoryVars, accessVars, Store!accessVars
<1>3. [MemoryNext]_memoryVars => ((memoryPart = "store")' <=> memoryPart = "store")
  BY MemoryPartStays
<1>4. Store!AccessSpec => []Store!AccessInv
  BY Store!AccessInvariant, MemoryAssumption
<1>5. Store!AccessSpec => []Store!HealthTruthful
  <2>1. \A x \in Filters : x.bad # "filter"
    <3>1. Absence # "filter"
      BY MemoryAssumption DEF Usual!AccessAssumption
    <3>2. \A st, ty, tg, be, ce, d : Filter(st, ty, tg, be, ce, d).bad = d
      BY DEF Filter
    <3>3. \A x \in Filters : x.bad \in {Absence, "query", "syntax"}
      BY <3>2 DEF Filters, FocusFilters
    <3> QED BY <3>1, <3>3
  <2> QED  BY <2>1, Store!HealthTruthfulInvariant, MemoryAssumption
<1> QED
  BY <1>1, <1>2, <1>3, <1>4, <1>5, PTL DEF MemorySpec, Store!AccessSpec

\* What a bounty or modeless engagement writes reaches no process of internal
\* clearance, a focused one reads only what its target's record said before it
\* started, "no_match" is said of a searched store, and recall_ready errs only
\* where health does not look (clearance.py, mcp_server.py): the composition has
\* what VaultAccess has.
THEOREM AccessIsHonestInvariant == MemorySpec => []AccessIsHonest
<1>1. /\ memoryPart = "labels" => Restricted!AccessInv
      /\ memoryPart = "focus" => Usual!AccessInv
      /\ memoryPart = "store" => Store!AccessInv /\ Store!HealthTruthful
      => AccessIsHonest
  BY DEF AccessIsHonest, Restricted!AccessInv, Usual!AccessInv, Store!AccessInv,
     Restricted!Labelled, Restricted!Answered, Usual!Answered, Store!Answered
<1> QED
  BY <1>1, LabelsPart, FocusPart, StorePart, PTL

\* The broker in front of a readable vault.
LEMMA BrokerPart == MemorySpec => [](memoryPart = "broker" => Usual!BrokerInv)
<1>1. MemoryInit /\ memoryPart = "broker" => Usual!Init
  BY DEF MemoryInit
<1>2. [MemoryNext]_memoryVars /\ memoryPart = "broker" => [Usual!Next]_(Usual!vars)
  BY DEF MemoryNext, memoryVars, brokerVars, Usual!vars
<1>3. [MemoryNext]_memoryVars => ((memoryPart = "broker")' <=> memoryPart = "broker")
  BY MemoryPartStays
<1>4. Usual!Spec => []Usual!BrokerInv
  BY Usual!BrokerInvariant, MemoryAssumption
<1> QED
  BY <1>1, <1>2, <1>3, <1>4, PTL DEF MemorySpec, Usual!Spec

\* The broker of a worker whose aperture is "none".
LEMMA DeniedPart == MemorySpec => [](memoryPart = "denied" => Restricted!BrokerInv)
<1>1. MemoryInit /\ memoryPart = "denied" => Restricted!Init
  BY DEF MemoryInit
<1>2. [MemoryNext]_memoryVars /\ memoryPart = "denied" => [Restricted!Next]_(Restricted!vars)
  BY DEF MemoryNext, memoryVars, brokerVars, Restricted!vars
<1>3. [MemoryNext]_memoryVars => ((memoryPart = "denied")' <=> memoryPart = "denied")
  BY MemoryPartStays
<1>4. Restricted!Spec => []Restricted!BrokerInv
  BY Restricted!BrokerInvariant, MemoryAssumption
<1> QED
  BY <1>1, <1>2, <1>3, <1>4, PTL DEF MemorySpec, Restricted!Spec

\* The broker bridges at most one session, leaves nothing behind when it is
\* closed, fails only for a cause and bridges nothing under "none" (broker.py):
\* the composition has what VaultBroker has.
THEOREM BrokerServesOnceInvariant == MemorySpec => []BrokerServesOnce
<1>1. /\ memoryPart = "broker" => Usual!BrokerInv
      /\ memoryPart = "denied" => Restricted!BrokerInv
      => BrokerServesOnce
  BY DEF BrokerServesOnce, Usual!BrokerInv, Restricted!BrokerInv, Usual!Bridging,
     Restricted!Bridging, Usual!Phases, Restricted!Phases, Usual!CloseLeavesNothing,
     Restricted!CloseLeavesNothing
<1> QED
  BY <1>1, BrokerPart, DeniedPart, PTL

\* Two capture processes that replay two responses.
LEMMA ReplayPart == MemorySpec => [](memoryPart = "replay" => /\ Usual!AutocaptureTypeOK
                                                              /\ Usual!OneNotePerKey
                                                              /\ Usual!SpoolRowsBounded
                                                              /\ Usual!RestrictedStaysLocal)
<1>1. MemoryInit /\ memoryPart = "replay" => Usual!CaptureInit
  BY DEF MemoryInit
<1>2. [MemoryNext]_memoryVars /\ memoryPart = "replay"
      => [Usual!CaptureNext]_(Usual!captureVars)
  BY DEF MemoryNext, memoryVars, captureVars, Usual!captureVars
<1>3. [MemoryNext]_memoryVars => ((memoryPart = "replay")' <=> memoryPart = "replay")
  BY MemoryPartStays
<1>4. Usual!CaptureSpec => []Usual!AutocaptureTypeOK
  BY Usual!AutocaptureTypeCorrect, MemoryAssumption
<1>5. Usual!CaptureSpec => []Usual!OneNotePerKey
  BY Usual!OneNotePerKeyInvariant, MemoryAssumption
<1>6. Usual!CaptureSpec => []Usual!SpoolRowsBounded
  BY Usual!SpoolRowsBoundedInvariant, MemoryAssumption
<1>7. Usual!ModeIsKept
  BY DEF Usual!ModeIsKept, Prunable
<1>8. Usual!CaptureSpec => []Usual!RestrictedStaysLocal
  BY <1>7, Usual!RestrictedStaysLocalInvariant, MemoryAssumption
<1> QED
  BY <1>1, <1>2, <1>3, <1>4, <1>5, <1>6, <1>8, PTL DEF MemorySpec, Usual!CaptureSpec

\* A capture process with outages, torn appends and a task packet that disappears;
\* the board record stays, so the mode of a task is known.
LEMMA OutagesPart == MemorySpec => [](memoryPart = "faults" => /\ Restricted!OneNotePerKey
                                                               /\ Restricted!NothingLost
                                                               /\ Restricted!NotesAreKnowledge
                                                               /\ Restricted!RestrictedStaysLocal)
<1>1. MemoryInit /\ memoryPart = "faults" => Restricted!CaptureInit
  BY DEF MemoryInit
<1>2. [MemoryNext]_memoryVars /\ memoryPart = "faults"
      => [Restricted!CaptureNext]_(Restricted!captureVars)
  BY DEF MemoryNext, memoryVars, captureVars, Restricted!captureVars
<1>3. [MemoryNext]_memoryVars => ((memoryPart = "faults")' <=> memoryPart = "faults")
  BY MemoryPartStays
<1>4. Restricted!CaptureSpec => []Restricted!OneNotePerKey
  BY Restricted!OneNotePerKeyInvariant, MemoryAssumption
<1>5. Restricted!CaptureSpec => []Restricted!NothingLost
  BY Restricted!NothingLostInvariant, MemoryAssumption
<1>6. Restricted!CaptureSpec => []Restricted!NotesAreKnowledge
  BY Restricted!NotesAreKnowledgeInvariant, MemoryAssumption
<1>7. Restricted!ModeIsKept
  BY DEF Restricted!ModeIsKept
<1>8. Restricted!CaptureSpec => []Restricted!RestrictedStaysLocal
  BY <1>7, Restricted!RestrictedStaysLocalInvariant, MemoryAssumption
<1> QED
  BY <1>1, <1>2, <1>3, <1>4, <1>5, <1>6, <1>8, PTL DEF MemorySpec, Restricted!CaptureSpec

\* A response is one note and boundedly many rows however often it is replayed, no
\* response is lost by an outage or a crash, only knowledge is noted and restricted
\* text stays local (autocapture.py): the composition has what Autocapture has.
THEOREM CaptureKeepsFindingsInvariant == MemorySpec => []CaptureKeepsFindings
<1>1. /\ memoryPart = "replay" => /\ Usual!AutocaptureTypeOK
                                  /\ Usual!OneNotePerKey
                                  /\ Usual!SpoolRowsBounded
                                  /\ Usual!RestrictedStaysLocal
      /\ memoryPart = "faults" => /\ Restricted!OneNotePerKey
                                  /\ Restricted!NothingLost
                                  /\ Restricted!NotesAreKnowledge
                                  /\ Restricted!RestrictedStaysLocal
      => CaptureKeepsFindings
  BY DEF CaptureKeepsFindings
<1> QED
  BY <1>1, ReplayPart, OutagesPart, PTL

-----------------------------------------------------------------------------
(* The entry to a dispatch. *)

\* The part a behaviour of a dispatch is of never changes.
LEMMA PartStays ==
    ASSUME NEW p, [Next]_vars
    PROVE  (part = p)' <=> part = p
BY DEF Next, vars

\* A contract means after its round trip what it meant before, and what a reader
\* accepts has the pinned policy, an independent terminal review, a narrow
\* modeless claim and one spelling (verification_contract.py).
THEOREM ContractIsPinnedInvariant == Spec => []ContractIsPinned
<1>1. Init /\ part = "contract" => Entry!ContractInit
  BY DEF Init
<1>2. [Next]_vars /\ part = "contract" => [Entry!ContractNext]_(Entry!contractVars)
  BY DEF Next, vars, contractVars, Entry!contractVars
<1>3. [Next]_vars => ((part = "contract")' <=> part = "contract")
  BY PartStays
<1>4. Entry!ContractSpec => []Entry!RoundTrip
  BY Entry!RoundTripInvariant, InstanceAssumption
<1>5. Entry!ContractSpec => []Entry!PolicyIsPinned
  BY Entry!PolicyIsPinnedInvariant, InstanceAssumption
<1>6. Entry!ContractSpec => []Entry!TerminalReviewIsIndependent
  BY Entry!TerminalReviewInvariant, InstanceAssumption
<1>7. Entry!ContractSpec => []Entry!ModelessIsNarrow
  BY Entry!ModelessIsNarrowInvariant, InstanceAssumption
<1>8. Entry!ContractSpec => []Entry!AuthorityIsCanonical
  BY Entry!AuthorityIsCanonicalInvariant, InstanceAssumption
<1>9. (part = "contract" => /\ Entry!RoundTrip
                           /\ Entry!PolicyIsPinned
                           /\ Entry!TerminalReviewIsIndependent
                           /\ Entry!ModelessIsNarrow
                           /\ Entry!AuthorityIsCanonical)
      => ContractIsPinned
  BY DEF ContractIsPinned
<1> QED
  BY <1>1, <1>2, <1>3, <1>4, <1>5, <1>6, <1>7, <1>8, <1>9, PTL
     DEF Spec, Entry!ContractSpec

\* Two dispatchers of one task.
LEMMA TwoPart == Spec => [](part = "two" => /\ Entry!AdmissionTypeOK
                                            /\ Entry!PublishedWasAllowed
                                            /\ Entry!LaunchedContractIsAdmitted
                                            /\ Entry!ReviewOwedIsTold)
<1>1. Init /\ part = "two" => Entry!AdmitInit
  BY DEF Init
<1>2. [Next]_vars /\ part = "two" => [Entry!AdmitNext]_(Entry!admitVars)
  BY DEF Next, vars, admissionVars, Entry!admitVars, Entry!draftVars, Entry!buildVars,
     Entry!worldVars, Entry!bounds
<1>3. [Next]_vars => ((part = "two")' <=> part = "two")
  BY PartStays
<1>4. /\ Entry!AdmitSpec => []Entry!AdmissionTypeOK
      /\ Entry!AdmitSpec => []Entry!PublishedWasAllowed
      /\ Entry!AdmitSpec => []Entry!LaunchedContractIsAdmitted
      /\ Entry!AdmitSpec => []Entry!ReviewOwedIsTold
  BY Entry!AdmissionTypeCorrect, Entry!PublishedWasAllowedInvariant,
     Entry!LaunchedContractInvariant, Entry!ReviewOwedInvariant, InstanceAssumption
<1> QED
  BY <1>1, <1>2, <1>3, <1>4, PTL DEF Spec, Entry!AdmitSpec

\* Packets that one of the gates turns away, beside one that passes.
LEMMA GatesPart == Spec => [](part = "gates" => /\ GateKeeping!PublishedWasAllowed
                                                /\ GateKeeping!UnsettledKeepsRow
                                                /\ GateKeeping!ReviewOwedIsTold)
<1>1. Init /\ part = "gates" => GateKeeping!AdmitInit
  BY DEF Init
<1>2. [Next]_vars /\ part = "gates" => [GateKeeping!AdmitNext]_(GateKeeping!admitVars)
  BY DEF Next, vars, admissionVars, GateKeeping!admitVars, GateKeeping!draftVars,
     GateKeeping!buildVars, GateKeeping!worldVars, GateKeeping!bounds
<1>3. [Next]_vars => ((part = "gates")' <=> part = "gates")
  BY PartStays
<1>4. /\ GateKeeping!AdmitSpec => []GateKeeping!PublishedWasAllowed
      /\ GateKeeping!AdmitSpec => []GateKeeping!UnsettledKeepsRow
      /\ GateKeeping!AdmitSpec => []GateKeeping!ReviewOwedIsTold
  BY GateKeeping!PublishedWasAllowedInvariant, GateKeeping!UnsettledKeepsRowInvariant,
     GateKeeping!ReviewOwedInvariant, InstanceAssumption
<1> QED
  BY <1>1, <1>2, <1>3, <1>4, PTL DEF Spec, GateKeeping!AdmitSpec

\* A canary that is cleaned up while its task is dispatched again.
LEMMA CanaryPart == Spec => [](part = "canary" => Cleanup!UnsettledKeepsRow)
<1>1. Init /\ part = "canary" => Cleanup!AdmitInit
  BY DEF Init
<1>2. [Next]_vars /\ part = "canary" => [Cleanup!AdmitNext]_(Cleanup!admitVars)
  BY DEF Next, vars, admissionVars, Cleanup!admitVars, Cleanup!draftVars, Cleanup!buildVars,
     Cleanup!worldVars, Cleanup!bounds
<1>3. [Next]_vars => ((part = "canary")' <=> part = "canary")
  BY PartStays
<1>4. Cleanup!AdmitSpec => []Cleanup!UnsettledKeepsRow
  BY Cleanup!UnsettledKeepsRowInvariant, InstanceAssumption
<1> QED
  BY <1>1, <1>2, <1>3, <1>4, PTL DEF Spec, Cleanup!AdmitSpec

\* Every aperture against a brief and a dossier that turn blind.
LEMMA BlindPart == Spec => [][part = "blind" => Blind!LaunchesBlind]_vars
<1>1. Init /\ part = "blind" => Blind!AdmitInit
  BY DEF Init
<1>2. [Next]_vars /\ part = "blind" => [Blind!AdmitNext]_(Blind!admitVars)
  BY DEF Next, vars, admissionVars, Blind!admitVars, Blind!draftVars, Blind!buildVars,
     Blind!worldVars, Blind!bounds
<1>3. [Next]_vars => ((part = "blind")' <=> part = "blind")
  BY PartStays
<1>4. Blind!AdmitSpec => [][Blind!LaunchesBlind]_(Blind!admitVars)
  BY Blind!LaunchesBlindAlways, InstanceAssumption
<1>5. ASSUME [Blind!LaunchesBlind]_(Blind!admitVars)
      PROVE  Blind!LaunchesBlind
  BY <1>5 DEF Blind!admitVars, Blind!LaunchesBlind
<1> QED
  BY <1>1, <1>2, <1>3, <1>4, <1>5, PTL DEF Spec, Blind!AdmitSpec

\* Four attempts of two families that ask for room.
LEMMA HostPart == Spec => /\ [](part = "host" => Entry!HostTypeOK /\ Entry!OverTargetIsARace)
                          /\ [][part = "host" => Entry!CountsOnlyTheLiving]_vars
<1>1. Init /\ part = "host" => Entry!HostInit
  BY DEF Init
<1>2. [Next]_vars /\ part = "host" => [Entry!HostNext]_(Entry!hostVars)
  BY DEF Next, vars, hostVars, Entry!hostVars
<1>3. [Next]_vars => ((part = "host")' <=> part = "host")
  BY PartStays
<1>4. /\ Entry!HostSpec => []Entry!HostTypeOK
      /\ Entry!HostSpec => []Entry!OverTargetIsARace
  BY Entry!HostTypeCorrect, Entry!OverTargetIsARaceInvariant, InstanceAssumption
<1>5. Entry!HostSpec => [][Entry!CountsOnlyTheLiving]_(Entry!hostVars)
  BY Entry!OnlyTheLivingAreCounted, InstanceAssumption
<1>6. ASSUME [Entry!CountsOnlyTheLiving]_(Entry!hostVars)
      PROVE  Entry!CountsOnlyTheLiving
  BY <1>6 DEF Entry!hostVars, Entry!CountsOnlyTheLiving
<1> QED
  BY <1>1, <1>2, <1>3, <1>4, <1>5, <1>6, PTL DEF Spec, Entry!HostSpec

\* What is published passed preflight; what is launched has the registered contract,
\* is told the review it owes, keeps its row until it is settled, and launches
\* blind where it must; a host passes a family's target only through a race
\* (send-task.sh, dispatch_context_builder.py, host_admission.py).
THEOREM LaunchWasAdmittedAlways == Spec => LaunchWasAdmitted
BY TwoPart, GatesPart, CanaryPart, BlindPart, HostPart, PTL DEF LaunchWasAdmitted

-----------------------------------------------------------------------------
(* The publication of outputs in the composed dispatch. *)

\* Two tasks that close their runs over one manifest.
LEMMA ClosePart ==
  Spec => /\ [](part = "close" => Entry!ClosedRunIsVerified)
          /\ [][part = "close" => Entry!NoClobber]_vars
<1>1. Init /\ part = "close" => Entry!OutputInit
  BY DEF Init
<1>2. [Next]_vars /\ part = "close" => [Entry!OutputNext]_(Entry!outputVars)
  BY DEF Next, vars, outputVars, Entry!outputVars
<1>3. [Next]_vars => ((part = "close")' <=> part = "close")
  BY PartStays
<1>4. Entry!OutputSpec => []Entry!ClosedRunIsVerified
  BY Entry!ClosedRunInvariant, InstanceAssumption
<1>5. Entry!OutputSpec => [][Entry!NoClobber]_(Entry!outputVars)
  BY Entry!NoClobberAlways, InstanceAssumption
<1>6. ASSUME [Entry!NoClobber]_(Entry!outputVars)
      PROVE  Entry!NoClobber
  BY <1>6 DEF Entry!outputVars, Entry!NoClobber
<1> QED
  BY <1>1, <1>2, <1>3, <1>4, <1>5, <1>6, PTL DEF Spec, Entry!OutputSpec

\* A response that is its own return artifact.
LEMMA AliasedPart == Spec => [][part = "aliased" => Blind!NoClobber]_vars
<1>1. Init /\ part = "aliased" => Blind!OutputInit
  BY DEF Init
<1>2. [Next]_vars /\ part = "aliased" => [Blind!OutputNext]_(Blind!outputVars)
  BY DEF Next, vars, outputVars, Blind!outputVars
<1>3. [Next]_vars => ((part = "aliased")' <=> part = "aliased")
  BY PartStays
<1>4. Blind!OutputSpec => [][Blind!NoClobber]_(Blind!outputVars)
  BY Blind!NoClobberAlways, InstanceAssumption
<1>5. ASSUME [Blind!NoClobber]_(Blind!outputVars)
      PROVE  Blind!NoClobber
  BY <1>5 DEF Blind!outputVars, Blind!NoClobber
<1> QED
  BY <1>1, <1>2, <1>3, <1>4, <1>5, PTL DEF Spec, Blind!OutputSpec

\* A task on a base whose own diagnostics fail, whatever its worker claims.
LEMMA JudgePart ==
  Spec => /\ [](part = "judge" => Cleanup!PromotionTypeOK)
          /\ [][part = "judge" => /\ Cleanup!CompletionIsClaimed
                                  /\ Cleanup!HealthJudgesCandidate]_vars
<1>1. Init /\ part = "judge" => Cleanup!OutputInit
  BY DEF Init
<1>2. [Next]_vars /\ part = "judge" => [Cleanup!OutputNext]_(Cleanup!outputVars)
  BY DEF Next, vars, outputVars, Cleanup!outputVars
<1>3. [Next]_vars => ((part = "judge")' <=> part = "judge")
  BY PartStays
<1>4. Cleanup!OutputSpec => []Cleanup!PromotionTypeOK
  BY Cleanup!PromotionTypeCorrect, InstanceAssumption
<1>5. Cleanup!OutputSpec => [][Cleanup!CompletionIsClaimed]_(Cleanup!outputVars)
  BY Cleanup!CompletionIsClaimedAlways, InstanceAssumption
<1>6. ASSUME [Cleanup!CompletionIsClaimed]_(Cleanup!outputVars)
      PROVE  Cleanup!CompletionIsClaimed
  BY <1>6 DEF Cleanup!outputVars, Cleanup!CompletionIsClaimed
<1>7. Cleanup!OutputSpec => [][Cleanup!HealthJudgesCandidate]_(Cleanup!outputVars)
  BY Cleanup!HealthJudgesCandidateAlways, InstanceAssumption
<1>8. ASSUME [Cleanup!HealthJudgesCandidate]_(Cleanup!outputVars)
      PROVE  Cleanup!HealthJudgesCandidate
  BY <1>8 DEF Cleanup!outputVars, Cleanup!HealthJudgesCandidate
<1> QED
  BY <1>1, <1>2, <1>3, <1>4, <1>5, <1>6, <1>7, <1>8, PTL DEF Spec, Cleanup!OutputSpec

\* A second attempt over what the first one left.
LEMMA RetryPart ==
  Spec => [](part = "retry" => /\ GateKeeping!LateRefusalIsARace
                               /\ GateKeeping!EnvelopeCommitsAll)
<1>1. Init /\ part = "retry" => GateKeeping!OutputInit
  BY DEF Init
<1>2. [Next]_vars /\ part = "retry" => [GateKeeping!OutputNext]_(GateKeeping!outputVars)
  BY ZenonT(40) DEF Next, vars, outputVars, GateKeeping!outputVars
<1>3. [Next]_vars => ((part = "retry")' <=> part = "retry")
  BY PartStays
<1>4. GateKeeping!OutputSpec => []GateKeeping!LateRefusalIsARace
  BY GateKeeping!LateRefusalInvariant, InstanceAssumption
<1>5. GateKeeping!OutputSpec => []GateKeeping!EnvelopeCommitsAll
  BY GateKeeping!EnvelopeCommitsAllInvariant, InstanceAssumption
<1> QED
  BY <1>1, <1>2, <1>3, <1>4, <1>5, PTL DEF Spec, GateKeeping!OutputSpec

\* Publication overwrites nothing but a stub, publishes only what was claimed and
\* judged healthy, and is whole once its envelope is seen; a run closes only over a
\* manifest that passes, and a destination is lost late only to another writer
\* (publish_prepared_worktree_outputs): the composition has what OutputPromotion has.
THEOREM PublicationIsWholeAlways == Spec => PublicationIsWhole
BY ClosePart, AliasedPart, JudgePart, RetryPart, PTL DEF PublicationIsWhole
=============================================================================
