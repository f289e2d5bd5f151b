--------------------------- MODULE MCStateProofs ----------------------------
(***************************************************************************)
(* The composed state files have the properties their parts are proved to  *)
(* have: the one-shot tokens of held actions, and the notices owed to a    *)
(* coordinator.                                                            *)
(*                                                                         *)
(* A behaviour of MCState is of one part throughout, and a behaviour of a  *)
(* part is one of the part's own specification, so the theorems of         *)
(* StateProofs speak of it.                                                *)
(***************************************************************************)
EXTENDS MCState, TLAPS

\* The part a behaviour is of never changes.
LEMMA PartStays ==
    ASSUME NEW p, [Next]_vars
    PROVE  (part = p)' <=> part = p
BY DEF Next, vars

\* Callers that overlap and are not killed (check_and_consume).
LEMMA OverlapPart == Spec => [](part = "overlap" => Overlap!OneGrantPerToken)
<1>1. Init /\ part = "overlap" => Overlap!Init
  BY DEF Init
<1>2. [Next]_vars /\ part = "overlap" => [Overlap!Live]_(Overlap!vars)
  BY DEF Next, vars, heldVars, Overlap!vars
<1>3. [Next]_vars => ((part = "overlap")' <=> part = "overlap")
  BY PartStays
<1>4. Overlap!LiveSpec => []Overlap!OneGrantPerToken
  BY Overlap!LiveCallersOneShot
<1> QED
  BY <1>1, <1>2, <1>3, <1>4, PTL DEF Spec, Overlap!LiveSpec

\* Callers that are killed anywhere.
LEMMA CrashPart == Spec => [](part = "crash" => Crash!GrantsAreAccounted)
<1>1. Init /\ part = "crash" => Crash!Init
  BY DEF Init
<1>2. [Next]_vars /\ part = "crash" => [Crash!Next]_(Crash!vars)
  BY DEF Next, vars, heldVars, Crash!vars
<1>3. [Next]_vars => ((part = "crash")' <=> part = "crash")
  BY PartStays
<1>4. Crash!Spec => []Crash!GrantsAreAccounted
  BY Crash!GrantsAccounted
<1> QED
  BY <1>1, <1>2, <1>3, <1>4, PTL DEF Spec, Crash!Spec

\* HeldActionStore.check_and_consume: while no caller is killed a token
\* authorizes one action, and with kills every action answers to a valid token.
THEOREM TokenIsSpentOnceInvariant == Spec => []TokenIsSpentOnce
<1>1. (part = "overlap" => Overlap!OneGrantPerToken) /\ (part = "crash" => Crash!GrantsAreAccounted)
      => TokenIsSpentOnce
  BY DEF TokenIsSpentOnce
<1> QED
  BY <1>1, OverlapPart, CrashPart, PTL

-----------------------------------------------------------------------------
(* Notices. *)

\* Two sweeps over one task's events.
LEMMA SweepsPart ==
    Spec => /\ [](part = "sweeps" => /\ Sweeps!NoticeTypeOK
                                     /\ Sweeps!DurableFirst
                                     /\ Sweeps!DigestRecoverable)
            /\ [][part = "sweeps" => Sweeps!NoDuplicatePage
                                       /\ Sweeps!RetiredOnlyIfDelivered]_vars
<1>1. Init /\ part = "sweeps" => Sweeps!NoticeInit
  BY DEF Init
<1>2. [Next]_vars /\ part = "sweeps" => [Sweeps!NoticeNext]_(Sweeps!nvars)
  BY DEF Next, vars, noticeVars, Sweeps!nvars, Sweeps!registryVars, Sweeps!receiptVars
<1>3. [Next]_vars => ((part = "sweeps")' <=> part = "sweeps")
  BY PartStays
<1>4. /\ Sweeps!NoticeSpec => []Sweeps!NoticeTypeOK
      /\ Sweeps!NoticeSpec => []Sweeps!DurableFirst
      /\ Sweeps!NoticeSpec => []Sweeps!DigestRecoverable
  BY Sweeps!NoticeTypeCorrect, Sweeps!DurableFirstInvariant,
     Sweeps!DigestRecoverableInvariant, InstanceAssumption
<1>5. /\ Sweeps!NoticeSpec => [][Sweeps!NoDuplicatePage]_(Sweeps!nvars)
      /\ Sweeps!NoticeSpec => [][Sweeps!RetiredOnlyIfDelivered]_(Sweeps!nvars)
  BY Sweeps!PagesAreNotRepeated, Sweeps!RetiredOnlyDelivered, InstanceAssumption
<1>6. ASSUME [Sweeps!NoDuplicatePage]_(Sweeps!nvars),
             [Sweeps!RetiredOnlyIfDelivered]_(Sweeps!nvars)
      PROVE  Sweeps!NoDuplicatePage /\ Sweeps!RetiredOnlyIfDelivered
  BY <1>6 DEF Sweeps!nvars, Sweeps!registryVars, Sweeps!receiptVars, Sweeps!NoDuplicatePage,
     Sweeps!RetiredOnlyIfDelivered
<1> QED
  BY <1>1, <1>2, <1>3, <1>4, <1>5, <1>6, PTL DEF Spec, Sweeps!NoticeSpec

\* Publication of two tasks' events, with kills between store and registry.
LEMMA PublishPart == Spec => [](part = "publish" => Publish!RaisedIsOwed)
<1>1. Init /\ part = "publish" => Publish!NoticeInit
  BY DEF Init
<1>2. [Next]_vars /\ part = "publish" => [Publish!NoticeNext]_(Publish!nvars)
  BY DEF Next, vars, noticeVars, Publish!nvars, Publish!registryVars, Publish!receiptVars
<1>3. [Next]_vars => ((part = "publish")' <=> part = "publish")
  BY PartStays
<1>4. Publish!NoticeSpec => []Publish!RaisedIsOwed
  BY Publish!RaisedIsOwedInvariant, InstanceAssumption
<1> QED
  BY <1>1, <1>2, <1>3, <1>4, PTL DEF Spec, Publish!NoticeSpec

\* Hooks, waiter and sampler over two notices.
LEMMA NoticesPart == Spec => [](part = "notices" => Notices!InboxTypeOK /\ Notices!FaultsCountedOnce)
<1>1. Init /\ part = "notices" => Notices!InboxInit
  BY DEF Init
<1>2. [Next]_vars /\ part = "notices" => [Notices!InboxNext]_(Notices!ivars)
  BY DEF Next, vars, inboxVars, Notices!ivars, Notices!noticeVars, Notices!samplerVars
<1>3. [Next]_vars => ((part = "notices")' <=> part = "notices")
  BY PartStays
<1>4. /\ Notices!InboxSpec => []Notices!InboxTypeOK
      /\ Notices!InboxSpec => []Notices!FaultsCountedOnce
  BY Notices!InboxTypeCorrect, Notices!FaultsCountedOnceInvariant, InstanceAssumption
<1> QED
  BY <1>1, <1>2, <1>3, <1>4, PTL DEF Spec, Notices!InboxSpec

\* A conversation that is resumed under another owner.
LEMMA SessionsPart == Spec => [](part = "sessions" => Resumed!OneWaiter)
<1>1. Init /\ part = "sessions" => Resumed!InboxInit
  BY DEF Init
<1>2. [Next]_vars /\ part = "sessions" => [Resumed!InboxNext]_(Resumed!ivars)
  BY DEF Next, vars, inboxVars, Resumed!ivars, Resumed!noticeVars, Resumed!samplerVars
<1>3. [Next]_vars => ((part = "sessions")' <=> part = "sessions")
  BY PartStays
<1>4. Resumed!InboxSpec => []Resumed!OneWaiter
  BY Resumed!OneWaiterInvariant, InstanceAssumption
<1> QED
  BY <1>1, <1>2, <1>3, <1>4, PTL DEF Spec, Resumed!InboxSpec

\* What publication owes in the composition is what its part owes.
LEMMA PublicationOwes == Spec => Publication!ObSpec
<1> DEFINE owes == IF part = "publish" THEN Publish!Owed ELSE [e \in Raised |-> "none"]
<1>0. Publish!Events = Raised
  BY DEF Publish!Events, Raised
<1>1. Init /\ part = "publish" => Publish!NoticeInit
  BY DEF Init
<1>2. [Next]_vars /\ part = "publish" => [Publish!NoticeNext]_(Publish!nvars)
  BY DEF Next, vars, noticeVars, Publish!nvars, Publish!registryVars, Publish!receiptVars
<1>3. [Next]_vars => ((part = "publish")' <=> part = "publish")
  BY PartStays
<1>4. Publish!NoticeSpec => Publish!Obligation!ObSpec
  BY Publish!PublicationImplementsObligations, InstanceAssumption
<1>5. Init /\ (part = "publish" => Publish!Obligation!ObInit) => Publication!ObInit
  BY <1>0 DEF Publish!Obligation!ObInit, Publication!ObInit
<1>6. [Next]_vars /\ (part = "publish" =>
           [Publish!Obligation!Raise \/ Publish!Obligation!Consume]_(Publish!Owed))
      => [Publication!Raise \/ Publication!Consume]_owes
  BY <1>0, <1>3 DEF Publish!Obligation!Raise, Publish!Obligation!Consume,
     Publication!Raise, Publication!Consume
<1> QED
  BY <1>1, <1>2, <1>3, <1>4, <1>5, <1>6, PTL
  DEF Spec, Publish!NoticeSpec, Publish!Obligation!ObSpec, Publication!ObSpec

\* What the inbox owes in the composition is what its part owes.
LEMMA OfferingOwes == Spec => Offering!ObSpec
<1> DEFINE owes == IF part = "notices" THEN Notices!InboxOwed ELSE [n \in 1..2 |-> "none"]
<1>0. Notices!Notices = 1..2
  BY DEF Notices!Notices, NoticeCount
<1>1. Init /\ part = "notices" => Notices!InboxInit
  BY DEF Init
<1>2. [Next]_vars /\ part = "notices" => [Notices!InboxNext]_(Notices!ivars)
  BY DEF Next, vars, inboxVars, Notices!ivars, Notices!noticeVars, Notices!samplerVars
<1>3. [Next]_vars => ((part = "notices")' <=> part = "notices")
  BY PartStays
<1>4. Notices!InboxSpec => Notices!InboxObligation!ObSpec
  BY Notices!InboxImplementsObligations, InstanceAssumption
<1>5. Init /\ (part = "notices" => Notices!InboxObligation!ObInit) => Offering!ObInit
  BY <1>0 DEF Notices!InboxObligation!ObInit, Offering!ObInit
<1>6. [Next]_vars /\ (part = "notices" =>
           [Notices!InboxObligation!Raise \/ Notices!InboxObligation!Consume]_(Notices!InboxOwed))
      => [Offering!Raise \/ Offering!Consume]_owes
  BY <1>0, <1>3 DEF Notices!InboxObligation!Raise, Notices!InboxObligation!Consume,
     Offering!Raise, Offering!Consume
<1> QED
  BY <1>1, <1>2, <1>3, <1>4, <1>5, <1>6, PTL
  DEF Spec, Notices!InboxSpec, Notices!InboxObligation!ObSpec, Offering!ObSpec

\* publish_durable_notices, offer_pending, acknowledge, claim_waiter: the
\* composition implements the durable obligation at both ends, pages no event
\* twice, retires no record undelivered and lets one waiter own a conversation.
THEOREM NoticesAreOwedAlways == Spec => NoticesAreOwed
BY PublicationOwes, OfferingOwes, SweepsPart, PublishPart, NoticesPart, SessionsPart, PTL
DEF NoticesAreOwed
=============================================================================
