---------------------------- MODULE VaultProofs -----------------------------
(***************************************************************************)
(* Proofs about who may read and write what in the vault, for any          *)
(* engagements, notes, filters and faults of the store; about the one-shot *)
(* broker that leads to it, for any connections in any order and any       *)
(* number of faults; and about automatic capture into it, for any          *)
(* processes, responses, days and faults.                                  *)
(*                                                                         *)
(* The three run beside each other and share nothing: the first part is    *)
(* about VaultAccess, the second about VaultBroker, the third about        *)
(* Autocapture.                                                            *)
(***************************************************************************)
EXTENDS VaultAccess, VaultBroker, Autocapture, FiniteSetTheorems, SequenceTheorems,
        TLAPS

-----------------------------------------------------------------------------
(* Access.                                                                 *)

\* A note of a bounty or a modeless engagement is restricted from its first
\* write on; nothing relabels a note.
Floor ==
    \A n \in NoteIds : (Exists(n) /\ Bound(notes[n].by) /\ Eng[notes[n].by].mode # "project")
        => notes[n].sens = "restricted"

\* What is cited exists, and so keeps the label that was inherited from it.
Cited == \A n \in NoteIds : (Exists(n) /\ notes[n].cites # None) => Exists(notes[n].cites)

Labelled == AccessTypeOK /\ Floor /\ Cited /\ FindingKeepsLabel

\* What holds of the last answer.
Answered == BountyStaysRestricted /\ FocusedReadsThePast /\ NoMatchMeansSearched

AccessInv == Labelled /\ Answered

\* A call that writes no note leaves the notes as labelled as they were.
LEMMA ReadKeepsLabels ==
    ASSUME Labelled, NEW l, NEW op, NEW result, NEW returned,
           returned \subseteq {n \in NoteIds : Exists(n)},
           Emit(l, op, result, returned), UNCHANGED <<clock, start, notes, indexed, store>>
    PROVE  Labelled'
<1>1. event'.returned = returned
  BY DEF Emit
<1>2. AccessTypeOK'
  BY <1>1 DEF Labelled, AccessTypeOK, Exists
<1> QED
  BY <1>2 DEF Labelled, Floor, Cited, FindingKeepsLabel, Exists, Bound

\* The labels survive a write: the note takes the floor of its writer and at
\* least the label of the attempt it cites.
LEMMA WriteKeepsLabels ==
    ASSUME AccessAssumption, Labelled, NEW l \in Lanes, NEW n \in NoteIds,
           NEW type \in Types, NEW status \in Statuses,
           NEW sens \in {"internal", "restricted"}, NEW target \in Targets \cup {None},
           NEW created \in Nat, NEW cites \in NoteIds \cup {None},
           cites # None => Exists(cites) /\ (notes[cites].sens = "restricted" => sens = "restricted"),
           Write(l, n, type, status, sens, target, created, cites)
    PROVE  Labelled'
<1> DEFINE note == [type |-> type, status |-> status,
                    sens |-> WriteSens(l, sens), target |-> WriteTarget(l, target),
                    created |-> IF Bound(l) THEN clock ELSE created,
                    by |-> l, cites |-> cites]
<1>1. /\ notes[n] = None
      /\ notes' = notes \/ notes' = [notes EXCEPT ![n] = note]
      /\ \/ indexed' = indexed
         \/ indexed' = indexed \cup {n} /\ notes' = [notes EXCEPT ![n] = note]
      /\ clock' = clock /\ start' = start /\ store' = store
  <2> DEFINE written == /\ ~RecordRefused(l, status, target) /\ RootOK
                        /\ Schema(type, WriteTarget(l, target))
  <2>1. /\ ~Exists(n)
        /\ notes' = IF ~written THEN notes ELSE [notes EXCEPT ![n] = note]
        /\ \/ indexed' = IF written THEN indexed \cup {n} ELSE indexed
           \/ written /\ indexed' = indexed
        /\ UNCHANGED <<clock, start, store>>
    BY Zenon DEF Write
  <2> HIDE DEF note
  <2>2. CASE written
    BY <2>1, <2>2 DEF Exists
  <2>3. CASE ~written
    <3>1. notes' = notes /\ indexed' = indexed
      BY <2>1, <2>3, Zenon
    <3> QED  BY <2>1, <3>1 DEF Exists
  <2> QED  BY <2>2, <2>3
<1>2. event'.returned = {}
  BY DEF Write, Emit
<1>3. clock \in Nat
  BY DEF Labelled, AccessTypeOK, AccessAssumption
<1>4. WriteTarget(l, target) \in Targets \cup {None}
  BY DEF WriteTarget, AccessAssumption
<1>5. WriteSens(l, sens) \in {"internal", "restricted"} /\ (sens = "restricted" => WriteSens(l, sens) = "restricted")
  BY DEF WriteSens
<1>6. note \in NoteType
  BY <1>3, <1>4, <1>5 DEF NoteType
<1>7. note # None /\ note.by = l /\ note.cites = cites /\ note.sens = WriteSens(l, sens)
  BY <1>6 DEF AccessAssumption
<1>8. (Bound(l) /\ Eng[l].mode # "project") => note.sens = "restricted"
  BY <1>7 DEF AccessAssumption, WriteSens, WriteFloor, Bound
<1> HIDE DEF note
<1>9. notes \in [NoteIds -> NoteType \cup {None}]
  BY DEF Labelled, AccessTypeOK
<1>10. /\ notes' \in [NoteIds -> NoteType \cup {None}]
       /\ \A m \in NoteIds : m # n => notes'[m] = notes[m]
       /\ notes'[n] \in {None, note}
       /\ \A m \in NoteIds : notes[m] # None => notes'[m] = notes[m] /\ notes'[m] # None
  BY <1>1, <1>6, <1>9
<1>11. AccessTypeOK'
  <2>1. indexed' \subseteq {m \in NoteIds : notes'[m] # None}
    BY <1>1, <1>7, <1>9, <1>10 DEF Labelled, AccessTypeOK, Exists
  <2> QED
    BY <1>1, <1>2, <1>10, <2>1 DEF Labelled, AccessTypeOK, Exists
<1>12. Floor'
  BY <1>7, <1>8, <1>10 DEF Labelled, Floor, Exists, Bound
<1>13. Cited'
  <2> SUFFICES ASSUME NEW m \in NoteIds, notes'[m] # None, notes'[m].cites # None
               PROVE  notes'[notes'[m].cites] # None
    BY DEF Cited, Exists
  <2>1. CASE m = n
    <3>1. notes'[m].cites = cites /\ cites \in NoteIds /\ notes[cites] # None
      BY <2>1, <1>7, <1>10 DEF Exists
    <3> QED  BY <3>1, <1>10
  <2>2. CASE m # n
    <3>1. notes'[m] = notes[m] /\ notes[m] \in NoteType
      BY <2>2, <1>9, <1>10
    <3>2. notes[m].cites \in NoteIds /\ notes[notes[m].cites] # None
      BY <3>1 DEF Labelled, Cited, Exists, NoteType
    <3> QED  BY <3>1, <3>2, <1>10
  <2> QED  BY <2>1, <2>2
<1>14. FindingKeepsLabel'
  <2> SUFFICES ASSUME NEW m \in NoteIds, notes'[m] # None, notes'[m].cites # None,
                      notes'[notes'[m].cites].sens = "restricted"
               PROVE  notes'[m].sens = "restricted"
    BY DEF FindingKeepsLabel, Exists
  <2>1. CASE m = n
    <3>1. notes'[m].cites = cites /\ cites \in NoteIds /\ notes[cites] # None
      BY <2>1, <1>7, <1>10 DEF Exists
    <3>2. notes[cites].sens = "restricted"
      BY <3>1, <1>10
    <3> QED  BY <3>1, <3>2, <2>1, <1>5, <1>7, <1>10
  <2>2. CASE m # n
    <3>1. notes'[m] = notes[m] /\ notes[m] \in NoteType
      BY <2>2, <1>9, <1>10
    <3>2. notes[m].cites \in NoteIds /\ notes[notes[m].cites] # None
      BY <3>1 DEF Labelled, Cited, Exists, NoteType
    <3> QED  BY <3>1, <3>2, <1>10 DEF Labelled, FindingKeepsLabel, Exists
  <2> QED  BY <2>1, <2>2
<1> QED
  BY <1>11, <1>12, <1>13, <1>14 DEF Labelled

\* The answer to a write returns no note and is no recall.
LEMMA WriteAnswer ==
    ASSUME NEW l, NEW n, NEW type, NEW status, NEW sens, NEW target, NEW created, NEW cites,
           Write(l, n, type, status, sens, target, created, cites)
    PROVE  Answered'
<1>1. event'.returned = {} /\ event'.op = "record"
  BY DEF Write, Emit
<1> QED
  BY <1>1 DEF Answered, BountyStaysRestricted, FocusedReadsThePast, NoMatchMeansSearched, Read

\* What a finding takes from an attempt is the label of a note that exists.
LEMMA InheritedLabel ==
    ASSUME AccessAssumption, Labelled, NEW l \in Lanes, NEW a \in NoteIds
    PROVE  LET from == Inherited(l, a) IN
           /\ from.sens \in {"internal", "restricted"}
           /\ from.target \in Targets \cup {None}
           /\ from.cites \in NoteIds \cup {None}
           /\ from.cites # None => Exists(from.cites) /\ from.sens = notes[from.cites].sens
<1>1. Exists(a) => notes[a] \in NoteType
  BY DEF Labelled, AccessTypeOK, Exists
<1> QED
  BY <1>1 DEF Inherited, NoteType

\* Every write of a note, by record or by record_finding.
LEMMA RecordSafe ==
    ASSUME AccessAssumption, Labelled, NEW l \in Lanes, NEW n \in NoteIds,
           Record(l, n) \/ RecordFinding(l, n)
    PROVE  Labelled' /\ Answered'
<1>1. CASE Record(l, n)
  <2>1. PICK type \in WriteTypes, status \in {"candidate", "verified"},
             sens \in {"internal", "restricted"}, target \in Targets \cup {None},
             created \in Created :
             Write(l, n, type, status, sens, target, created, None)
    BY <1>1 DEF Record
  <2>2. type \in Types /\ status \in Statuses /\ created \in Nat
    BY DEF AccessAssumption, Statuses
  <2>3. Labelled'
    BY <2>1, <2>2, WriteKeepsLabels, Zenon
  <2> QED  BY <2>1, <2>3, WriteAnswer
<1>2. CASE RecordFinding(l, n)
  <2>1. PICK a \in NoteIds, target \in Targets \cup {None} :
             Write(l, n, "finding", "candidate", Inherited(l, a).sens,
                   IF target # None THEN target ELSE Inherited(l, a).target, clock,
                   Inherited(l, a).cites)
    BY <1>2, Zenon DEF RecordFinding
  <2> DEFINE from == Inherited(l, a)
             tgt == IF target # None THEN target ELSE Inherited(l, a).target
  <2>2. /\ from.sens \in {"internal", "restricted"}
        /\ from.cites \in NoteIds \cup {None}
        /\ from.cites # None =>
              Exists(from.cites) /\ (notes[from.cites].sens = "restricted" => from.sens = "restricted")
        /\ tgt \in Targets \cup {None}
    BY InheritedLabel
  <2>3. "finding" \in Types /\ "candidate" \in Statuses /\ clock \in Nat
    BY DEF Types, Statuses, Labelled, AccessTypeOK, AccessAssumption
  <2>4. Write(l, n, "finding", "candidate", from.sens, tgt, clock, from.cites)
    BY <2>1
  <2> HIDE DEF from, tgt
  <2>5. Labelled'
    BY <2>2, <2>3, <2>4, WriteKeepsLabels, Zenon
  <2> QED  BY <2>4, <2>5, WriteAnswer
<1> QED
  BY <1>1, <1>2

\* recall: what it returns passed the clearance, the focus and the cutoff of
\* the engagement, and it says "no_match" only of a store it searched.
LEMMA RecallSafe ==
    ASSUME AccessAssumption, Labelled, NEW l \in Lanes, Recall(l)
    PROVE  Labelled' /\ Answered'
<1>1. PICK f \in Filters, some \in BOOLEAN :
        LET matches == IF some THEN Eligible(l, f) ELSE {}
            result == Outcome(l, f, matches)
        IN Emit(l, "recall", result, IF result = "matched" THEN matches ELSE {})
  BY Zenon DEF Recall
<1> DEFINE matches == IF some THEN Eligible(l, f) ELSE {}
           result == Outcome(l, f, matches)
           returned == IF result = "matched" THEN matches ELSE {}
<1>2. Emit(l, "recall", result, returned)
  BY <1>1, Zenon
<1>3. UNCHANGED <<clock, start, notes, indexed, store>> /\ Running(l)
  BY Zenon DEF Recall
<1>4. returned \subseteq Eligible(l, f)
  OBVIOUS
<1>5. /\ result \in {"matched", "no_match"} =>
           /\ MayRead(l) /\ RootOK /\ store # "missing" /\ ~IndexError /\ ~SearchError
      /\ result = "matched" => ~MatchError
  <2>1. result \in {"matched", "no_match"} =>
           /\ MayRead(l) /\ RootOK /\ store # "missing" /\ ~IndexError /\ ~SearchError
    BY DEF Outcome
  <2>2. result = "matched" => matches # {} /\ ~MatchError
    <3> HIDE DEF matches
    <3> QED BY DEF Outcome
  <2> QED BY <2>1, <2>2
<1>6. /\ result = "no_match" => MayRead(l) /\ store \in {"ok", "path", "returns"}
      /\ result = "matched" => MayRead(l) /\ store = "ok"
  BY <1>5 DEF Labelled, AccessTypeOK, AccessAssumption, RootOK, IndexError, SearchError, MatchError
<1> HIDE DEF matches, result, returned
<1>7. /\ event'.lane = l /\ event'.op = "recall" /\ event'.result = result
      /\ event'.returned = returned /\ event'.store = store
  BY <1>2 DEF Emit
<1>8. \A n \in returned : n \in NoteIds /\ Exists(n) /\ notes[n] \in NoteType
  BY <1>4 DEF Eligible, Labelled, AccessTypeOK, Exists
<1>9. Labelled'
  BY <1>2, <1>3, <1>8, ReadKeepsLabels
<1>10. BountyStaysRestricted'
  <2> SUFFICES ASSUME NEW n \in returned, Bound(notes[n].by), Eng[notes[n].by].mode # "project"
               PROVE  Eng[l].clearance = "restricted"
    BY <1>3, <1>7 DEF BountyStaysRestricted, Bound
  <2>1. notes[n].sens = "restricted"
    BY <1>8 DEF Labelled, Floor
  <2> QED
    BY <2>1, <1>4 DEF Eligible, Sensitivities, CanRead
<1>11. FocusedReadsThePast'
  <2> SUFFICES ASSUME NEW n \in returned, Eng[l].aperture = "focused"
               PROVE  /\ notes[n].target = Eng[l].focus
                      /\ notes[n].created < start[l]
                      /\ notes[n].type # "attempt" /\ notes[n].status = "verified"
    BY <1>3, <1>7 DEF FocusedReadsThePast
  <2>1. Bound(l) /\ Eng[l].focus # None /\ Row(l).cutoff /\ Row(l).statuses = {"verified"}
          /\ Row(l).types = {"finding", "learning"}
    BY DEF AccessAssumption, Bound, Row, Policy
  <2>2. start[l] \in Nat /\ notes[n].created \in Nat /\ f.before \in Nat \cup {None}
    BY <1>3, <1>8, <2>1 DEF Running, Labelled, AccessTypeOK, AccessAssumption, NoteType
  <2>3. notes[n].target = Eng[l].focus
    BY <1>4, <2>1 DEF Eligible
  <2>4. notes[n].status = "verified" /\ notes[n].type # "attempt"
    BY <1>4, <2>1 DEF Eligible, Searched
  <2>5. notes[n].created < start[l]
    <3>1. Cutoff(l, f) # None => notes[n].created < Cutoff(l, f)
      BY <1>4 DEF Eligible
    <3>2. Cutoff(l, f) = IF f.before # None /\ f.before < start[l] THEN f.before ELSE start[l]
      BY <2>1 DEF Cutoff
    <3>3. None \notin Nat
      BY DEF AccessAssumption
    <3> QED  BY <3>1, <3>2, <3>3, <2>2
  <2> QED  BY <2>3, <2>4, <2>5
<1>12. NoMatchMeansSearched'
  BY <1>6, <1>7 DEF NoMatchMeansSearched
<1> QED
  BY <1>9, <1>10, <1>11, <1>12 DEF Answered

\* get_note: a note it returns was visible to the engagement.
LEMMA GetNoteSafe ==
    ASSUME AccessAssumption, Labelled, NEW l \in Lanes, NEW n \in NoteIds, GetNote(l, n)
    PROVE  Labelled' /\ Answered'
<1>1. Running(l) /\ Exists(n) /\ UNCHANGED <<clock, start, notes, indexed, store>>
  BY DEF GetNote
<1>2. notes[n] \in NoteType
  BY <1>1 DEF Labelled, AccessTypeOK, Exists
<1>3. CASE Visible(l, n) /\ Emit(l, "get_note", "read", {n})
  <2>1. event'.lane = l /\ event'.op = "get_note" /\ event'.returned = {n}
    BY <1>3 DEF Emit
  <2>2. Labelled'
    BY <1>1, <1>3, ReadKeepsLabels
  <2>3. BountyStaysRestricted'
    BY <1>1, <1>3, <2>1 DEF BountyStaysRestricted, Bound, Visible, CanRead, Labelled, Floor
  <2>4. FocusedReadsThePast'
    <3> SUFFICES ASSUME Eng[l].aperture = "focused"
                 PROVE  /\ notes[n].target = Eng[l].focus
                        /\ notes[n].created < start[l]
                        /\ notes[n].type # "attempt" /\ notes[n].status = "verified"
      BY <1>1, <2>1 DEF FocusedReadsThePast
    <3>1. Bound(l) /\ Eng[l].focus # None /\ Row(l).cutoff /\ Row(l).statuses = {"verified"}
            /\ Row(l).types = {"finding", "learning"}
      BY DEF AccessAssumption, Bound, Row, Policy
    <3> QED  BY <1>3, <3>1 DEF Visible
  <2>5. NoMatchMeansSearched'
    BY <2>1 DEF NoMatchMeansSearched
  <2> QED  BY <2>2, <2>3, <2>4, <2>5 DEF Answered
<1>4. CASE Emit(l, "get_note", "denied", {})
  <2>1. event'.op = "get_note" /\ event'.returned = {}
    BY <1>4 DEF Emit
  <2>2. Labelled'
    BY <1>1, <1>4, ReadKeepsLabels
  <2> QED
    BY <2>1, <2>2 DEF Answered, BountyStaysRestricted, FocusedReadsThePast, NoMatchMeansSearched
<1> QED
  BY <1>3, <1>4 DEF GetNote

\* set_status changes no label, no writer and no citation.
LEMMA SetStatusSafe ==
    ASSUME AccessAssumption, Labelled, NEW l \in Lanes, NEW n \in NoteIds,
           SetStatus(l, n) \/ SetStatusRefused(l, n)
    PROVE  Labelled' /\ Answered'
<1>1. event'.op = "set_status" /\ event'.returned = {}
  BY DEF SetStatus, SetStatusRefused, Emit
<1>2. Answered'
  BY <1>1 DEF Answered, BountyStaysRestricted, FocusedReadsThePast, NoMatchMeansSearched, Read
<1>3. CASE SetStatusRefused(l, n)
  <2>1. Emit(l, "set_status", "denied", {}) /\ UNCHANGED <<clock, start, notes, indexed, store>>
    BY <1>3 DEF SetStatusRefused
  <2> QED  BY <2>1, <1>2, ReadKeepsLabels
<1>4. CASE SetStatus(l, n)
  <2>1. PICK s \in NewStatuses : notes' = [notes EXCEPT ![n].status = s]
    BY <1>4 DEF SetStatus
  <2>2. notes[n] # None /\ UNCHANGED <<clock, start, indexed, store>>
    BY <1>4 DEF SetStatus, Exists
  <2>3. s \in Statuses /\ None \notin NoteType
    BY DEF AccessAssumption
  <2>4. notes \in [NoteIds -> NoteType \cup {None}] /\ notes[n] \in NoteType
    BY <2>2 DEF Labelled, AccessTypeOK
  <2>5. [notes[n] EXCEPT !.status = s] \in NoteType
    BY <2>3, <2>4 DEF NoteType
  <2>6. /\ notes' \in [NoteIds -> NoteType \cup {None}]
        /\ \A m \in NoteIds : (notes'[m] # None) <=> (notes[m] # None)
    BY <2>1, <2>2, <2>3, <2>4, <2>5
  <2>7. \A m \in NoteIds : notes[m] # None =>
          /\ notes'[m].by = notes[m].by /\ notes'[m].sens = notes[m].sens
          /\ notes'[m].cites = notes[m].cites
    BY <2>1, <2>4 DEF NoteType
  <2>8. AccessTypeOK'
    BY <1>1, <2>2, <2>6 DEF Labelled, AccessTypeOK, Exists
  <2>9. Floor' /\ Cited' /\ FindingKeepsLabel'
    <3>1. \A m \in NoteIds : notes[m] # None => notes[m].cites \in NoteIds \cup {None}
      BY <2>4 DEF NoteType
    <3>2. Floor'
      BY <2>6, <2>7 DEF Labelled, Floor, Exists, Bound
    <3>3. Cited'
      BY <2>6, <2>7, <3>1 DEF Labelled, Cited, Exists
    <3>4. FindingKeepsLabel'
      BY <2>6, <2>7, <3>1 DEF Labelled, Cited, FindingKeepsLabel, Exists
    <3> QED  BY <3>2, <3>3, <3>4
  <2> QED  BY <1>2, <2>8, <2>9 DEF Labelled
<1> QED
  BY <1>3, <1>4

\* vault_get, vault_list and vault_search are closed to a focused engagement.
LEMMA BrowseSafe ==
    ASSUME AccessAssumption, Labelled, NEW l \in Lanes, Browse(l)
    PROVE  Labelled' /\ Answered'
<1>1. /\ MayBrowse(l) /\ Emit(l, "browse", "read", {n \in NoteIds : Exists(n)})
      /\ UNCHANGED <<clock, start, notes, indexed, store>>
  BY DEF Browse
<1>2. event'.op = "browse" /\ event'.lane = l
  BY <1>1 DEF Emit
<1>3. Labelled'
  BY <1>1, ReadKeepsLabels
<1>4. Eng[l].aperture # "focused"
  BY <1>1 DEF MayBrowse, Bound, Row, Policy
<1> QED
  BY <1>2, <1>3, <1>4 DEF Answered, BountyStaysRestricted, FocusedReadsThePast,
     NoMatchMeansSearched, Read

\* No call and no change of the store leaves the invariant.
LEMMA AccessStep ==
    ASSUME AccessAssumption, AccessInv, [AccessNext]_accessVars
    PROVE  AccessInv'
<1>1. CASE event' = None /\ UNCHANGED notes /\ Labelled'
  BY <1>1 DEF AccessInv, Answered, BountyStaysRestricted, FocusedReadsThePast,
     NoMatchMeansSearched, Read
<1>2. CASE Return
  <2>1. Labelled'
    BY <1>2 DEF Return, AccessInv, Labelled, AccessTypeOK, Floor, Cited, FindingKeepsLabel,
       Exists, Bound
  <2> QED  BY <1>1, <1>2, <2>1 DEF Return
<1>3. CASE event = None /\ Tick
  <2>1. clock' \in 0..MaxClock /\ 0..clock \subseteq 0..clock'
    BY <1>3 DEF Tick, AccessInv, Labelled, AccessTypeOK, AccessAssumption
  <2>2. start' \in [Lanes -> 0..clock' \cup {None}]
    BY <1>3, <2>1 DEF Tick, AccessInv, Labelled, AccessTypeOK
  <2>3. Labelled'
    BY <1>3, <2>1, <2>2 DEF Tick, AccessInv, Labelled, AccessTypeOK, Floor, Cited,
       FindingKeepsLabel, Exists, Bound
  <2> QED  BY <1>1, <1>3, <2>3 DEF Tick
<1>4. CASE event = None /\ StoreFault
  <2>1. Labelled'
    BY <1>4 DEF StoreFault, AccessInv, Labelled, AccessTypeOK, Floor, Cited,
       FindingKeepsLabel, Exists, Bound
  <2> QED  BY <1>1, <1>4, <2>1 DEF StoreFault
<1>5. CASE event = None /\ StoreRepair
  <2>1. Labelled'
    BY <1>5 DEF StoreRepair, AccessInv, Labelled, AccessTypeOK, Floor, Cited,
       FindingKeepsLabel, Exists, Bound
  <2> QED  BY <1>1, <1>5, <2>1 DEF StoreRepair
<1>6. ASSUME event = None, NEW l \in Lanes, Engage(l)
      PROVE  AccessInv'
  <2>1. start' \in [Lanes -> 0..clock \cup {None}]
    BY <1>6 DEF Engage, AccessInv, Labelled, AccessTypeOK, AccessAssumption
  <2>2. Labelled'
    BY <1>6, <2>1 DEF Engage, AccessInv, Labelled, AccessTypeOK, Floor, Cited,
       FindingKeepsLabel, Exists, Bound
  <2> QED  BY <1>1, <1>6, <2>2 DEF Engage
<1>7. ASSUME NEW l \in Lanes, Call(l)
      PROVE  AccessInv'
  <2>1. Labelled
    BY DEF AccessInv
  <2> QED
    BY <1>7, <2>1, RecallSafe, BrowseSafe, RecordSafe, GetNoteSafe, SetStatusSafe
       DEF Call, AccessInv
<1>8. CASE UNCHANGED accessVars
  BY <1>8 DEF accessVars, AccessInv, Labelled, AccessTypeOK, Floor, Cited, FindingKeepsLabel,
     Exists, Bound, Answered, BountyStaysRestricted, FocusedReadsThePast,
     NoMatchMeansSearched, Read
<1> QED
  BY <1>2, <1>3, <1>4, <1>5, <1>6, <1>7, <1>8 DEF AccessNext

\* An empty vault.
LEMMA AccessStart ==
    ASSUME AccessAssumption, AccessInit
    PROVE  AccessInv
<1>1. Labelled
  BY DEF AccessAssumption, AccessInit, Labelled, AccessTypeOK, Floor, Cited,
     FindingKeepsLabel, Exists
<1> QED
  BY <1>1 DEF AccessInit, AccessInv, Answered, BountyStaysRestricted, FocusedReadsThePast,
     NoMatchMeansSearched, Read

\* The labels and the answers of every reachable state.
THEOREM AccessInvariant ==
    ASSUME AccessAssumption
    PROVE  AccessSpec => []AccessInv
<1>1. AccessInit => AccessInv
  BY AccessStart
<1>2. AccessInv /\ [AccessNext]_accessVars => AccessInv'
  BY AccessStep
<1> QED
  BY <1>1, <1>2, PTL DEF AccessSpec

\* Only notes that exist are indexed or returned by any tool of mcp_server.py.
THEOREM AccessTypeCorrect ==
    ASSUME AccessAssumption
    PROVE  AccessSpec => []AccessTypeOK
<1>1. AccessInv => AccessTypeOK
  BY DEF AccessInv, Labelled
<1> QED
  BY <1>1, AccessInvariant, PTL

\* For any engagements, what a bounty or a modeless one writes is returned by
\* recall and get_note to no process of internal clearance, whatever label
\* it asked for and whoever verified the note (apply_record_policy, can_read).
THEOREM BountyStaysRestrictedInvariant ==
    ASSUME AccessAssumption
    PROVE  AccessSpec => []BountyStaysRestricted
<1>1. AccessInv => BountyStaysRestricted
  BY DEF AccessInv, Answered
<1> QED
  BY <1>1, AccessInvariant, PTL

\* A finding never sheds the label of the attempt it cites, of whatever
\* engagement that attempt was (record_finding).
THEOREM FindingKeepsLabelInvariant ==
    ASSUME AccessAssumption
    PROVE  AccessSpec => []FindingKeepsLabel
<1>1. AccessInv => FindingKeepsLabel
  BY DEF AccessInv, Labelled
<1> QED
  BY <1>1, AccessInvariant, PTL

\* No tool returns to a focused engagement what is not verified, not of its
\* target, or written since it started, with any filter its caller passes
\* (_recall's cutoff, require_note_visible, require_memory_operation).
THEOREM FocusedReadsThePastInvariant ==
    ASSUME AccessAssumption
    PROVE  AccessSpec => []FocusedReadsThePast
<1>1. AccessInv => FocusedReadsThePast
  BY DEF AccessInv, Answered
<1> QED
  BY <1>1, AccessInvariant, PTL

\* "no_match" is said of a store that was searched, under any fault of it
\* (_recall's result codes).
THEOREM NoMatchMeansSearchedInvariant ==
    ASSUME AccessAssumption
    PROVE  AccessSpec => []NoMatchMeansSearched
<1>1. AccessInv => NoMatchMeansSearched
  BY DEF AccessInv, Answered
<1> QED
  BY <1>1, AccessInvariant, PTL

\* A store health calls unready answers no recall, and one it calls ready fails
\* one only in the search, over a match's path or in recording what it returns
\* (_index_health, _recall), of any recall whose filters are well formed: a
\* malformed filter is answered "unavailable" before the store is looked at.
THEOREM HealthTruthfulInvariant ==
    ASSUME AccessAssumption, \A f \in Filters : f.bad # "filter"
    PROVE  AccessSpec => []HealthTruthful
<1>1. AccessInit => HealthTruthful
  BY DEF AccessInit, HealthTruthful
<1>2. AccessInv /\ HealthTruthful /\ [AccessNext]_accessVars => HealthTruthful'
  <2> SUFFICES ASSUME AccessInv, HealthTruthful, [AccessNext]_accessVars
               PROVE  HealthTruthful'
    OBVIOUS
  <2>1. store \in Faults \cup {"ok"}
    BY DEF AccessInv, Labelled, AccessTypeOK
  <2>2. CASE event' = None
    BY <2>2 DEF HealthTruthful
  <2>3. CASE UNCHANGED accessVars
    BY <2>3 DEF accessVars, HealthTruthful, RecallReady, IndexError, SearchError, MatchError
  <2>4. ASSUME NEW l \in Lanes, Recall(l)
        PROVE  HealthTruthful'
    <3>1. PICK f \in Filters, some \in BOOLEAN :
            LET matches == IF some THEN Eligible(l, f) ELSE {}
                result == Outcome(l, f, matches)
            IN Emit(l, "recall", result, IF result = "matched" THEN matches ELSE {})
      BY <2>4, Zenon DEF Recall
    <3> DEFINE matches == IF some THEN Eligible(l, f) ELSE {}
               result == Outcome(l, f, matches)
    <3>2. event'.result = result /\ store' = store
      BY <2>4, <3>1 DEF Emit, Recall
    <3> HIDE DEF matches
    <3>3. result \notin {"denied", "query_error", "filtered"} =>
            /\ result \in {"matched", "no_match"} => RecallReady
            /\ (RecallReady /\ result \notin {"matched", "no_match"})
                 => SearchError \/ MatchError
      BY <2>1 DEF Outcome, RecallReady, IndexError, SearchError, MatchError, RootOK,
         AccessAssumption
    <3> QED
      BY <3>2, <3>3 DEF HealthTruthful, RecallReady, IndexError, SearchError, MatchError
  <2>5. ASSUME NEW l \in Lanes, Call(l), ~Recall(l)
        PROVE  HealthTruthful'
    <3>1. event'.op # "recall"
      BY <2>5 DEF Call, Browse, Record, RecordFinding, Write, GetNote, SetStatus,
         SetStatusRefused, Emit
    <3> QED  BY <3>1 DEF HealthTruthful
  <2>6. ASSUME event = None, Tick \/ StoreFault \/ StoreRepair \/ \E l \in Lanes : Engage(l)
        PROVE  event' = None
    BY <2>6 DEF Tick, StoreFault, StoreRepair, Engage
  <2> QED
    BY <2>2, <2>3, <2>4, <2>5, <2>6 DEF AccessNext, Return
<1> QED
  BY <1>1, <1>2, AccessInvariant, PTL DEF AccessSpec

-----------------------------------------------------------------------------
(* The broker.  The serve thread judges a connection it accepted some steps *)
(* before, and close runs beside it.  The invariant follows a connection    *)
(* from the backlog to its answer (Queued, Served) and says how far start   *)
(* and close have come (Phases).                                            *)

\* A connection made and not answered: it waits, or its process has left.
Unanswered(c) == client[c] \in {"waiting", "gone"}

\* The backlog has every connection once, all unanswered.
Queued ==
    /\ \A i \in 1..Len(backlog) : Unanswered(backlog[i])
    /\ \A i, j \in 1..Len(backlog) : backlog[i] = backlog[j] => i = j

\* The connection being served has left the backlog; it is unanswered until it
\* is bridged.
Served ==
    /\ \A i \in 1..Len(backlog) : backlog[i] # serving
    /\ thread = "auth" => Unanswered(serving)
    /\ thread = "bridge" => client[serving] \in {"bridged", "gone"}

\* What start has begun and what close has undone.
Phases ==
    /\ sup \in {"new", "spawned"} => thread = Absent
    /\ NeedsBackend => (backend = Absent => thread = Absent /\ sup # "spawned")
    /\ ~listening => stop
    /\ sup \in {"stopping", "reaping", "joining", "closed", "raised"} => stop
    /\ sup \in {"reaping", "joining", "closed", "raised"} => ~listening
    /\ sup \in {"joining", "closed", "raised"} =>
         (backend = "alive" => "backend" \in complaints)
    /\ sup \in {"closed", "raised"} =>
         /\ ThreadAlive => "thread" \in complaints
         /\ sup = "closed" <=> complaints = {}

\* Before the bridge nothing has reached the backend.
Bridging ==
    /\ thread \in {Absent, "accept", "auth"} => bridged = {}
    /\ IsFiniteSet(bridged) /\ OneSession

BrokerInv ==
    /\ BrokerTypeOK /\ Queued /\ Served /\ Phases /\ Bridging
    /\ FailureHasCause /\ NoneIsADenial

-----------------------------------------------------------------------------
\* The invariant holds initially.
LEMMA BrokerInvInit ==
    ASSUME BrokerAssumption, Init
    PROVE  BrokerInv
<1> USE DEF Init, BrokerAssumption, Absent
<1>1. BrokerTypeOK
  <2>1. backlog \in Seq(Clients) /\ bridged \subseteq Clients /\ faults \in 0..MaxFaults
    OBVIOUS
  <2>2. listening \in BOOLEAN /\ stop \in BOOLEAN /\ launched \in BOOLEAN
    OBVIOUS
  <2> QED BY <2>1, <2>2 DEF BrokerTypeOK
<1>2. Queued /\ Served /\ Phases
  BY DEF Queued, Served, Phases, ThreadAlive
<1>3. Bridging
  BY FS_EmptySet DEF Bridging, OneSession
<1>4. FailureHasCause /\ NoneIsADenial
  BY DEF FailureHasCause, NoneIsADenial
<1> QED BY <1>1, <1>2, <1>3, <1>4 DEF BrokerInv

-----------------------------------------------------------------------------
(* The supervisor. *)

\* Steps of the supervisor that move no connection.
SupStep == StartBackend \/ StartThread \/ Ready \/ Launch \/ Finish \/ StopBackend \/ Join

\* They keep the invariant.
LEMMA SupervisorKeeps ==
    ASSUME BrokerAssumption, BrokerInv, SupStep
    PROVE  BrokerInv'
<1> USE DEF BrokerAssumption, Absent, SupStep
<1>1. UNCHANGED <<serving, listening, stop, failure, client, backlog, bridged>>
  BY DEF StartBackend, StartThread, Ready, Launch, Finish, StopBackend, Join
<1>2. BrokerTypeOK'
  <2>0. BrokerTypeOK /\ Phases
    BY DEF BrokerInv
  <2>1. launched' \in BOOLEAN
    BY <2>0, Zenon DEF BrokerTypeOK, StartBackend, StartThread, Ready, Launch, Finish, StopBackend, Join
  <2>2. faults' \in 0..MaxFaults
    BY <2>0 DEF BrokerTypeOK, StartBackend, StartThread, Ready, Launch, Finish, StopBackend, Join
  <2>3. /\ sup' \in {"new", "spawned", "starting", "ready", "closing", "stopping",
                     "reaping", "joining", "closed", "raised"}
        /\ backend' \in {Absent, "alive", "exited"}
    BY <2>0 DEF BrokerTypeOK, StartBackend, StartThread, Ready, Launch, Finish, StopBackend, Join
  <2>5. complaints' \subseteq {"listener", "backend", "thread", "runtime"}
    BY <2>0 DEF BrokerTypeOK, StartBackend, StartThread, Ready, Launch, Finish, StopBackend, Join
  <2>4. /\ thread' \in {Absent, "accept", "auth", "bridge", "end"}
        /\ serving' # Absent <=> thread' \in {"auth", "bridge"}
    BY <2>0, <1>1 DEF BrokerTypeOK, Phases, StartBackend, StartThread, Ready, Launch, Finish,
                      StopBackend, Join
  <2> QED BY <1>1, <2>0, <2>1, <2>2, <2>3, <2>4, <2>5 DEF BrokerTypeOK
<1>3. Queued' /\ Served'
  BY <1>1 DEF BrokerInv, Queued, Served, Unanswered, StartBackend, StartThread, Ready, Launch,
              Finish, StopBackend, Join
<1>4. Phases'
  BY <1>1 DEF BrokerInv, BrokerTypeOK, Phases, ThreadAlive, NeedsBackend, StartBackend,
              StartThread, Ready, Launch, Finish, StopBackend, Join
<1>5. Bridging'
  BY <1>1 DEF BrokerInv, Bridging, OneSession, Phases, StartBackend, StartThread, Ready, Launch,
              Finish, StopBackend, Join
<1>6. FailureHasCause' /\ NoneIsADenial'
  BY <1>1 DEF BrokerInv, BrokerTypeOK, FailureHasCause, NoneIsADenial, NeedsBackend, StartBackend,
              StartThread, Ready, Launch, Finish, StopBackend, Join
<1> QED BY <1>2, <1>3, <1>4, <1>5, <1>6 DEF BrokerInv

\* Closing the listener resets the backlog and keeps the invariant.
LEMMA CloseKeeps ==
    ASSUME BrokerAssumption, BrokerInv, CloseStep
    PROVE  BrokerInv'
<1> USE DEF BrokerAssumption, Absent
<1>1. /\ UNCHANGED <<backend, thread, serving, failure, bridged, launched>>
      /\ \/ /\ sup = "closing" /\ sup' = "stopping" /\ stop' = TRUE /\ listening' = listening
         \/ /\ sup = "stopping" /\ sup' = "reaping" /\ listening' = FALSE /\ stop' = stop
      /\ backlog' = IF listening' THEN backlog ELSE <<>>
      /\ client' = [c \in Clients |-> IF ~listening' /\ Contains(backlog, c) /\ Connected(c)
                                      THEN "reset" ELSE client[c]]
      /\ \/ UNCHANGED <<complaints, faults>>
         \/ /\ faults < MaxFaults /\ faults' = faults + 1
            /\ complaints' = complaints \cup {"listener"}
  BY DEF CloseStep, CloseListener
<1>2. /\ BrokerTypeOK /\ Served /\ listening' \in BOOLEAN /\ stop' \in BOOLEAN
      /\ client \in [Clients -> {"idle", "waiting", "denied", "bridged", "closed",
                                 "reset", "gone", "done"}]
      /\ backlog \in Seq(Clients)
  BY <1>1, Zenon DEF BrokerInv, BrokerTypeOK
<1>3. \A c \in Clients : client'[c] = client[c] \/ (client[c] = "waiting" /\ client'[c] = "reset")
  BY <1>1, <1>2 DEF Connected
<1>4. BrokerTypeOK'
  <2>1. client' \in [Clients -> {"idle", "waiting", "denied", "bridged", "closed",
                                 "reset", "gone", "done"}]
    BY <1>1, <1>2
  <2>2. backlog' \in Seq(Clients)
    BY <1>1, <1>2
  <2>3. faults \in 0..MaxFaults /\ complaints \subseteq {"listener", "backend", "thread", "runtime"}
    BY DEF BrokerInv, BrokerTypeOK
  <2>4. \/ complaints' = complaints /\ faults' = faults
        \/ complaints' = complaints \cup {"listener"} /\ faults < MaxFaults /\ faults' = faults + 1
    BY <1>1, Zenon
  <2>5. faults' \in 0..MaxFaults
    BY <2>3, <2>4
  <2>6. complaints' \subseteq {"listener", "backend", "thread", "runtime"}
    BY <2>3, <2>4
  <2> QED BY <1>1, <1>2, <2>1, <2>2, <2>5, <2>6 DEF BrokerTypeOK
<1>5. Queued' /\ Served'
  <2>1. CASE listening'
    <3>1. backlog' = backlog /\ client' = client
      BY <1>1, <1>2, <2>1
    <3> QED BY <1>1, <3>1 DEF BrokerInv, Queued, Served, Unanswered
  <2>2. CASE ~listening'
    <3>1. backlog' = <<>>
      BY <1>1, <2>2
    <3>2. thread \in {"auth", "bridge"} => serving \in Clients /\ ~Contains(backlog, serving)
      BY <1>2 DEF Served, BrokerTypeOK, Contains
    <3>3. thread \in {"auth", "bridge"} => client'[serving] = client[serving]
      BY <1>1, <3>2
    <3> QED BY <1>1, <1>2, <3>1, <3>3 DEF Queued, Served, Unanswered
  <2> QED BY <2>1, <2>2
<1>6. Phases'
  BY <1>1 DEF BrokerInv, Phases, ThreadAlive
<1>7. Bridging' /\ NoneIsADenial'
  BY <1>1 DEF BrokerInv, Bridging, OneSession, NoneIsADenial
<1>8. FailureHasCause'
  BY <1>1, <1>3 DEF BrokerInv, BrokerTypeOK, FailureHasCause
<1> QED BY <1>4, <1>5, <1>6, <1>7, <1>8 DEF BrokerInv

-----------------------------------------------------------------------------
(* The serve thread. *)

\* The next connection is accepted, or accept fails on a closed listener.
LEMMA AcceptKeeps ==
    ASSUME BrokerAssumption, BrokerInv, Accept \/ AcceptEnds
    PROVE  BrokerInv'
<1> USE DEF BrokerAssumption, Absent
<1>1. CASE Accept
  <2>1. /\ thread = "accept" /\ listening /\ backlog # <<>> /\ serving' = Head(backlog)
        /\ backlog' = Tail(backlog) /\ thread' = "auth"
        /\ UNCHANGED <<sup, backend, listening, stop, failure, client, bridged, launched, faults,
                       complaints>>
    BY <1>1 DEF Accept
  <2>2. /\ backlog \in Seq(Clients) /\ Len(backlog) > 0 /\ backlog' \in Seq(Clients)
        /\ serving' = backlog[1] /\ serving' \in Clients
        /\ Len(backlog') = Len(backlog) - 1
        /\ \A i \in 1..Len(backlog') : i + 1 \in 1..Len(backlog) /\ backlog'[i] = backlog[i + 1]
    BY <2>1 DEF BrokerInv, BrokerTypeOK
  <2>3. BrokerTypeOK'
    BY <2>1, <2>2 DEF BrokerInv, BrokerTypeOK
  <2>4. Queued' /\ Served'
    BY <2>1, <2>2 DEF BrokerInv, Queued, Served, Unanswered
  <2>5. Phases' /\ Bridging' /\ FailureHasCause' /\ NoneIsADenial'
    BY <2>1 DEF BrokerInv, Phases, Bridging, OneSession, FailureHasCause, NoneIsADenial, ThreadAlive
  <2> QED BY <2>3, <2>4, <2>5 DEF BrokerInv
<1>2. CASE AcceptEnds
  <2>1. /\ thread = "accept" /\ ~listening /\ thread' = "end"
        /\ failure' = (IF stop THEN failure ELSE "failed")
        /\ UNCHANGED <<sup, backend, serving, listening, stop, client, backlog, bridged, launched, faults,
                       complaints>>
    BY <1>2 DEF AcceptEnds
  <2>2. failure' = failure
    BY <2>1 DEF BrokerInv, Phases
  <2>3. BrokerTypeOK'
    BY <2>1, <2>2 DEF BrokerInv, BrokerTypeOK
  <2>4. Queued' /\ Served'
    BY <2>1 DEF BrokerInv, Queued, Served, Unanswered
  <2>5. Phases' /\ Bridging' /\ FailureHasCause' /\ NoneIsADenial'
    BY <2>1, <2>2 DEF BrokerInv, Phases, Bridging, OneSession, FailureHasCause, NoneIsADenial,
                      ThreadAlive
  <2> QED BY <2>3, <2>4, <2>5 DEF BrokerInv
<1> QED BY <1>1, <1>2

\* What an answer changes: the connection served, if it still waits.
LEMMA AnswerEffect ==
    ASSUME BrokerAssumption, BrokerInv, thread = "auth",
           NEW a \in {"denied", "closed", "bridged"}, client' = Answer(serving, a)
    PROVE  /\ serving \in Clients
           /\ client' \in [Clients -> {"idle", "waiting", "denied", "bridged", "closed",
                                       "reset", "gone", "done"}]
           /\ \A c \in Clients \ {serving} : client'[c] = client[c]
           /\ \/ client'[serving] = a
              \/ client'[serving] = "gone" /\ client' = client
           /\ client[serving] \in {"waiting", "gone"}
<1>1. serving \in Clients /\ Unanswered(serving)
      /\ client \in [Clients -> {"idle", "waiting", "denied", "bridged", "closed",
                                 "reset", "gone", "done"}]
  BY DEF BrokerInv, BrokerTypeOK, Served, Absent
<1> QED BY <1>1 DEF Answer, Connected, Unanswered

\* The answers of the authentication keep the invariant.
LEMMA AuthKeeps ==
    ASSUME BrokerAssumption, BrokerInv,
           Deny \/ AuthTimeout \/ DenyAperture \/ Unavailable \/ Authenticate
    PROVE  BrokerInv'
<1> USE DEF BrokerAssumption, Absent
<1>1. /\ thread = "auth"
      /\ UNCHANGED <<sup, backend, listening, stop, backlog, launched, faults, complaints>>
  BY DEF Deny, AuthTimeout, DenyAperture, Unavailable, Authenticate
<1> DEFINE Cause == \E c \in Clients :
                      client[c] \in IF Kind[c] = "relay" THEN {"gone", "denied"}
                                                         ELSE {"gone", "closed"}
<1>2. PICK a \in {"denied", "closed", "bridged"} : client' = Answer(serving, a)
  BY Zenon DEF Deny, AuthTimeout, DenyAperture, Unavailable, Authenticate
<1>3. /\ serving \in Clients
      /\ client' \in [Clients -> {"idle", "waiting", "denied", "bridged", "closed",
                                  "reset", "gone", "done"}]
      /\ \A c \in Clients \ {serving} : client'[c] = client[c]
      /\ client[serving] \in {"waiting", "gone"}
      /\ client[serving] = "gone" => client' = client
  BY <1>1, <1>2, AnswerEffect DEF Answer, Connected, BrokerInv, Served, Unanswered
<1>4. \/ /\ thread' \in {"accept", "end"} /\ serving' = Absent /\ bridged' = bridged
      \/ /\ thread' = "bridge" /\ serving' = serving /\ bridged' = bridged \cup {serving}
         /\ Kind[serving] = "relay" /\ Aperture # "none"
  BY Zenon DEF Deny, AuthTimeout, DenyAperture, Unavailable, Authenticate, Ends, Matches, AfterAuth
<1>5. \/ failure' = failure \/ failure' = "denied"
      \/ failure' = "failed" /\ Cause'
  <2>0. ~Connected(serving) => client'[serving] = "gone"
    BY <1>3 DEF Connected
  <2>1. CASE Deny
    BY <2>0, <2>1, <1>3 DEF Deny, Ends
  <2>2. CASE AuthTimeout
    <3>1. Kind[serving] = "silent" /\ client' = Answer(serving, "closed") /\ failure' = "failed"
      BY <2>2 DEF AuthTimeout, Ends
    <3> QED BY <1>1, <1>3, <3>1, AnswerEffect
  <2>3. CASE DenyAperture
    BY <2>0, <2>3, <1>3 DEF DenyAperture, Ends
  <2>4. CASE Unavailable
    <3>1. Kind[serving] = "relay" /\ client' = Answer(serving, "denied") /\ failure' = "failed"
      BY <2>4 DEF Unavailable, Ends, Matches
    <3> QED BY <1>1, <1>3, <3>1, AnswerEffect
  <2>5. CASE Authenticate
    <3>1. Kind[serving] = "relay" /\ client' = Answer(serving, "bridged")
          /\ (failure' = failure \/ (~Connected(serving) /\ failure' = "failed"))
      BY <2>5 DEF Authenticate, Ends, Matches
    <3> QED BY <1>1, <1>3, <3>1 DEF Connected
  <2> QED BY <2>1, <2>2, <2>3, <2>4, <2>5
<1>6. BrokerTypeOK'
  BY <1>1, <1>3, <1>4, <1>5 DEF BrokerInv, BrokerTypeOK
<1>7. Queued' /\ Served'
  <2>1. backlog \in Seq(Clients) /\ (\A i \in 1..Len(backlog) : backlog[i] # serving)
    BY DEF BrokerInv, BrokerTypeOK, Served
  <2>2. \A i \in 1..Len(backlog) : backlog[i] \in Clients \ {serving}
    BY <2>1
  <2>3. \A i \in 1..Len(backlog) : client'[backlog[i]] = client[backlog[i]]
    BY <1>3, <2>2
  <2>4. Queued'
    BY <1>1, <2>3 DEF BrokerInv, Queued, Unanswered
  <2>5. Served'
    <3>1. thread' = "bridge" => serving' = serving /\ client'[serving] \in {"bridged", "gone"}
      <4>1. thread' = "bridge" => client' = Answer(serving, "bridged")
        BY Zenon DEF Deny, AuthTimeout, DenyAperture, Unavailable, Authenticate, Ends
      <4> QED BY <1>1, <1>3, <1>4, <4>1, AnswerEffect
    <3> QED BY <1>1, <1>4, <2>2, <3>1 DEF Served
  <2> QED BY <2>4, <2>5
<1>8. Phases' /\ NoneIsADenial'
  BY <1>1, <1>4 DEF BrokerInv, Phases, NoneIsADenial, ThreadAlive
<1>9. Bridging'
  <2>1. bridged = {} /\ IsFiniteSet(bridged) /\ OneSession
    BY <1>1 DEF BrokerInv, Bridging
  <2>2. CASE bridged' = bridged /\ thread' \in {"accept", "end"}
    BY <2>1, <2>2 DEF Bridging, OneSession
  <2>3. CASE bridged' = bridged \cup {serving} /\ thread' = "bridge" /\ Kind[serving] = "relay"
    <3>1. bridged' = {serving}
      BY <2>1, <2>3
    <3>2. IsFiniteSet({serving}) /\ Cardinality({serving}) = 1
      BY FS_Singleton
    <3> QED BY <2>3, <3>1, <3>2 DEF Bridging, OneSession
  <2> QED BY <1>4, <2>2, <2>3
<1>10. FailureHasCause'
  <2>1. Cause => Cause'
    BY <1>3
  <2> QED BY <1>1, <1>5, <2>1 DEF BrokerInv, FailureHasCause
<1> QED BY <1>6, <1>7, <1>8, <1>9, <1>10 DEF BrokerInv

\* The end of the bridge, and of the backend, keep it.
LEMMA BridgeKeeps ==
    ASSUME BrokerAssumption, BrokerInv, BridgeInput \/ BridgeEnds \/ BridgeBreaks \/ BackendDies
    PROVE  BrokerInv'
<1> USE DEF BrokerAssumption, Absent
<1>1. CASE BridgeInput \/ BackendDies
  <2>1. /\ backend = "alive" /\ backend' = "exited"
        /\ UNCHANGED <<sup, thread, serving, listening, stop, failure, client, backlog, bridged, launched,
                       complaints>>
        /\ faults' = faults \/ (faults < MaxFaults /\ faults' = faults + 1)
    BY <1>1 DEF BridgeInput, BackendDies
  <2>2. BrokerTypeOK'
    BY <2>1 DEF BrokerInv, BrokerTypeOK
  <2>3. Queued' /\ Served'
    BY <2>1 DEF BrokerInv, Queued, Served, Unanswered
  <2>4. Phases' /\ Bridging' /\ NoneIsADenial'
    BY <2>1 DEF BrokerInv, Phases, Bridging, OneSession, NoneIsADenial, ThreadAlive
  <2>5. FailureHasCause'
    BY <2>1 DEF BrokerInv, BrokerTypeOK, FailureHasCause
  <2> QED BY <2>2, <2>3, <2>4, <2>5 DEF BrokerInv
<1>2. CASE BridgeEnds
  <2>1. /\ thread = "bridge" /\ thread' = "end" /\ serving' = Absent
        /\ client' = [client EXCEPT ![serving] = IF client[serving] = "bridged" THEN "done"
                                                 ELSE client[serving]]
        /\ UNCHANGED <<sup, backend, listening, stop, failure, backlog, bridged, launched, faults,
                       complaints>>
    BY <1>2 DEF BridgeEnds
  <2>2. /\ client \in [Clients -> {"idle", "waiting", "denied", "bridged", "closed",
                                   "reset", "gone", "done"}]
        /\ backlog \in Seq(Clients)
    BY DEF BrokerInv, BrokerTypeOK
  <2>3. \A c \in Clients : client'[c] = client[c] \/ (client[c] = "bridged" /\ client'[c] = "done")
    BY <2>1, <2>2
  <2>4. BrokerTypeOK'
    BY <2>1, <2>2 DEF BrokerInv, BrokerTypeOK
  <2>5. Queued' /\ Served'
    BY <2>1, <2>2, <2>3 DEF BrokerInv, Queued, Served, Unanswered
  <2>6. Phases' /\ Bridging' /\ NoneIsADenial'
    BY <2>1 DEF BrokerInv, Phases, Bridging, OneSession, NoneIsADenial, ThreadAlive
  <2>7. FailureHasCause'
    BY <2>1, <2>3 DEF BrokerInv, FailureHasCause
  <2> QED BY <2>4, <2>5, <2>6, <2>7 DEF BrokerInv
<1>3. CASE BridgeBreaks
  <2>1. /\ thread = "bridge" /\ client[serving] = "gone" /\ thread' = "end"
        /\ serving' = Absent /\ failure' = "failed"
        /\ UNCHANGED <<sup, backend, listening, stop, client, backlog, bridged, launched, faults,
                       complaints>>
    BY <1>3 DEF BridgeBreaks, Ends
  <2>2. serving \in Clients /\ backlog \in Seq(Clients)
    BY <2>1 DEF BrokerInv, BrokerTypeOK
  <2>3. BrokerTypeOK'
    BY <2>1 DEF BrokerInv, BrokerTypeOK
  <2>4. Queued' /\ Served'
    BY <2>1, <2>2 DEF BrokerInv, Queued, Served, Unanswered
  <2>5. Phases' /\ Bridging' /\ NoneIsADenial'
    BY <2>1 DEF BrokerInv, Phases, Bridging, OneSession, NoneIsADenial, ThreadAlive
  <2>6. FailureHasCause'
    BY <2>1, <2>2 DEF FailureHasCause
  <2> QED BY <2>3, <2>4, <2>5, <2>6 DEF BrokerInv
<1> QED BY <1>1, <1>2, <1>3

-----------------------------------------------------------------------------
(* The processes that connect. *)

\* A connection, a refusal, a timeout and a departure keep it.
LEMMA ClientKeeps ==
    ASSUME BrokerAssumption, BrokerInv, NEW c \in Clients,
           Connect(c) \/ Unreachable(c) \/ GiveUp(c) \/ Leave(c)
    PROVE  BrokerInv'
<1> USE DEF BrokerAssumption, Absent
<1>1. UNCHANGED <<sup, backend, thread, serving, listening, stop, failure, bridged, launched, faults,
                complaints>>
  BY DEF Connect, Unreachable, GiveUp, Leave
<1>2. /\ client \in [Clients -> {"idle", "waiting", "denied", "bridged", "closed",
                                 "reset", "gone", "done"}]
      /\ backlog \in Seq(Clients)
      /\ \A i \in 1..Len(backlog) : backlog[i] \in Clients
  BY DEF BrokerInv, BrokerTypeOK
<1>3. \/ /\ client[c] = "idle" /\ client' = [client EXCEPT ![c] = "waiting"]
         /\ backlog' = Append(backlog, c)
      \/ /\ client[c] = "idle" /\ client' = [client EXCEPT ![c] = "reset"] /\ backlog' = backlog
      \/ /\ client[c] = "waiting" /\ client' = [client EXCEPT ![c] = "gone"]
         /\ backlog' = backlog
      \/ /\ client[c] = "bridged" /\ client' = [client EXCEPT ![c] = "gone"] /\ backlog' = backlog
  BY Zenon DEF Connect, Unreachable, GiveUp, Leave, Connected
<1>4. BrokerTypeOK'
  BY <1>1, <1>2, <1>3 DEF BrokerInv, BrokerTypeOK
<1>5. \A d \in Clients : Unanswered(d) => Unanswered(d)'
  BY <1>2, <1>3 DEF Unanswered
<1>6. Queued' /\ Served'
  <2>0. /\ \A i \in 1..Len(backlog) : Unanswered(backlog[i]) /\ backlog[i] # serving
        /\ \A i, j \in 1..Len(backlog) : backlog[i] = backlog[j] => i = j
        /\ thread = "auth" => serving \in Clients /\ Unanswered(serving)
        /\ thread = "bridge" => serving \in Clients /\ client[serving] \in {"bridged", "gone"}
        /\ serving # Absent => thread \in {"auth", "bridge"}
    BY DEF BrokerInv, BrokerTypeOK, Queued, Served
  <2>1. CASE backlog' = backlog
    <3>1. thread = "bridge" => client'[serving] \in {"bridged", "gone"}
      BY <1>2, <1>3, <2>0
    <3> QED BY <1>1, <1>2, <1>5, <2>0, <2>1, <3>1 DEF Queued, Served
  <2>2. CASE client[c] = "idle" /\ client' = [client EXCEPT ![c] = "waiting"]
             /\ backlog' = Append(backlog, c)
    <3>1. /\ Len(backlog') = Len(backlog) + 1 /\ backlog'[Len(backlog) + 1] = c
          /\ \A i \in 1..Len(backlog) : backlog'[i] = backlog[i]
      BY <1>2, <2>2
    <3>2. \A i \in 1..Len(backlog) : backlog[i] # c
      BY <2>0, <2>2 DEF Unanswered
    <3>3. Unanswered(c)'
      BY <1>2, <2>2 DEF Unanswered
    <3>4. c # serving
      BY <2>0, <2>2 DEF Unanswered
    <3>5. thread = "bridge" => client'[serving] \in {"bridged", "gone"}
      BY <1>2, <2>0, <2>2, <3>4
    <3> QED BY <1>1, <1>2, <1>5, <2>0, <3>1, <3>2, <3>3, <3>4, <3>5 DEF Queued, Served
  <2> QED BY <1>3, <2>1, <2>2
<1>7. Phases' /\ Bridging' /\ NoneIsADenial'
  BY <1>1 DEF BrokerInv, Phases, Bridging, OneSession, NoneIsADenial, ThreadAlive
<1>8. FailureHasCause'
  BY <1>1, <1>2, <1>3 DEF BrokerInv, FailureHasCause
<1> QED BY <1>4, <1>6, <1>7, <1>8 DEF BrokerInv

-----------------------------------------------------------------------------
(* The invariant, and what follows from it. *)

\* The invariant holds throughout.
THEOREM BrokerInvariant ==
    ASSUME BrokerAssumption
    PROVE  Spec => []BrokerInv
<1>1. Init => BrokerInv
  BY BrokerInvInit
<1>2. ASSUME BrokerInv, Next
      PROVE  BrokerInv'
  <2>1. CASE Supervise
    BY <1>2, <2>1, SupervisorKeeps, CloseKeeps DEF Supervise, SupStep
  <2>2. CASE Serve \/ BackendDies
    BY <1>2, <2>2, AcceptKeeps, AuthKeeps, BridgeKeeps DEF Serve
  <2>3. CASE \E c \in Clients : Connect(c) \/ Unreachable(c) \/ GiveUp(c) \/ Leave(c)
    BY <1>2, <2>3, ClientKeeps
  <2> QED BY <1>2, <2>1, <2>2, <2>3 DEF Next
<1>3. BrokerInv /\ UNCHANGED vars => BrokerInv'
  <2> SUFFICES ASSUME BrokerInv, UNCHANGED vars
               PROVE  BrokerInv'
    OBVIOUS
  <2>1. BrokerTypeOK' /\ Phases' /\ Bridging' /\ NoneIsADenial'
    BY DEF BrokerInv, BrokerTypeOK, Phases, Bridging, OneSession, NoneIsADenial, ThreadAlive, vars
  <2>2. Queued' /\ Served' /\ FailureHasCause'
    BY DEF BrokerInv, Queued, Served, Unanswered, FailureHasCause, vars
  <2> QED BY <2>1, <2>2 DEF BrokerInv
<1> QED BY <1>1, <1>2, <1>3, PTL DEF Spec

\* The threads, the connections and the backlog keep their types.
THEOREM BrokerTypeCorrect ==
    ASSUME BrokerAssumption
    PROVE  Spec => []BrokerTypeOK
<1>1. BrokerInv => BrokerTypeOK
  BY DEF BrokerInv
<1> QED BY <1>1, BrokerInvariant, PTL

\* Whatever connects, retries or gives up, at most one connection ever reaches
\* the backend, and it presented the bound token and identity (_serve).
THEOREM OneSessionInvariant ==
    ASSUME BrokerAssumption
    PROVE  Spec => []OneSession
<1>1. BrokerInv => OneSession
  BY DEF BrokerInv, Bridging
<1> QED BY <1>1, BrokerInvariant, PTL

\* However close ends, no listening port is left, and a server process or a
\* thread that outlives it (one that survived SIGKILL, one that would not join)
\* is one close raised about (close).
THEOREM CloseLeavesNothingInvariant ==
    ASSUME BrokerAssumption
    PROVE  Spec => []CloseLeavesNothing
<1>1. BrokerInv => CloseLeavesNothing
  BY DEF BrokerInv, Phases, CloseLeavesNothing, ThreadAlive
<1> QED BY <1>1, BrokerInvariant, PTL

\* A failure that close reports has a cause; closing the listener under a
\* blocked accept is never one (_serve, close).
THEOREM FailureHasCauseInvariant ==
    ASSUME BrokerAssumption
    PROVE  Spec => []FailureHasCause
<1>1. BrokerInv => FailureHasCause
  BY DEF BrokerInv
<1> QED BY <1>1, BrokerInvariant, PTL

\* For aperture none there is never a backend or a bridged connection (start, _serve).
THEOREM NoneIsADenialInvariant ==
    ASSUME BrokerAssumption
    PROVE  Spec => []NoneIsADenial
<1>1. BrokerInv => NoneIsADenial
  BY DEF BrokerInv
<1> QED BY <1>1, BrokerInvariant, PTL

-----------------------------------------------------------------------------
(* Capture.  A process works from what it read when it started: the label  *)
(* of the response, whether a note existed, whether its row was spooled.   *)
(* The invariant says what its record still means at each of its steps     *)
(* (JobOK): its row is in the spool before anything may reject it, only    *)
(* what the filter lets through reaches the lock, and a label that lets    *)
(* the distiller see a text is true of the text.                           *)

Labels == {"internal", "restricted", NoValue}
SpoolRows == [key : Responses, label : Labels, named : BOOLEAN, ok : BOOLEAN,
              ended : BOOLEAN, whole : BOOLEAN]
NoteRows == [key : Responses, label : Labels]
Jobs == [pc : Pcs, resp : Responses \cup {NoValue}, key : Responses \cup {NoValue},
         label : Labels, named : BOOLEAN, root : BOOLEAN, tries : Nat, queue : Seq(SpoolRows),
         sizes : [1 .. Days -> Nat], whole : BOOLEAN]

Reasons == {"captured", "refused", "distillation_failed", "vault_unavailable",
            "capture_failed", "dedupe_lock_failed", "duplicate", "invalid",
            "dedupe_scan_failed", "episodic_spool_too_large", NoValue}

\* The outcomes that promise nothing of the spool.
Unpromised == {"invalid", "dedupe_scan_failed", "episodic_spool_too_large"}

CaptureTypes ==
  /\ spool \in [1 .. Days -> Seq(SpoolRows)]
  /\ today \in 1 .. Days
  /\ captureNotes \in Seq(NoteRows)
  /\ job \in [Procs -> Jobs]
  /\ outcome \in [Responses -> Reasons]
  /\ packets \subseteq Responses /\ records \subseteq Responses /\ vaultUp \in BOOLEAN

\* The packet or the board record of a task outlives its capture.
ModeIsKept == ~({"packet", "record"} \subseteq Prunable)

\* A label that lets the distiller see response r is true of it.
LabelOK(label, r) == ModeIsKept /\ label = "internal" => r \notin KeptLocal

JobOK(j) ==
  /\ j.pc # "idle" => j.resp \in Responses
  /\ j.pc \in {"check", "read", "spool", "screen"} => j.key = j.resp /\ j.queue = <<>>
  /\ j.pc = "screen" => Spooled(j.resp)
  /\ j.pc \in {"distill", "lock", "write"} =>
       /\ j.key \in Responses \ Thin /\ Spooled(j.key)
       /\ j.queue = <<>> => j.key = j.resp
  /\ j.pc = "distill" => DistillEnabled(j.label)
  /\ \A i \in DOMAIN j.queue :
       Spooled(j.queue[i].key) /\ LabelOK(j.queue[i].label, j.queue[i].key)
  /\ LabelOK(j.label, j.key)

JobsOK == \A p \in Procs : JobOK(job[p])

\* Only the process in the locked section holds the lock.
LockOK == \A p \in Procs : (lock = p) = (job[p].pc = "write")

\* A row that parses is whole, and its label is true of its key.
RowsOK ==
  \A d \in 1 .. Days : \A i \in DOMAIN spool[d] :
    /\ spool[d][i].ok => spool[d][i].ended
    /\ LabelOK(spool[d][i].label, spool[d][i].key)

\* What was noted was spooled and is knowledge.
NotesOK == \A i \in DOMAIN captureNotes : Spooled(captureNotes[i].key) /\ captureNotes[i].key \notin Thin

\* What the environment may not remove is there.
RecordsOK ==
  /\ "packet" \notin Prunable => packets = Responses
  /\ "record" \notin Prunable => records = Responses

SentOK == ModeIsKept => RestrictedStaysLocal

CaptureInv ==
  /\ CaptureTypes /\ JobsOK /\ LockOK /\ RowsOK /\ NotesOK /\ OneNotePerKey
  /\ NothingLost /\ RecordsOK /\ SentOK

Grows == \A r : Spooled(r) => Spooled(r)'

-----------------------------------------------------------------------------
(* What a step keeps. *)

\* A spool that is left alone has the rows it had.
LEMMA SameSpool ==
  ASSUME UNCHANGED spool
  PROVE  Grows /\ (RowsOK => RowsOK')
BY DEF Grows, Spooled, TornFile, RowsOK, LabelOK

\* An append keeps the rows of every file and adds one.
LEMMA AppendGrows ==
  ASSUME CaptureInv, NEW row \in SpoolRows,
         spool' = [spool EXCEPT ![today] = Append(spool[today], row)],
         row.ok => row.ended, LabelOK(row.label, row.key),
         row.ended => row.ok \/ TornFile(today)
  PROVE  /\ Grows /\ RowsOK' /\ spool' \in [1 .. Days -> Seq(SpoolRows)]
         /\ row.ended => Spooled(row.key)'
<1>1. today \in 1 .. Days /\ spool \in [1 .. Days -> Seq(SpoolRows)]
  BY DEF CaptureInv, CaptureTypes
<1>2. /\ DOMAIN spool'[today] = 1 .. Len(spool[today]) + 1
      /\ \A i \in DOMAIN spool[today] : i \in DOMAIN spool'[today]
                                          /\ spool'[today][i] = spool[today][i]
      /\ spool'[today][Len(spool[today]) + 1] = row
      /\ Len(spool[today]) \in Nat
      /\ DOMAIN spool[today] = 1 .. Len(spool[today])
  BY <1>1
<1>3. \A d \in 1 .. Days : d # today => spool'[d] = spool[d]
  BY <1>1
<1>4. spool' \in [1 .. Days -> Seq(SpoolRows)]
  BY <1>1
<1>9. \A d \in 1 .. Days : TornFile(d) => TornFile(d)'
  BY <1>1, <1>2, <1>3 DEF TornFile
<1>5. Grows
  <2> SUFFICES ASSUME NEW r, NEW d \in 1 .. Days, NEW i \in DOMAIN spool[d],
                      spool[d][i].key = r, spool[d][i].ended, spool[d][i].ok \/ TornFile(d)
               PROVE  Spooled(r)'
    BY DEF Grows, Spooled
  <2>1. i \in DOMAIN spool'[d] /\ spool'[d][i] = spool[d][i]
    BY <1>2, <1>3
  <2> QED BY <1>9, <2>1 DEF Spooled
<1>6. row.ended => Spooled(row.key)'
  <2> SUFFICES ASSUME row.ended PROVE Spooled(row.key)'
    OBVIOUS
  <2>1. PICK t \in 1 .. Days : t = today
    BY <1>1
  <2>2. /\ Len(spool[t]) + 1 \in DOMAIN spool'[t]
        /\ spool'[t][Len(spool[t]) + 1] = row
    BY <1>1, <1>2, <2>1
  <2>3. row.ok \/ TornFile(t)'
    BY <1>9, <2>1
  <2> QED BY <2>2, <2>3 DEF Spooled
<1>7. ASSUME NEW d \in 1 .. Days, NEW i \in DOMAIN spool'[d]
      PROVE  /\ spool'[d][i].ok => spool'[d][i].ended
             /\ LabelOK(spool'[d][i].label, spool'[d][i].key)
  <2>1. CASE d # today
    BY <1>3, <2>1 DEF CaptureInv, RowsOK
  <2>2. CASE d = today /\ i \in DOMAIN spool[today]
    BY <1>1, <1>2, <2>2 DEF CaptureInv, RowsOK
  <2>3. CASE d = today /\ i = Len(spool[today]) + 1
    BY <1>2, <2>3
  <2> QED BY <1>2, <2>1, <2>2, <2>3
<1>8. RowsOK'
  BY <1>7 DEF RowsOK, LabelOK
<1> QED BY <1>4, <1>5, <1>6, <1>8

\* A step of one process keeps what the records of the others mean.
LEMMA OtherJobs ==
  ASSUME CaptureInv, Grows, NEW p \in Procs,
         \A q \in Procs \ {p} : job'[q] = job[q], JobOK(job[p])'
  PROVE  JobsOK'
<1> SUFFICES ASSUME NEW q \in Procs, q # p
             PROVE  JobOK(job[q])'
  BY DEF JobsOK
<1>1. JobOK(job[q]) /\ job'[q] = job[q]
  BY DEF CaptureInv, JobsOK
<1> QED BY <1>1 DEF JobOK, Grows, LabelOK, DistillEnabled

\* An outcome that promises the row is given only when the row is there.
LEMMA OutcomesKept ==
  ASSUME CaptureInv, Grows,
         \A r \in Responses : outcome'[r] = outcome[r] \/ Spooled(r)'
                                \/ outcome'[r] \in Unpromised
  PROVE  NothingLost'
BY DEF CaptureInv, NothingLost, Grows, Unpromised

\* Notes that are left alone keep what they are.
LEMMA SameNotes ==
  ASSUME CaptureInv, Grows, UNCHANGED captureNotes
  PROVE  NotesOK' /\ OneNotePerKey'
BY DEF CaptureInv, NotesOK, OneNotePerKey, Grows

\* A response that has a note has its row in the spool.
LEMMA NotedIsSpooled ==
  ASSUME CaptureInv, NEW r, HasNote(r)
  PROVE  Spooled(r) /\ r \notin Thin
BY DEF HasNote, NoteKeys, CaptureInv, NotesOK

-----------------------------------------------------------------------------
(* Steps of one process outside the locked section. *)

\* What is left to show of a step of one process.
LEMMA ProcessStep ==
  ASSUME CaptureInv, NEW p \in Procs, Grows, RowsOK', NotesOK', OneNotePerKey', LockOK',
         spool' \in [1 .. Days -> Seq(SpoolRows)], captureNotes' \in Seq(NoteRows),
         UNCHANGED <<packets, records, today, vaultUp>>,
         job' \in [Procs -> Jobs], \A q \in Procs \ {p} : job'[q] = job[q], JobOK(job[p])',
         outcome' \in [Responses -> Reasons],
         \A r \in Responses : outcome'[r] = outcome[r] \/ Spooled(r)'
                                \/ outcome'[r] \in Unpromised,
         SentOK'
  PROVE  CaptureInv'
<1>1. JobsOK'
  BY OtherJobs
<1>2. NothingLost'
  BY OutcomesKept
<1>3. CaptureTypes' /\ RecordsOK'
  BY DEF CaptureInv, CaptureTypes, RecordsOK
<1> QED BY <1>1, <1>2, <1>3 DEF CaptureInv

\* What is left to show of a step that touches neither spool, notes nor lock.
LEMMA QuietStep ==
  ASSUME CaptureInv, NEW p \in Procs,
         UNCHANGED <<packets, records, spool, today, captureNotes, vaultUp, lock>>,
         job[p].pc # "write", job'[p].pc # "write",
         job' \in [Procs -> Jobs], \A q \in Procs \ {p} : job'[q] = job[q], JobOK(job[p])',
         outcome' \in [Responses -> Reasons],
         \A r \in Responses : outcome'[r] = outcome[r] \/ Spooled(r)'
                                \/ outcome'[r] \in Unpromised,
         SentOK'
  PROVE  CaptureInv'
<1>1. Grows /\ RowsOK'
  BY SameSpool DEF CaptureInv
<1>2. NotesOK' /\ OneNotePerKey'
  BY <1>1, SameNotes
<1>3. LockOK'
  BY DEF CaptureInv, LockOK
<1>4. spool' \in [1 .. Days -> Seq(SpoolRows)] /\ captureNotes' \in Seq(NoteRows)
  BY DEF CaptureInv, CaptureTypes
<1> QED BY <1>1, <1>2, <1>3, <1>4, ProcessStep

\* What was given to the distiller stays what it was.
LEMMA SameSent == ASSUME CaptureInv, UNCHANGED sent PROVE SentOK'
BY DEF CaptureInv, SentOK, RestrictedStaysLocal

\* A process that does nothing holds nothing.
LEMMA IdleRecord ==
  /\ Idle \in Jobs /\ Idle.pc = "idle" /\ Idle.resp = NoValue /\ Idle.key = NoValue
  /\ Idle.label = NoValue /\ Idle.queue = <<>> /\ NoValue # "internal"
BY DEF Idle, Unread, Jobs, Pcs, Labels, NoValue

\* A process that stops has nothing left to mean.
LEMMA Stops ==
  ASSUME CaptureInv, NEW p \in Procs, job' = [job EXCEPT ![p] = Idle]
  PROVE  /\ job' \in [Procs -> Jobs] /\ \A q \in Procs \ {p} : job'[q] = job[q]
         /\ JobOK(job[p])' /\ job'[p].pc = "idle"
<1>1. Idle \in Jobs
  BY IdleRecord
<1>2. job'[p] = Idle
  BY DEF CaptureInv, CaptureTypes
<1>3. JobOK(job[p])'
  BY <1>2, IdleRecord DEF JobOK, LabelOK, KeptLocal
<1> QED BY <1>1, <1>2, <1>3, IdleRecord DEF CaptureInv, CaptureTypes

\* A run ends with a result that its row allows.
LEMMA FinishKeeps ==
  ASSUME CaptureInv, NEW p \in Procs, NEW reason \in Reasons, EndRun(p, reason),
         job[p].pc \notin {"idle", "write"},
         reason \in Unpromised \/ Spooled(job[p].resp),
         UNCHANGED <<packets, records, spool, today, captureNotes, vaultUp, lock, sent>>
  PROVE  CaptureInv'
<1>1. PICK r \in Responses : r = job[p].resp
  BY DEF CaptureInv, JobsOK, JobOK
<1>2. outcome' = [outcome EXCEPT ![r] = reason] /\ job' = [job EXCEPT ![p] = Idle]
  BY <1>1 DEF EndRun
<1>3. /\ outcome' \in [Responses -> Reasons]
      /\ \A x \in Responses : outcome'[x] = outcome[x] \/ x = r
      /\ outcome'[r] = reason
  BY <1>1, <1>2 DEF CaptureInv, CaptureTypes
<1>4. Spooled(r) => Spooled(r)'
  BY SameSpool DEF Grows
<1>5. SentOK'
  BY SameSent
<1> QED BY <1>1, <1>2, <1>3, <1>4, <1>5, Stops, QuietStep

\* A process that goes on to the spool reader holds only its seed.
LEMMA StartsReader ==
  ASSUME CaptureInv, NEW p \in Procs, NEW r \in Responses,
         job' = [job EXCEPT ![p] = [Idle EXCEPT !.pc = "reader", !.resp = r]]
  PROVE  /\ job' \in [Procs -> Jobs] /\ \A q \in Procs \ {p} : job'[q] = job[q]
         /\ JobOK(job[p])' /\ job'[p].pc = "reader"
<1> DEFINE new == [Idle EXCEPT !.pc = "reader", !.resp = r]
<1>1. Idle \in Jobs /\ Idle.key = NoValue /\ Idle.label = NoValue /\ Idle.queue = <<>>
  BY IdleRecord
<1>2. /\ new \in Jobs
      /\ new.pc = "reader" /\ new.resp = r /\ new.key = NoValue
      /\ new.label = NoValue /\ new.queue = <<>>
  BY <1>1 DEF Jobs, Pcs
<1>3. /\ job' \in [Procs -> Jobs] /\ \A q \in Procs \ {p} : job'[q] = job[q]
      /\ job'[p] = new
  BY <1>2 DEF CaptureInv, CaptureTypes
<1>4. JobOK(job[p])'
  BY <1>2, <1>3 DEF JobOK, LabelOK, NoValue
<1> HIDE DEF new
<1> QED BY <1>2, <1>3, <1>4

\* A replay of a noted response ends, or goes on to the spool reader.
LEMMA DuplicateKeeps ==
  ASSUME CaptureInv, NEW p \in Procs, FinishDuplicate(p), job[p].pc \notin {"idle", "write"},
         Spooled(job[p].resp),
         UNCHANGED <<packets, records, spool, today, captureNotes, vaultUp, lock, sent>>
  PROVE  CaptureInv'
<1>1. PICK r \in Responses : r = job[p].resp
  BY DEF CaptureInv, JobsOK, JobOK
<1>2. outcome' = [outcome EXCEPT ![r] = "duplicate"]
  BY <1>1 DEF FinishDuplicate
<1>3. /\ outcome' \in [Responses -> Reasons]
      /\ \A x \in Responses : outcome'[x] = outcome[x] \/ x = r
  BY <1>2 DEF CaptureInv, CaptureTypes, Reasons
<1>4. Spooled(r)'
  BY <1>1, SameSpool DEF Grows
<1>5. SentOK'
  BY SameSent
<1>6. CASE job' = [job EXCEPT ![p] = Idle]
  BY <1>3, <1>4, <1>5, <1>6, Stops, QuietStep
<1>7. CASE job' = [job EXCEPT ![p] = [Idle EXCEPT !.pc = "reader", !.resp = r]]
  <2>1. /\ job' \in [Procs -> Jobs] /\ \A q \in Procs \ {p} : job'[q] = job[q]
        /\ JobOK(job[p])' /\ job'[p].pc = "reader"
    BY <1>7, StartsReader, Zenon
  <2> QED BY <1>3, <1>4, <1>5, <2>1, QuietStep
<1> QED BY <1>1, <1>6, <1>7 DEF FinishDuplicate

\* A run goes on to a step for which its record means what it must.
LEMMA ContinueKeeps ==
  ASSUME CaptureInv, NEW p \in Procs, NEW to \in Pcs \ {"write"}, Continue(p, to),
         job[p].pc # "write", JobOK(job[p])',
         UNCHANGED <<packets, records, spool, today, captureNotes, vaultUp, lock, sent>>
  PROVE  CaptureInv'
<1>1. job \in [Procs -> Jobs] /\ outcome \in [Responses -> Reasons]
  BY DEF CaptureInv, CaptureTypes
<1>2. job' = [job EXCEPT ![p].pc = to] /\ outcome' = outcome
  BY DEF Continue
<1> DEFINE new == [job[p] EXCEPT !.pc = to]
<1>4. job' = [job EXCEPT ![p] = new] /\ new \in Jobs /\ new.pc = to
  BY <1>1, <1>2 DEF Jobs
<1> HIDE DEF new
<1>3. /\ job' \in [Procs -> Jobs] /\ \A q \in Procs \ {p} : job'[q] = job[q]
      /\ job'[p].pc = to
  BY <1>1, <1>4
<1> QED BY <1>1, <1>2, <1>3, SameSent, QuietStep

\* The record of a process that goes on differs in its step only.
LEMMA ContinueRecord ==
  ASSUME CaptureInv, NEW p \in Procs, NEW to, job' = [job EXCEPT ![p].pc = to]
  PROVE  /\ job'[p].pc = to /\ job'[p].resp = job[p].resp /\ job'[p].key = job[p].key
         /\ job'[p].label = job[p].label /\ job'[p].queue = job[p].queue
BY DEF CaptureInv, CaptureTypes, Jobs

\* The duplicate check that ends a run.
LEMMA SeenKeeps ==
  ASSUME CaptureInv, NEW p \in Procs, EndsAsSeen(p), job[p].pc \in {"check", "screen"},
         UNCHANGED <<packets, records, spool, today, captureNotes, vaultUp, lock, sent>>
  PROVE  CaptureInv'
<1>1. CASE EndRun(p, "dedupe_scan_failed")
  BY <1>1, FinishKeeps DEF Reasons, Unpromised
<1>2. CASE HasNote(job[p].resp) /\ FinishDuplicate(p)
  BY <1>2, NotedIsSpooled, DuplicateKeeps
<1> QED BY <1>1, <1>2 DEF EndsAsSeen

\* A process is started on a response and classifies it.
LEMMA StartKeeps ==
  ASSUME CaptureInv, NEW p \in Procs, NEW r \in Responses, Start(p, r)
  PROVE  CaptureInv'
<1>1. /\ job \in [Procs -> Jobs] /\ outcome \in [Responses -> Reasons] /\ job[p].pc = "idle"
      /\ vaultUp \in BOOLEAN
      /\ UNCHANGED <<packets, records, spool, today, captureNotes, vaultUp, lock, sent>>
  BY DEF CaptureInv, CaptureTypes, Start
<1>2. SentOK'
  BY <1>1, SameSent
<1> DEFINE new == [Idle EXCEPT !.pc = "check", !.resp = r, !.key = r,
                               !.label = Label(r), !.named = Attributed(r),
                               !.root = vaultUp]
<1>3. CASE r \in Valid
  <2>1. job' = [job EXCEPT ![p] = new] /\ outcome' = outcome
    BY <1>3 DEF Start
  <2>2. Idle \in Jobs /\ Idle.queue = <<>>
    BY IdleRecord
  <2>3. Label(r) \in Labels /\ Attributed(r) \in BOOLEAN
    BY DEF Label, Labels, Attributed
  <2>4. /\ new \in Jobs
        /\ new.pc = "check" /\ new.resp = r /\ new.key = r
        /\ new.label = Label(r) /\ new.queue = <<>>
    BY <1>1, <2>2, <2>3 DEF Jobs, Pcs
  <2>5. LabelOK(Label(r), r)
    BY DEF LabelOK, KeptLocal, Label, BountyMode, NoValue, CaptureInv, RecordsOK, ModeIsKept
  <2> HIDE DEF new
  <2>6. /\ job' \in [Procs -> Jobs] /\ \A q \in Procs \ {p} : job'[q] = job[q]
        /\ job'[p] = new
    BY <1>1, <2>1, <2>4
  <2>7. JobOK(job[p])'
    BY <2>4, <2>5, <2>6 DEF JobOK, LabelOK
  <2> QED BY <1>1, <1>2, <2>1, <2>4, <2>6, <2>7, QuietStep
<1>4. CASE r \notin Valid
  <2>1. job' = job /\ outcome' = [outcome EXCEPT ![r] = "invalid"]
    BY <1>4 DEF Start
  <2>2. JobOK(job[p])'
    BY <1>1, <2>1, SameSpool DEF CaptureInv, JobsOK, JobOK, Grows, LabelOK, DistillEnabled
  <2>3. /\ outcome' \in [Responses -> Reasons]
        /\ \A x \in Responses : outcome'[x] = outcome[x] \/ outcome'[x] = "invalid"
    BY <1>1, <2>1 DEF Reasons
  <2> QED BY <1>1, <1>2, <2>1, <2>2, <2>3, QuietStep DEF Unpromised
<1> QED BY <1>3, <1>4

\* A response that the replay check finds in a readable file has a whole row.
LEMMA FoundIsSpooled ==
  ASSUME CaptureInv, NEW p \in Procs, NEW c \in Lines(p)
  PROVE  /\ LineAt(c) \in SpoolRows /\ Spooled(LineAt(c).key)
         /\ LabelOK(LineAt(c).label, LineAt(c).key)
<1>1. /\ c[1] \in 1 .. Days /\ c[2] \in DOMAIN spool[c[1]]
      /\ spool[c[1]][c[2]].ok /\ spool[c[1]] \in Seq(SpoolRows)
  BY DEF Lines, Reads, CaptureInv, CaptureTypes
<1>2. /\ spool[c[1]][c[2]].ended
      /\ LabelOK(spool[c[1]][c[2]].label, spool[c[1]][c[2]].key)
  BY <1>1 DEF CaptureInv, RowsOK
<1>3. LineAt(c) \in SpoolRows
  BY <1>1 DEF LineAt
<1> QED BY <1>1, <1>2, <1>3 DEF LineAt, Spooled

\* The sizes a process notes are numbers.
LEMMA SizesType ==
  ASSUME CaptureInv
  PROVE  Sizes \in [1 .. Days -> Nat] /\ Unread \in [1 .. Days -> Nat]
BY DEF CaptureInv, CaptureTypes, Sizes, Unread

\* The check before anything is appended.
LEMMA CheckReplayKeeps ==
  ASSUME CaptureInv, NEW p \in Procs, CheckReplay(p)
  PROVE  CaptureInv'
<1>1. /\ job[p].pc = "check" /\ JobOK(job[p]) /\ job \in [Procs -> Jobs] /\ job[p] \in Jobs
      /\ UNCHANGED <<packets, records, spool, today, captureNotes, vaultUp, lock, sent>>
      /\ outcome \in [Responses -> Reasons]
  BY DEF CheckReplay, CaptureInv, JobsOK, CaptureTypes
<1>2. CASE EndsAsSeen(p)
  BY <1>1, <1>2, SeenKeeps
<1>3. CASE /\ job' = [job EXCEPT ![p] = [@ EXCEPT !.pc = "read", !.sizes = Sizes]]
           /\ UNCHANGED outcome
  <2> DEFINE new == [job[p] EXCEPT !.pc = "read", !.sizes = Sizes]
  <2>1. job' = [job EXCEPT ![p] = new]
    BY <1>1, <1>3
  <2>2. PICK z \in [1 .. Days -> Nat] : z = Sizes
    BY SizesType
  <2>3. /\ new \in Jobs /\ new.pc = "read" /\ new.resp = job[p].resp
        /\ new.key = job[p].key /\ new.label = job[p].label /\ new.queue = job[p].queue
    BY <1>1, <2>2 DEF Jobs, Pcs
  <2> HIDE DEF new
  <2>4. /\ job' \in [Procs -> Jobs] /\ \A q \in Procs \ {p} : job'[q] = job[q]
        /\ job'[p] = new
    BY <1>1, <2>1, <2>3
  <2>5. JobOK(job[p])'
    BY <1>1, <2>3, <2>4 DEF JobOK, LabelOK
  <2> QED BY <1>1, <1>3, <2>3, <2>4, <2>5, SameSent, QuietStep
<1> QED BY <1>2, <1>3 DEF CheckReplay

\* The spool is read and searched.
LEMMA ReadSpoolKeeps ==
  ASSUME CaptureInv, NEW p \in Procs, ReadSpool(p)
  PROVE  CaptureInv'
<1>1. /\ job[p].pc = "read" /\ JobOK(job[p]) /\ job \in [Procs -> Jobs] /\ job[p] \in Jobs
      /\ UNCHANGED <<packets, records, spool, today, captureNotes, vaultUp, lock, sent>>
      /\ outcome \in [Responses -> Reasons]
  BY DEF ReadSpool, CaptureInv, JobsOK, CaptureTypes
<1>2. CASE EndRun(p, "episodic_spool_too_large")
  BY <1>1, <1>2, FinishKeeps DEF Reasons, Unpromised
<1>3. ASSUME NEW to \in {"spool", "screen"}, NEW saw \in BOOLEAN,
             to = "screen" => SpoolContains(p),
             job' = [job EXCEPT ![p] =
                       [@ EXCEPT !.pc = to, !.sizes = Unread, !.whole = saw]],
             UNCHANGED outcome
      PROVE  CaptureInv'
  <2> DEFINE new == [job[p] EXCEPT !.pc = to, !.sizes = Unread, !.whole = saw]
  <2>1. job' = [job EXCEPT ![p] = new]
    BY <1>1, <1>3
  <2>2. PICK z \in [1 .. Days -> Nat] : z = Unread
    BY SizesType
  <2>3. /\ new \in Jobs /\ new.pc = to /\ new.resp = job[p].resp
        /\ new.key = job[p].key /\ new.label = job[p].label /\ new.queue = job[p].queue
    BY <1>1, <1>3, <2>2 DEF Jobs, Pcs
  <2> HIDE DEF new
  <2>4. /\ job' \in [Procs -> Jobs] /\ \A q \in Procs \ {p} : job'[q] = job[q]
        /\ job'[p] = new
    BY <1>1, <2>1, <2>3
  <2>5. to = "screen" => Spooled(job[p].resp)'
    BY <1>1, <1>3, FoundIsSpooled, SameSpool DEF SpoolContains, Grows
  <2>6. JobOK(job[p])'
    BY <1>1, <2>3, <2>4, <2>5 DEF JobOK, LabelOK
  <2> QED BY <1>1, <1>3, <2>3, <2>4, <2>6, SameSent, QuietStep
<1> DEFINE found == SpoolContains(p)
           saw == ~found /\ \A d \in 1 .. Days : Reads(p, d)
           to == IF found THEN "screen" ELSE "spool"
<1>4. saw \in BOOLEAN /\ to \in {"spool", "screen"} /\ (to = "screen" => found)
  OBVIOUS
<1>5. \/ EndRun(p, "episodic_spool_too_large")
      \/ /\ job' = [job EXCEPT ![p] = [@ EXCEPT !.pc = to, !.sizes = Unread, !.whole = saw]]
         /\ UNCHANGED outcome
  BY DEF ReadSpool
<1> HIDE DEF found, saw, to
<1> QED BY <1>2, <1>3, <1>4, <1>5, Zenon DEF found

\* The raw material is appended.
LEMMA SpoolKeeps ==
  ASSUME CaptureInv, NEW p \in Procs, Spool(p)
  PROVE  CaptureInv'
<1>1. /\ job[p].pc = "spool" /\ JobOK(job[p])
      /\ job' = [job EXCEPT ![p] = [@ EXCEPT !.pc = "screen", !.whole = FALSE]]
      /\ UNCHANGED <<packets, records, today, captureNotes, vaultUp, lock, sent>>
      /\ job \in [Procs -> Jobs] /\ job[p] \in Jobs
      /\ today \in 1 .. Days /\ spool \in [1 .. Days -> Seq(SpoolRows)]
      /\ outcome' = outcome /\ outcome \in [Responses -> Reasons]
      /\ captureNotes \in Seq(NoteRows)
  BY DEF Spool, CaptureInv, JobsOK, CaptureTypes
<1>2. PICK r \in Responses : r = job[p].resp /\ r = job[p].key
  BY <1>1 DEF JobOK
<1> DEFINE glued == Len(spool[today]) > 0 /\ ~spool[today][Len(spool[today])].ended
           row == [SpoolRow(job[p]) EXCEPT !.ok = ~glued]
           new == [job[p] EXCEPT !.pc = "screen", !.whole = FALSE]
<1>3. spool' = [spool EXCEPT ![today] = Append(spool[today], row)]
  BY DEF Spool, AppendLine
<1>4. glued \in BOOLEAN /\ (glued => TornFile(today))
  BY <1>1 DEF TornFile
<1> HIDE DEF glued
<1>5. /\ row.key = r /\ row.label = job[p].label /\ row.ended = TRUE
      /\ row.ok \/ TornFile(today)
  BY <1>2, <1>4 DEF SpoolRow
<1>6. row \in SpoolRows
  BY <1>1, <1>2, <1>4 DEF SpoolRow, SpoolRows, Jobs
<1>7. LabelOK(row.label, row.key)
  BY <1>1, <1>2, <1>5 DEF JobOK
<1> HIDE DEF row
<1>8. /\ Grows /\ RowsOK' /\ spool' \in [1 .. Days -> Seq(SpoolRows)]
      /\ Spooled(r)'
  BY <1>3, <1>5, <1>6, <1>7, AppendGrows
<1>15. /\ new \in Jobs /\ new.pc = "screen" /\ new.resp = r /\ new.key = r
       /\ new.label = job[p].label /\ new.queue = job[p].queue
  BY <1>1, <1>2 DEF Jobs, Pcs
<1>16. job' = [job EXCEPT ![p] = new]
  BY <1>1
<1> HIDE DEF new
<1>11. /\ job' \in [Procs -> Jobs] /\ \A q \in Procs \ {p} : job'[q] = job[q]
       /\ job'[p] = new
  BY <1>1, <1>15, <1>16
<1>9. /\ job'[p].pc = "screen" /\ job'[p].resp = r /\ job'[p].key = r
      /\ job'[p].label = job[p].label /\ job'[p].queue = <<>>
      /\ LabelOK(job[p].label, r)
  BY <1>1, <1>2, <1>11, <1>15 DEF JobOK
<1>10. JobOK(job[p])'
  BY <1>8, <1>9 DEF JobOK, LabelOK
<1>12. NotesOK' /\ OneNotePerKey'
  BY <1>1, <1>8, SameNotes
<1>13. LockOK'
  BY <1>1, <1>11, <1>15 DEF CaptureInv, LockOK
<1>14. SentOK'
  BY <1>1, SameSent
<1> QED BY <1>1, <1>8, <1>10, <1>11, <1>12, <1>13, <1>14, ProcessStep

\* The second duplicate check, the filter and the vault.
LEMMA ScreenKeeps ==
  ASSUME CaptureInv, NEW p \in Procs, Screen(p)
  PROVE  CaptureInv'
<1>1. /\ job[p].pc = "screen" /\ JobOK(job[p]) /\ Spooled(job[p].resp)
      /\ UNCHANGED <<packets, records, spool, today, captureNotes, vaultUp, lock, sent>>
  BY DEF Screen, CaptureInv, JobsOK, JobOK
<1>2. CASE EndsAsSeen(p)
  BY <1>1, <1>2, SeenKeeps
<1>3. CASE EndRun(p, "refused") \/ EndRun(p, "vault_unavailable")
  BY <1>1, <1>3, FinishKeeps DEF Reasons
<1>4. ASSUME NEW to \in {"distill", "lock"}, Continue(p, to),
             to = "distill" => DistillEnabled(job[p].label),
             ~Refused(job[p].resp, job[p].named)
      PROVE  CaptureInv'
  <2>1. PICK r \in Responses : r = job[p].resp /\ r = job[p].key
    BY <1>1 DEF JobOK
  <2>2. r \notin Thin /\ Spooled(r)'
    BY <1>1, <1>4, <2>1, SameSpool DEF Refused, Grows
  <2>3. /\ job'[p].pc = to /\ job'[p].resp = r /\ job'[p].key = r
        /\ job'[p].label = job[p].label /\ job'[p].queue = job[p].queue
    BY <1>4, <2>1, ContinueRecord DEF Continue
  <2>4. JobOK(job[p])'
    BY <1>1, <1>4, <2>1, <2>2, <2>3 DEF JobOK, LabelOK, DistillEnabled
  <2> QED BY <1>1, <1>4, <2>4, ContinueKeeps DEF Pcs
<1> QED BY <1>2, <1>3, <1>4 DEF Screen

\* The distiller is given the text in hand only when its label allows it.
LEMMA SendKeeps ==
  ASSUME CaptureInv, NEW p \in Procs, job[p].pc = "distill", sent' = sent \cup {job[p].key}
  PROVE  SentOK'
<1>1. DistillEnabled(job[p].label) /\ LabelOK(job[p].label, job[p].key)
  BY DEF CaptureInv, JobsOK, JobOK
<1> QED BY <1>1 DEF CaptureInv, SentOK, RestrictedStaysLocal, DistillEnabled, LabelOK

\* One call of the distiller.
LEMMA DistillKeeps ==
  ASSUME CaptureInv, NEW p \in Procs, Distill(p)
  PROVE  CaptureInv'
<1>1. /\ job[p].pc = "distill" /\ JobOK(job[p]) /\ job \in [Procs -> Jobs]
      /\ UNCHANGED <<packets, records, spool, today, captureNotes, vaultUp, lock>>
      /\ outcome \in [Responses -> Reasons]
  BY DEF Distill, CaptureInv, JobsOK, CaptureTypes
<1>2. SentOK'
  BY <1>1, SendKeeps DEF Distill
<1>3. PICK r \in Responses, k \in Responses : r = job[p].resp /\ k = job[p].key
  BY <1>1 DEF JobOK
<1>4. Spooled(k)' /\ (job[p].queue = <<>> => Spooled(r)') /\ Grows
  BY <1>1, <1>3, SameSpool DEF JobOK, Grows
<1>5. CASE Continue(p, "lock")
  <2>1. /\ job'[p].pc = "lock" /\ job'[p].resp = r /\ job'[p].key = k
        /\ job'[p].label = job[p].label /\ job'[p].queue = job[p].queue
    BY <1>3, <1>5, ContinueRecord DEF Continue
  <2>2. JobOK(job[p])'
    BY <1>1, <1>3, <1>4, <2>1 DEF JobOK, LabelOK, Grows
  <2>3. /\ job' \in [Procs -> Jobs] /\ \A q \in Procs \ {p} : job'[q] = job[q]
        /\ outcome' = outcome
    BY <1>1, <1>5, ZenonT(40) DEF Continue, Jobs, Pcs
  <2> QED BY <1>1, <1>2, <2>1, <2>2, <2>3, QuietStep
<1>6. CASE job' = [job EXCEPT ![p].tries = @ + 1] /\ UNCHANGED outcome
  <2>1. job[p] \in Jobs /\ job[p].tries + 1 \in Nat
    BY <1>1 DEF Jobs
  <2>2. PICK t \in Nat : t = job[p].tries + 1
    BY <2>1
  <2> DEFINE new == [job[p] EXCEPT !.tries = t]
  <2>3. job' = [job EXCEPT ![p] = new]
    BY <1>1, <1>6, <2>2 DEF Jobs
  <2>4. /\ new \in Jobs /\ new.pc = "distill" /\ new.resp = r /\ new.key = k
        /\ new.label = job[p].label /\ new.queue = job[p].queue
    BY <1>1, <1>3, <2>1 DEF Jobs
  <2> HIDE DEF new
  <2>5. /\ job'[p].pc = "distill" /\ job'[p].resp = r /\ job'[p].key = k
        /\ job'[p].label = job[p].label /\ job'[p].queue = job[p].queue
        /\ job' \in [Procs -> Jobs] /\ \A q \in Procs \ {p} : job'[q] = job[q]
    BY <1>1, <2>3, <2>4
  <2>6. JobOK(job[p])'
    BY <1>1, <1>3, <1>4, <2>5 DEF JobOK, LabelOK, Grows, DistillEnabled
  <2> QED BY <1>1, <1>2, <1>6, <2>5, <2>6, QuietStep
<1>7. ASSUME NEW reason \in {"distillation_failed", "refused"},
             job[p].queue = <<>>, EndRun(p, reason)
      PROVE  CaptureInv'
  <2>1. job' = [job EXCEPT ![p] = Idle] /\ outcome' = [outcome EXCEPT ![r] = reason]
    BY <1>3, <1>7 DEF EndRun
  <2>2. /\ outcome' \in [Responses -> Reasons]
        /\ \A x \in Responses : outcome'[x] = outcome[x] \/ x = r
    BY <1>1, <1>7, <2>1 DEF Reasons
  <2> QED BY <1>1, <1>2, <1>4, <1>7, <2>1, <2>2, Stops, QuietStep
<1>8. CASE job' = [job EXCEPT ![p] = Idle] /\ UNCHANGED outcome
  BY <1>1, <1>2, <1>8, Stops, QuietStep
<1> QED BY <1>5, <1>6, <1>7, <1>8 DEF Distill

\* The dedupe lock is taken, or the vault is gone.
LEMMA AcquireKeeps ==
  ASSUME AutocaptureAssumption, CaptureInv, NEW p \in Procs, Acquire(p)
  PROVE  CaptureInv'
<1>1. /\ job[p].pc = "lock" /\ lock = NoValue /\ JobOK(job[p]) /\ job \in [Procs -> Jobs]
      /\ UNCHANGED <<packets, records, spool, today, captureNotes, vaultUp, sent>>
      /\ outcome \in [Responses -> Reasons]
      /\ spool \in [1 .. Days -> Seq(SpoolRows)] /\ captureNotes \in Seq(NoteRows)
  BY DEF Acquire, CaptureInv, JobsOK, CaptureTypes
<1>2. SentOK'
  BY <1>1, SameSent
<1>3. PICK r \in Responses, k \in Responses : r = job[p].resp /\ k = job[p].key
  BY <1>1 DEF JobOK
<1>4. Spooled(k)' /\ (job[p].queue = <<>> => Spooled(r)) /\ Grows
  BY <1>1, <1>3, SameSpool DEF JobOK, Grows
<1>5. CASE lock' = p /\ Continue(p, "write")
  <2>1. /\ job'[p].pc = "write" /\ job'[p].resp = r /\ job'[p].key = k
        /\ job'[p].label = job[p].label /\ job'[p].queue = job[p].queue
    BY <1>3, <1>5, ContinueRecord DEF Continue
  <2>2. JobOK(job[p])'
    BY <1>1, <1>3, <1>4, <2>1 DEF JobOK, LabelOK, Grows
  <2>3. /\ job' \in [Procs -> Jobs] /\ \A q \in Procs \ {p} : job'[q] = job[q]
        /\ outcome' = outcome
    BY <1>1, <1>5, ZenonT(40) DEF Continue, Jobs, Pcs
  <2>4. \A q \in Procs : job[q].pc # "write"
    BY <1>1 DEF CaptureInv, LockOK, AutocaptureAssumption
  <2>5. LockOK'
    BY <1>5, <2>1, <2>3, <2>4 DEF LockOK
  <2>6. Grows /\ RowsOK' /\ NotesOK' /\ OneNotePerKey'
    BY <1>1, SameSpool, SameNotes DEF CaptureInv
  <2> QED BY <1>1, <1>2, <2>2, <2>3, <2>5, <2>6, ProcessStep
<1>6. CASE job[p].queue = <<>> /\ EndRun(p, "dedupe_lock_failed") /\ UNCHANGED lock
  BY <1>1, <1>3, <1>4, <1>6, FinishKeeps DEF Reasons
<1>7. CASE job' = [job EXCEPT ![p] = Idle] /\ UNCHANGED <<outcome, lock>>
  BY <1>1, <1>2, <1>7, Stops, QuietStep
<1> QED BY <1>5, <1>6, <1>7 DEF Acquire

-----------------------------------------------------------------------------
(* The locked section. *)

\* The rest of the reader's queue means what it meant.
LEMMA TailOK ==
  ASSUME CaptureInv, NEW p \in Procs, job[p].queue # <<>>
  PROVE  /\ job[p].queue \in Seq(SpoolRows) /\ Tail(job[p].queue) \in Seq(SpoolRows)
         /\ Head(job[p].queue) \in SpoolRows
         /\ Spooled(Head(job[p].queue).key)
         /\ LabelOK(Head(job[p].queue).label, Head(job[p].queue).key)
         /\ \A i \in DOMAIN Tail(job[p].queue) :
              /\ Spooled(Tail(job[p].queue)[i].key)
              /\ LabelOK(Tail(job[p].queue)[i].label, Tail(job[p].queue)[i].key)
<1> DEFINE q == job[p].queue
<1>1. q \in Seq(SpoolRows)
  BY DEF CaptureInv, CaptureTypes, Jobs
<1>2. \A i \in DOMAIN q : Spooled(q[i].key) /\ LabelOK(q[i].label, q[i].key)
  BY DEF CaptureInv, JobsOK, JobOK
<1>3. q # <<>>
  OBVIOUS
<1> HIDE DEF q
<1>4. 1 \in DOMAIN q /\ Head(q) = q[1] /\ Head(q) \in SpoolRows /\ Tail(q) \in Seq(SpoolRows)
  BY <1>1, <1>3
<1>5. \A i \in DOMAIN Tail(q) : i + 1 \in DOMAIN q /\ Tail(q)[i] = q[i + 1]
  BY <1>1, <1>3
<1>6. \A i \in DOMAIN Tail(q) : Spooled(Tail(q)[i].key) /\ LabelOK(Tail(q)[i].label, Tail(q)[i].key)
  BY <1>2, <1>5
<1> QED BY <1>1, <1>2, <1>4, <1>6 DEF q

\* A run leaves the locked section with what it found there.
LEMMA AfterWriteKeeps ==
  ASSUME AutocaptureAssumption, CaptureInv, NEW p \in Procs, job[p].pc = "write",
         lock' = NoValue, NEW reason \in Reasons, AfterWrite(p, reason),
         NotesOK', OneNotePerKey', captureNotes' \in Seq(NoteRows),
         UNCHANGED <<packets, records, spool, today, vaultUp, sent>>
  PROVE  CaptureInv'
<1>1. /\ JobOK(job[p]) /\ job \in [Procs -> Jobs] /\ outcome \in [Responses -> Reasons]
      /\ spool \in [1 .. Days -> Seq(SpoolRows)]
  BY DEF CaptureInv, JobsOK, CaptureTypes
<1>2. SentOK' /\ Grows /\ RowsOK'
  BY SameSent, SameSpool DEF CaptureInv
<1>3. PICK r \in Responses : r = job[p].resp
  BY <1>1 DEF JobOK
<1>4. job[p].queue = <<>> => Spooled(r)'
  BY <1>1, <1>2, <1>3 DEF JobOK, Grows
<1>5. ASSUME job'[p].pc # "write", job' \in [Procs -> Jobs],
             \A q \in Procs \ {p} : job'[q] = job[q], JobOK(job[p])',
             \/ outcome' = outcome
             \/ job[p].queue = <<>> /\ outcome' = [outcome EXCEPT ![r] = reason]
      PROVE  CaptureInv'
  <2>1. LockOK'
    BY <1>5 DEF CaptureInv, LockOK, AutocaptureAssumption
  <2>2. /\ outcome' \in [Responses -> Reasons]
        /\ \A x \in Responses : outcome'[x] = outcome[x] \/ Spooled(x)'
    BY <1>1, <1>4, <1>5
  <2> QED BY <1>1, <1>2, <1>5, <2>1, <2>2, ProcessStep
<1>6. CASE job' = [job EXCEPT ![p] = Idle] /\ job[p].queue = <<>>
             /\ outcome' = [outcome EXCEPT ![r] = reason]
  BY <1>5, <1>6, Stops
<1>7. CASE job' = [job EXCEPT ![p] = [Idle EXCEPT !.pc = "reader", !.resp = r]]
             /\ job[p].queue = <<>> /\ outcome' = [outcome EXCEPT ![r] = reason]
  <2>1. /\ job' \in [Procs -> Jobs] /\ \A q \in Procs \ {p} : job'[q] = job[q]
        /\ JobOK(job[p])' /\ job'[p].pc = "reader"
    BY <1>7, StartsReader, Zenon
  <2> QED BY <1>5, <1>7, <2>1
<1>8. CASE job' = [job EXCEPT ![p] = Idle] /\ outcome' = outcome
  BY <1>5, <1>8, Stops
<1>9. CASE /\ job[p].queue # <<>> /\ outcome' = outcome
           /\ job' = [job EXCEPT ![p] = [job[p] EXCEPT !.pc = "next", !.queue = Tail(@)]]
  <2> DEFINE new == [job[p] EXCEPT !.pc = "next", !.queue = Tail(job[p].queue)]
  <2>1. job' = [job EXCEPT ![p] = new] /\ job[p] \in Jobs
    BY <1>1, <1>9
  <2>2. PICK rest \in Seq(SpoolRows) : rest = Tail(job[p].queue)
    BY <1>9, TailOK
  <2>3. /\ new \in Jobs /\ new.pc = "next" /\ new.resp = r /\ new.key = job[p].key
        /\ new.label = job[p].label /\ new.queue = rest
    BY <1>3, <2>1, <2>2 DEF Jobs, Pcs
  <2> HIDE DEF new
  <2>4. /\ job' \in [Procs -> Jobs] /\ \A q \in Procs \ {p} : job'[q] = job[q]
        /\ job'[p] = new
    BY <1>1, <2>1, <2>3
  <2>5. \A i \in DOMAIN rest : Spooled(rest[i].key)' /\ LabelOK(rest[i].label, rest[i].key)
    BY <1>2, <1>9, <2>2, TailOK DEF Grows
  <2>6. JobOK(job[p])'
    BY <1>1, <2>3, <2>4, <2>5 DEF JobOK, LabelOK
  <2> QED BY <1>5, <1>9, <2>3, <2>4, <2>6
<1> QED
  <2>1. CASE job[p].queue = <<>>
    BY <1>3, <1>6, <1>7, <2>1 DEF AfterWrite, EndRun, FinishDuplicate
  <2>2. CASE job[p].queue # <<>>
    BY <1>8, <1>9, <2>2 DEF AfterWrite
  <2> QED BY <2>1, <2>2

\* The authoritative duplicate check and the note.
LEMMA WriteKeeps ==
  ASSUME AutocaptureAssumption, CaptureInv, NEW p \in Procs, WriteNote(p)
  PROVE  CaptureInv'
<1>1. /\ job[p].pc = "write" /\ lock' = NoValue /\ JobOK(job[p]) /\ job[p] \in Jobs
      /\ UNCHANGED <<packets, records, spool, today, vaultUp, sent>>
      /\ captureNotes \in Seq(NoteRows) /\ NotesOK /\ OneNotePerKey
  BY DEF WriteNote, CaptureInv, JobsOK, CaptureTypes
<1>2. Grows
  BY <1>1, SameSpool
<1>3. {"dedupe_scan_failed", "duplicate", "captured", "capture_failed"} \subseteq Reasons
  BY DEF Reasons
<1>4. CASE UNCHANGED captureNotes
  <2>1. NotesOK' /\ OneNotePerKey' /\ captureNotes' \in Seq(NoteRows)
    BY <1>1, <1>2, <1>4, SameNotes
  <2>2. ASSUME NEW reason \in Reasons, AfterWrite(p, reason)
        PROVE  CaptureInv'
    BY <1>1, <2>1, <2>2, AfterWriteKeeps
  <2> QED BY <1>3, <1>4, <2>2 DEF WriteNote
<1>5. CASE /\ ~HasNote(job[p].key) /\ AfterWrite(p, "captured")
           /\ captureNotes' = Append(captureNotes, [key |-> job[p].key, label |-> job[p].label])
  <2>1. PICK k \in Responses, l \in Labels : k = job[p].key /\ l = job[p].label
    BY <1>1 DEF JobOK, Jobs
  <2>2. captureNotes' = Append(captureNotes, [key |-> k, label |-> l]) /\ [key |-> k, label |-> l] \in NoteRows
    BY <1>5, <2>1 DEF NoteRows
  <2>3. /\ captureNotes' \in Seq(NoteRows) /\ DOMAIN captureNotes' = 1 .. Len(captureNotes) + 1
        /\ DOMAIN captureNotes = 1 .. Len(captureNotes) /\ Len(captureNotes) \in Nat
        /\ \A i \in DOMAIN captureNotes : captureNotes'[i] = captureNotes[i]
        /\ captureNotes'[Len(captureNotes) + 1].key = k
    BY <1>1, <2>2
  <2>4. \A i \in DOMAIN captureNotes : captureNotes[i].key # k
    BY <1>5, <2>1 DEF HasNote, NoteKeys
  <2>5. OneNotePerKey'
    BY <1>1, <2>3, <2>4 DEF OneNotePerKey
  <2>6. k \notin Thin /\ Spooled(k)'
    BY <1>1, <1>2, <2>1 DEF JobOK, Grows
  <2>7. NotesOK'
    BY <1>1, <1>2, <2>3, <2>6 DEF NotesOK, Grows
  <2> QED BY <1>1, <1>3, <1>5, <2>3, <2>5, <2>7, AfterWriteKeeps
<1> QED BY <1>4, <1>5 DEF WriteNote

-----------------------------------------------------------------------------
(* The spool reader. *)

\* There are finitely many lines in the spool.
LEMMA LinesFinite ==
  ASSUME AutocaptureAssumption
  PROVE  IsFiniteSet((1 .. Days) \X (1 .. MaxRows)) /\ \A p : IsFiniteSet(Lines(p))
<1>1. IsFiniteSet(1 .. Days) /\ IsFiniteSet(1 .. MaxRows)
  BY FS_Interval DEF AutocaptureAssumption
<1>2. IsFiniteSet((1 .. Days) \X (1 .. MaxRows))
  BY <1>1, FS_Product
<1>3. \A p : Lines(p) \subseteq (1 .. Days) \X (1 .. MaxRows)
  BY DEF Lines
<1> QED BY <1>2, <1>3, FS_Subset

\* The reader opens the spool, or the vault is gone.
LEMMA ReaderKeeps ==
  ASSUME CaptureInv, NEW p \in Procs, Reader(p)
  PROVE  CaptureInv'
<1>1. /\ job[p].pc = "reader" /\ JobOK(job[p]) /\ job \in [Procs -> Jobs] /\ job[p] \in Jobs
      /\ UNCHANGED <<packets, records, spool, today, captureNotes, vaultUp, lock, sent, outcome>>
      /\ outcome \in [Responses -> Reasons]
  BY DEF Reader, CaptureInv, JobsOK, CaptureTypes
<1>2. SentOK' /\ Grows
  BY <1>1, SameSent, SameSpool
<1>3. CASE job' = [job EXCEPT ![p] = Idle]
  BY <1>1, <1>2, <1>3, Stops, QuietStep
<1>4. CASE job' = [job EXCEPT ![p] = [@ EXCEPT !.pc = "scan", !.sizes = Sizes]]
  <2> DEFINE new == [job[p] EXCEPT !.pc = "scan", !.sizes = Sizes]
  <2>1. job' = [job EXCEPT ![p] = new]
    BY <1>1, <1>4
  <2>2. PICK z \in [1 .. Days -> Nat] : z = Sizes
    BY SizesType
  <2>3. /\ new \in Jobs /\ new.pc = "scan" /\ new.resp = job[p].resp
        /\ new.key = job[p].key /\ new.label = job[p].label /\ new.queue = job[p].queue
    BY <1>1, <2>2 DEF Jobs, Pcs
  <2> HIDE DEF new
  <2>4. /\ job' \in [Procs -> Jobs] /\ \A q \in Procs \ {p} : job'[q] = job[q]
        /\ job'[p] = new
    BY <1>1, <2>1, <2>3
  <2>5. JobOK(job[p])'
    BY <1>1, <1>2, <2>3, <2>4 DEF JobOK, LabelOK, Grows
  <2> QED BY <1>1, <1>2, <2>3, <2>4, <2>5, QuietStep
<1> QED BY <1>3, <1>4 DEF Reader

\* The backlog a scan works through is made of rows that were found.
LEMMA ScanKeeps ==
  ASSUME AutocaptureAssumption, CaptureInv, NEW p \in Procs, Scan(p)
  PROVE  CaptureInv'
<1>1. /\ job[p].pc = "scan" /\ JobOK(job[p]) /\ job \in [Procs -> Jobs]
      /\ UNCHANGED <<packets, records, spool, today, captureNotes, vaultUp, lock, sent, outcome>>
      /\ outcome \in [Responses -> Reasons]
  <2>1. /\ job[p].pc = "scan"
        /\ UNCHANGED <<packets, records, spool, today, captureNotes, vaultUp, lock, sent, outcome>>
    BY Zenon DEF Scan
  <2> QED BY <2>1 DEF CaptureInv, JobsOK, CaptureTypes
<1>2. SentOK' /\ Grows
  BY <1>1, SameSent, SameSpool
<1>3. PICK r \in Responses : r = job[p].resp
  BY <1>1 DEF JobOK
<1>4. CASE job' = [job EXCEPT ![p] = Idle]
  BY <1>1, <1>2, <1>4, Stops, QuietStep
<1>5. ASSUME NEW begun, NEW scan \in ScanOrders(p, begun),
             job' = [job EXCEPT ![p] =
                       [@ EXCEPT !.pc = "next", !.sizes = Unread,
                                 !.queue = [k \in DOMAIN scan |-> LineAt(scan[k])]]]
      PROVE  CaptureInv'
  <2>1. IsFiniteSet(Fresh(p, begun)) /\ \A c \in Fresh(p, begun) : c \in Lines(p)
    <3>1. Fresh(p, begun) \subseteq Lines(p)
      BY DEF Fresh
    <3> QED BY <3>1, LinesFinite, FS_Subset
  <2>2. Cardinality(Fresh(p, begun)) \in Nat
    BY <2>1, FS_CardinalityType
  <2>3. /\ DOMAIN scan = 1 .. Cardinality(Fresh(p, begun))
        /\ \A k \in DOMAIN scan : scan[k] \in Lines(p)
    BY <1>5, <2>1 DEF ScanOrders
  <2>4. \A k \in DOMAIN scan :
          /\ LineAt(scan[k]) \in SpoolRows /\ Spooled(LineAt(scan[k]).key)
          /\ LabelOK(LineAt(scan[k]).label, LineAt(scan[k]).key)
    BY <2>3, FoundIsSpooled
  <2>5. PICK found \in Seq(SpoolRows) : found = [k \in DOMAIN scan |-> LineAt(scan[k])]
    <3>1. [k \in DOMAIN scan |-> LineAt(scan[k])] \in [1 .. Cardinality(Fresh(p, begun)) -> SpoolRows]
      BY <2>3, <2>4
    <3>2. [k \in DOMAIN scan |-> LineAt(scan[k])] \in Seq(SpoolRows)
      BY <2>2, <3>1
    <3> QED BY <3>2
  <2>12. PICK z \in [1 .. Days -> Nat] : z = Unread
    BY SizesType
  <2> DEFINE new == [job[p] EXCEPT !.pc = "next", !.sizes = z, !.queue = found]
  <2>6. \A i \in DOMAIN found : Spooled(found[i].key) /\ LabelOK(found[i].label, found[i].key)
    BY <2>4, <2>5
  <2>7. \A i \in DOMAIN found : Spooled(found[i].key)'
    BY <1>2, <2>6 DEF Grows
  <2>8. job' = [job EXCEPT ![p] = new] /\ job[p] \in Jobs
    BY <1>1, <1>5, <2>5, <2>12
  <2>9. /\ new \in Jobs /\ new.pc = "next" /\ new.resp = r /\ new.key = job[p].key
        /\ new.label = job[p].label /\ new.queue = found
    BY <1>3, <2>8 DEF Jobs, Pcs
  <2> HIDE DEF new
  <2>10. /\ job' \in [Procs -> Jobs] /\ \A q \in Procs \ {p} : job'[q] = job[q]
        /\ job'[p] = new
    BY <1>1, <2>8, <2>9
  <2>11. JobOK(job[p])'
    BY <1>1, <2>9, <2>10, <2>6, <2>7 DEF JobOK, LabelOK
  <2> QED BY <1>1, <1>2, <2>9, <2>10, <2>11, QuietStep
<1>6. \/ job' = [job EXCEPT ![p] = Idle]
      \/ \E begun : \E scan \in ScanOrders(p, begun) :
           job' = [job EXCEPT ![p] =
                       [@ EXCEPT !.pc = "next", !.sizes = Unread,
                                 !.queue = [k \in DOMAIN scan |-> LineAt(scan[k])]]]
  BY Zenon DEF Scan
<1> QED BY <1>4, <1>5, <1>6, Zenon

\* The reader passes a row over, or takes it in hand.
LEMMA NextRowKeeps ==
  ASSUME CaptureInv, NEW p \in Procs, NextRow(p)
  PROVE  CaptureInv'
<1>1. /\ job[p].pc = "next" /\ JobOK(job[p]) /\ job \in [Procs -> Jobs] /\ job[p] \in Jobs
      /\ UNCHANGED <<packets, records, spool, today, captureNotes, vaultUp, lock, sent, outcome>>
      /\ outcome \in [Responses -> Reasons]
  BY DEF NextRow, CaptureInv, JobsOK, CaptureTypes
<1>2. SentOK' /\ Grows
  BY <1>1, SameSent, SameSpool
<1>3. PICK r \in Responses : r = job[p].resp
  BY <1>1 DEF JobOK
<1>4. CASE job' = [job EXCEPT ![p] = Idle]
  BY <1>1, <1>2, <1>4, Stops, QuietStep
<1>5. CASE job[p].queue # <<>> /\ job' = [job EXCEPT ![p].queue = Tail(job[p].queue)]
  <2>1. PICK rest \in Seq(SpoolRows) : rest = Tail(job[p].queue)
    BY <1>5, TailOK
  <2> DEFINE new == [job[p] EXCEPT !.queue = rest]
  <2>2. job' = [job EXCEPT ![p] = new]
    BY <1>1, <1>5, <2>1
  <2>3. /\ new \in Jobs /\ new.pc = "next" /\ new.resp = r /\ new.key = job[p].key
        /\ new.label = job[p].label /\ new.queue = rest
    BY <1>1, <1>3 DEF Jobs
  <2> HIDE DEF new
  <2>4. /\ job' \in [Procs -> Jobs] /\ \A q \in Procs \ {p} : job'[q] = job[q]
        /\ job'[p] = new
    BY <1>1, <2>2, <2>3
  <2>5. \A i \in DOMAIN rest : Spooled(rest[i].key)' /\ LabelOK(rest[i].label, rest[i].key)
    BY <1>2, <1>5, <2>1, TailOK DEF Grows
  <2>6. JobOK(job[p])'
    BY <1>1, <2>3, <2>4, <2>5 DEF JobOK, LabelOK
  <2> QED BY <1>1, <1>2, <2>3, <2>4, <2>6, QuietStep
<1>6. ASSUME job[p].queue # <<>>, NEW to \in {"distill", "lock"},
             to = "distill" => DistillEnabled(Head(job[p].queue).label),
             ~Refused(Head(job[p].queue).key, Head(job[p].queue).named),
             job' = [job EXCEPT ![p] =
                       [job[p] EXCEPT !.pc = to, !.key = Head(job[p].queue).key,
                                      !.label = Head(job[p].queue).label, !.tries = 0]]
      PROVE  CaptureInv'
  <2>1. PICK row \in SpoolRows : row = Head(job[p].queue)
    BY <1>6, TailOK
  <2>2. PICK k \in Responses, l \in Labels : k = row.key /\ l = row.label
    BY DEF SpoolRows
  <2> DEFINE new == [job[p] EXCEPT !.pc = to, !.key = k, !.label = l, !.tries = 0]
  <2>3. job' = [job EXCEPT ![p] = new]
    BY <1>6, <2>1, <2>2
  <2>4. to \in Pcs
    BY DEF Pcs
  <2>5. /\ new \in Jobs /\ new.pc = to /\ new.resp = r /\ new.key = k
        /\ new.label = l /\ new.queue = job[p].queue
    BY <1>1, <1>3, <2>4 DEF Jobs
  <2> HIDE DEF new
  <2>6. /\ job' \in [Procs -> Jobs] /\ \A q \in Procs \ {p} : job'[q] = job[q]
        /\ job'[p] = new
    BY <1>1, <2>3, <2>5
  <2>7. Spooled(k)' /\ LabelOK(l, k) /\ k \notin Thin
    BY <1>2, <1>6, <2>1, <2>2, TailOK DEF Grows, Refused
  <2>8. JobOK(job[p])'
    BY <1>1, <1>2, <1>6, <2>1, <2>2, <2>5, <2>6, <2>7 DEF JobOK, LabelOK, DistillEnabled, Grows
  <2> QED BY <1>1, <1>2, <1>6, <2>5, <2>6, <2>8, QuietStep
<1> QED BY <1>1, <1>4, <1>5, <1>6 DEF NextRow

-----------------------------------------------------------------------------
(* The environment. *)

\* A process is killed: the system releases its lock.
LEMMA CrashKeeps ==
  ASSUME AutocaptureAssumption, CaptureInv, NEW p \in Procs, Crash(p)
  PROVE  CaptureInv'
<1>1. /\ job' = [job EXCEPT ![p] = Idle] /\ Release(p)
      /\ UNCHANGED <<packets, records, spool, today, captureNotes, vaultUp, sent, outcome>>
      /\ outcome \in [Responses -> Reasons]
      /\ spool \in [1 .. Days -> Seq(SpoolRows)] /\ captureNotes \in Seq(NoteRows)
  BY DEF Crash, CaptureInv, CaptureTypes
<1>2. /\ job' \in [Procs -> Jobs] /\ \A q \in Procs \ {p} : job'[q] = job[q]
      /\ JobOK(job[p])' /\ job'[p].pc = "idle"
  BY <1>1, Stops
<1>3. LockOK'
  BY <1>1, <1>2 DEF CaptureInv, LockOK, Release, AutocaptureAssumption
<1>4. SentOK' /\ Grows /\ RowsOK' /\ NotesOK' /\ OneNotePerKey'
  BY <1>1, SameSent, SameSpool, SameNotes DEF CaptureInv
<1> QED BY <1>1, <1>2, <1>3, <1>4, ProcessStep

\* A process is killed inside an append.
LEMMA TearKeeps ==
  ASSUME CaptureInv, NEW p \in Procs, TearAppend(p)
  PROVE  CaptureInv'
<1>1. /\ job[p].pc = "spool" /\ job' = [job EXCEPT ![p] = Idle]
      /\ spool' = [spool EXCEPT ![today] = Append(@, TornRow(job[p].resp))]
      /\ UNCHANGED <<packets, records, today, captureNotes, vaultUp, lock, sent, outcome>>
      /\ outcome \in [Responses -> Reasons] /\ captureNotes \in Seq(NoteRows)
      /\ today \in 1 .. Days /\ spool \in [1 .. Days -> Seq(SpoolRows)]
  BY DEF TearAppend, CaptureInv, CaptureTypes
<1>2. /\ job' \in [Procs -> Jobs] /\ \A q \in Procs \ {p} : job'[q] = job[q]
      /\ JobOK(job[p])' /\ job'[p].pc = "idle"
  BY <1>1, Stops
<1>3. PICK r \in Responses : r = job[p].resp
  BY <1>1 DEF CaptureInv, JobsOK, JobOK
<1> DEFINE row == TornRow(r)
<1>4. /\ row \in SpoolRows /\ row.ok = FALSE /\ row.ended = FALSE /\ LabelOK(row.label, row.key)
  BY DEF TornRow, SpoolRows, Labels, LabelOK, NoValue
<1>5. spool' = [spool EXCEPT ![today] = Append(spool[today], row)]
  BY <1>1, <1>3
<1> HIDE DEF row
<1>6. Grows /\ RowsOK' /\ spool' \in [1 .. Days -> Seq(SpoolRows)]
  BY <1>4, <1>5, AppendGrows
<1>7. LockOK'
  BY <1>1, <1>2 DEF CaptureInv, LockOK
<1>8. SentOK' /\ NotesOK' /\ OneNotePerKey'
  BY <1>1, <1>6, SameSent, SameNotes
<1> QED BY <1>1, <1>2, <1>6, <1>7, <1>8, ProcessStep

\* A step that no capture process takes.
LEMMA OutsideKeeps ==
  ASSUME CaptureInv, UNCHANGED <<spool, captureNotes, lock, job, outcome, sent>>,
         today' \in 1 .. Days, packets' \subseteq Responses, records' \subseteq Responses,
         vaultUp' \in BOOLEAN, RecordsOK'
  PROVE  CaptureInv'
<1>1. SentOK' /\ Grows /\ RowsOK' /\ NotesOK' /\ OneNotePerKey'
  BY SameSent, SameSpool, SameNotes DEF CaptureInv
<1>2. CaptureTypes' /\ LockOK'
  BY DEF CaptureInv, CaptureTypes, LockOK
<1>3. NothingLost'
  BY <1>1, OutcomesKept
<1>4. JobsOK'
  BY <1>1 DEF CaptureInv, JobsOK, JobOK, Grows, LabelOK, DistillEnabled
<1> QED BY <1>1, <1>2, <1>3, <1>4 DEF CaptureInv

\* The environment archives, prunes, changes the day and loses the vault.
LEMMA EnvironmentKeeps ==
  ASSUME AutocaptureAssumption, CaptureInv,
         \/ \E r \in Responses : Archive(r) \/ Prune(r)
         \/ NextDay \/ VaultDown \/ VaultBack \/ Damage
  PROVE  CaptureInv'
<1>1. /\ today \in 1 .. Days /\ packets \subseteq Responses /\ records \subseteq Responses
      /\ vaultUp \in BOOLEAN /\ RecordsOK
  BY DEF CaptureInv, CaptureTypes
<1>2. CASE NextDay
  <2>1. today' \in 1 .. Days
    BY <1>1, <1>2 DEF NextDay, AutocaptureAssumption
  <2>2. /\ UNCHANGED <<spool, captureNotes, lock, job, outcome, sent>>
        /\ UNCHANGED <<packets, records, vaultUp>>
    BY <1>2 DEF NextDay
  <2>3. RecordsOK'
    BY <1>1, <2>2 DEF RecordsOK
  <2> QED BY <1>1, <2>1, <2>2, <2>3, OutsideKeeps
<1>3. CASE VaultDown \/ VaultBack \/ Damage \/ \E r \in Responses : Archive(r)
  <2>1. /\ UNCHANGED <<spool, captureNotes, lock, job, outcome, sent>>
        /\ UNCHANGED <<packets, records, today>> /\ vaultUp' \in BOOLEAN
    BY <1>1, <1>3 DEF VaultDown, VaultBack, Damage, Archive
  <2>2. RecordsOK'
    BY <1>1, <2>1 DEF RecordsOK
  <2> QED BY <1>1, <2>1, <2>2, OutsideKeeps
<1>4. ASSUME NEW r \in Responses, Prune(r) PROVE CaptureInv'
  <2>1. /\ UNCHANGED <<spool, captureNotes, lock, job, outcome, sent>>
        /\ UNCHANGED <<today, vaultUp>>
        /\ packets' \subseteq Responses /\ records' \subseteq Responses /\ RecordsOK'
    BY <1>1, <1>4 DEF Prune, RecordsOK
  <2> QED BY <1>1, <2>1, OutsideKeeps
<1> QED BY <1>2, <1>3, <1>4

-----------------------------------------------------------------------------
(* The invariant. *)

\* Before anything is captured every part of the invariant holds.
LEMMA CaptureStarts ==
  ASSUME AutocaptureAssumption, CaptureInit
  PROVE  CaptureInv
<1>1. Idle \in Jobs
  BY IdleRecord
<1>2. CaptureTypes
  BY <1>1 DEF CaptureInit, CaptureTypes, Reasons, AutocaptureAssumption
<1>3. JobsOK
  BY IdleRecord DEF CaptureInit, JobsOK, JobOK, LabelOK
<1>4. LockOK
  BY IdleRecord DEF CaptureInit, LockOK, AutocaptureAssumption
<1>5. RowsOK /\ NotesOK /\ OneNotePerKey
  BY DEF CaptureInit, RowsOK, NotesOK, OneNotePerKey
<1>6. NothingLost
  BY DEF CaptureInit, NothingLost, NoValue
<1>7. RecordsOK /\ SentOK
  BY DEF CaptureInit, RecordsOK, SentOK, RestrictedStaysLocal
<1> QED BY <1>2, <1>3, <1>4, <1>5, <1>6, <1>7 DEF CaptureInv

\* No step of a capture process or of its environment breaks the invariant.
LEMMA CaptureSteps ==
  ASSUME AutocaptureAssumption, CaptureInv, [CaptureNext]_captureVars
  PROVE  CaptureInv'
<1>1. ASSUME NEW p \in Procs, Step(p) PROVE CaptureInv'
  BY <1>1, CheckReplayKeeps, ReadSpoolKeeps, SpoolKeeps, ScreenKeeps, DistillKeeps,
     AcquireKeeps, WriteKeeps, ReaderKeeps, ScanKeeps, NextRowKeeps DEF Step
<1>2. ASSUME NEW p \in Procs, NEW r \in Responses, Start(p, r) PROVE CaptureInv'
  BY <1>2, StartKeeps
<1>3. ASSUME NEW p \in Procs, Crash(p) \/ TearAppend(p) PROVE CaptureInv'
  BY <1>3, CrashKeeps, TearKeeps
<1>4. CASE UNCHANGED captureVars
  <2>1. UNCHANGED <<spool, captureNotes, lock, job, outcome, sent>>
    BY <1>4 DEF captureVars
  <2>2. /\ today' \in 1 .. Days /\ packets' \subseteq Responses /\ records' \subseteq Responses
        /\ vaultUp' \in BOOLEAN /\ RecordsOK'
    BY <1>4 DEF captureVars, CaptureInv, CaptureTypes, RecordsOK
  <2> QED BY <2>1, <2>2, OutsideKeeps
<1> QED BY <1>1, <1>2, <1>3, <1>4, EnvironmentKeeps DEF CaptureNext

\* Whatever the interleaving of capture processes, their crashes, outages of the
\* vault and removals of task records, the invariant holds.
THEOREM CaptureInvariant ==
  ASSUME AutocaptureAssumption
  PROVE  CaptureSpec => []CaptureInv
<1>1. CaptureInit => CaptureInv
  BY CaptureStarts
<1>2. CaptureInv /\ [CaptureNext]_captureVars => CaptureInv'
  BY CaptureSteps
<1> QED BY <1>1, <1>2, PTL DEF CaptureSpec

\* Every process is at a step of capture_response or of the spool reader, and only
\* the one in the locked section holds the dedupe lock.
THEOREM AutocaptureTypeCorrect ==
  ASSUME AutocaptureAssumption
  PROVE  CaptureSpec => []AutocaptureTypeOK
<1>1. CaptureInv => AutocaptureTypeOK
  BY DEF CaptureInv, CaptureTypes, LockOK, Jobs, AutocaptureTypeOK
<1> QED BY <1>1, CaptureInvariant, PTL

\* The vault holds at most one note per dedupe key, however many processes replay
\* the response or graduate its spooled row (_dedupe_lock, _find_duplicate).
THEOREM OneNotePerKeyInvariant ==
  ASSUME AutocaptureAssumption
  PROVE  CaptureSpec => []OneNotePerKey
<1>1. CaptureInv => OneNotePerKey
  BY DEF CaptureInv
<1> QED BY <1>1, CaptureInvariant, PTL

\* Whatever a run ended with, captured, refused, failed or duplicate, the raw row of
\* its response is in the spool and parses, or its day's file holds half a line that
\* a killed append left (_spool_episodic before the filter).
THEOREM NothingLostInvariant ==
  ASSUME AutocaptureAssumption
  PROVE  CaptureSpec => []NothingLost
<1>1. CaptureInv => NothingLost
  BY DEF CaptureInv
<1> QED BY <1>1, CaptureInvariant, PTL

\* No path into the vault writes a note the mechanical filter refuses.
THEOREM NotesAreKnowledgeInvariant ==
  ASSUME AutocaptureAssumption
  PROVE  CaptureSpec => []NotesAreKnowledge
<1>1. CaptureInv => NotesAreKnowledge
  BY DEF CaptureInv, NotesOK, NotesAreKnowledge
<1> QED BY <1>1, CaptureInvariant, PTL

\* Without the operator's opt-in no text of security work, of a response that calls
\* itself bounty, or of a bounty task whose response names no mode, is given to the
\* distiller, as long as one of the two records of a task's mode outlives its
\* capture (_distillation_enabled, raw_mode).
THEOREM RestrictedStaysLocalInvariant ==
  ASSUME AutocaptureAssumption, ModeIsKept
  PROVE  CaptureSpec => []RestrictedStaysLocal
<1>1. CaptureInv => RestrictedStaysLocal
  BY DEF CaptureInv, SentOK
<1> QED BY <1>1, CaptureInvariant, PTL

-----------------------------------------------------------------------------
(* The spool does not grow with replays.                                   *)
(*                                                                         *)
(* A process that read every file and is about to append has not found the *)
(* row.  So the rows of a response that such processes appended and the    *)
(* processes about to add one are together at most the processes: a whole  *)
(* look that finds no row counts from zero, and an append turns one of the *)
(* second into one of the first.  Rows appended after a look that skipped  *)
(* a file are not counted: such a look proves nothing of that file.        *)

RowsOf(r) == {c \in (1 .. Days) \X (1 .. MaxRows) :
                /\ c[2] \in DOMAIN spool[c[1]]
                /\ spool[c[1]][c[2]].key = r /\ spool[c[1]][c[2]].whole}
Appending(r) == {p \in Procs : job[p].pc = "spool" /\ job[p].whole /\ job[p].resp = r}

Fits == \A d \in 1 .. Days : Len(spool[d]) <= MaxRows
Counted ==
  \A r \in Responses : Cardinality(RowsOf(r)) + Cardinality(Appending(r)) <= Cardinality(Procs)

BoundInv == Fits /\ Counted

\* The rows and the processes of a response can be counted.
LEMMA Countable ==
  ASSUME AutocaptureAssumption, NEW r
  PROVE  /\ IsFiniteSet(RowsOf(r)) /\ IsFiniteSet(Appending(r))
         /\ Cardinality(RowsOf(r)) \in Nat /\ Cardinality(Appending(r)) \in Nat
         /\ Cardinality(Procs) \in Nat /\ Cardinality(Appending(r)) <= Cardinality(Procs)
<1>1. IsFiniteSet((1 .. Days) \X (1 .. MaxRows)) /\ IsFiniteSet(Procs)
  BY LinesFinite DEF AutocaptureAssumption
<1>2. RowsOf(r) \subseteq (1 .. Days) \X (1 .. MaxRows) /\ Appending(r) \subseteq Procs
  BY DEF RowsOf, Appending
<1>3. IsFiniteSet(RowsOf(r)) /\ IsFiniteSet(Appending(r))
  BY <1>1, <1>2, FS_Subset
<1>4. Cardinality(Appending(r)) <= Cardinality(Procs)
  BY <1>1, <1>2, FS_Subset
<1> QED BY <1>1, <1>3, <1>4, FS_CardinalityType

\* A process that is about to append after a whole look.
Counts(j) == j.pc = "spool" /\ j.whole

\* A step that appends nothing and sends no process that counts to append.
LEMMA CalmKeeps ==
  ASSUME AutocaptureAssumption, Fits, Counted, UNCHANGED spool,
         \A q \in Procs : Counts(job'[q]) => job'[q] = job[q]
  PROVE  Fits' /\ Counted'
<1>1. Fits'
  BY DEF Fits
<1>2. ASSUME NEW r \in Responses
      PROVE  Cardinality(RowsOf(r)') + Cardinality(Appending(r)') <= Cardinality(Procs)
  <2>1. RowsOf(r)' = RowsOf(r)
    BY DEF RowsOf
  <2>2. Appending(r)' \subseteq Appending(r)
    BY DEF Appending, Counts
  <2>3. Cardinality(Appending(r)') <= Cardinality(Appending(r)) /\ IsFiniteSet(Appending(r)')
    BY <2>2, Countable, FS_Subset
  <2>4. Cardinality(Appending(r)') \in Nat
    BY <2>3, FS_CardinalityType
  <2> QED BY <2>1, <2>3, <2>4, Countable DEF Counted
<1> QED BY <1>1, <1>2 DEF Counted

\* A whole look that finds no row counts from zero.
LEMMA LookCounts ==
  ASSUME AutocaptureAssumption, CaptureInv, Fits, Counted, UNCHANGED spool,
         NEW p \in Procs, ~SpoolContains(p), \A d \in 1 .. Days : Reads(p, d),
         \A q \in Procs \ {p} : job'[q] = job[q], job'[p].resp = job[p].resp
  PROVE  Fits' /\ Counted'
<1>1. Fits'
  BY DEF Fits
<1>2. PICK x : x = job[p].resp
  OBVIOUS
<1>4. RowsOf(x) = {}
  <2>1. ASSUME NEW c \in RowsOf(x) PROVE FALSE
    <3>1. c \in Lines(p) /\ LineAt(c).key = x
      BY <2>1 DEF RowsOf, Lines, LineAt
    <3> QED BY <1>2, <3>1 DEF SpoolContains
  <2> QED BY <2>1
<1>5. ASSUME NEW r \in Responses
      PROVE  Cardinality(RowsOf(r)') + Cardinality(Appending(r)') <= Cardinality(Procs)
  <2>1. RowsOf(r)' = RowsOf(r)
    BY DEF RowsOf
  <2>2. Appending(r)' \subseteq Procs /\ IsFiniteSet(Procs)
    BY DEF Appending, AutocaptureAssumption
  <2>3. Cardinality(Appending(r)') <= Cardinality(Procs) /\ IsFiniteSet(Appending(r)')
    BY <2>2, FS_Subset
  <2>4. Cardinality(Appending(r)') \in Nat /\ Cardinality(Procs) \in Nat
    BY <2>2, <2>3, FS_CardinalityType
  <2>5. CASE r = x
    <3>1. Cardinality(RowsOf(r)') = 0
      BY <1>4, <2>1, <2>5, FS_EmptySet
    <3> QED BY <2>3, <2>4, <3>1
  <2>6. CASE r # x
    <3>1. Appending(r)' \subseteq Appending(r)
      BY <1>2, <2>6 DEF Appending
    <3>2. Cardinality(Appending(r)') <= Cardinality(Appending(r))
      BY <3>1, Countable, FS_Subset
    <3> QED BY <2>1, <2>4, <3>2, Countable DEF Counted
  <2> QED BY <2>5, <2>6
<1> QED BY <1>1, <1>5 DEF Counted

\* An append turns a process about to add a row into a row; a torn append
\* leaves half a line, which is no row.
LEMMA AppendCounts ==
  ASSUME AutocaptureAssumption, CaptureInv, Fits, Counted, NEW p \in Procs,
         job[p].pc = "spool", Len(spool[today]) < MaxRows, NEW row,
         spool' = [spool EXCEPT ![today] = Append(spool[today], row)],
         row.key = job[p].resp, row.whole => job[p].whole,
         \A q \in Procs \ {p} : job'[q] = job[q], job'[p].pc # "spool"
  PROVE  Fits' /\ Counted'
<1>1. /\ today \in 1 .. Days /\ spool \in [1 .. Days -> Seq(SpoolRows)] /\ job \in [Procs -> Jobs]
      /\ MaxRows \in Nat
  BY DEF CaptureInv, CaptureTypes, AutocaptureAssumption
<1>2. PICK x \in Responses : x = job[p].resp
  BY <1>1 DEF CaptureInv, JobsOK, JobOK
<1> DEFINE n == Len(spool[today])
<1>3. n \in Nat /\ DOMAIN spool[today] = 1 .. n
  BY <1>1
<1>7. /\ DOMAIN spool'[today] = 1 .. n + 1 /\ Len(spool'[today]) = n + 1
      /\ \A i \in 1 .. n : spool'[today][i] = spool[today][i]
      /\ spool'[today][n + 1] = row
      /\ \A d \in 1 .. Days : d # today => spool'[d] = spool[d]
  <2>1. Append(spool[today], row) = spool'[today]
    BY <1>1
  <2> QED BY <1>1, <1>3, <2>1
<1> HIDE DEF n
<1>9. Fits'
  BY <1>1, <1>3, <1>7 DEF Fits, n
<1>11. ASSUME NEW r \in Responses
       PROVE  Cardinality(RowsOf(r)') + Cardinality(Appending(r)') <= Cardinality(Procs)
  <2>1. CASE r # x \/ ~row.whole
    <3>1. RowsOf(r)' = RowsOf(r)
      BY <1>2, <1>3, <1>7, <2>1 DEF RowsOf
    <3>2. Appending(r)' \subseteq Appending(r)
      BY DEF Appending
    <3>3. Cardinality(Appending(r)') <= Cardinality(Appending(r)) /\ IsFiniteSet(Appending(r)')
      BY <3>2, Countable, FS_Subset
    <3>4. Cardinality(Appending(r)') \in Nat
      BY <3>3, FS_CardinalityType
    <3> QED BY <3>1, <3>3, <3>4, Countable DEF Counted
  <2>2. CASE r = x /\ row.whole
    <3>1. RowsOf(r)' = RowsOf(r) \cup {<<today, n + 1>>}
      BY <1>1, <1>2, <1>3, <1>7, <2>2, SMTT(20) DEF RowsOf, n
    <3>2. <<today, n + 1>> \notin RowsOf(r)
      BY <1>3 DEF RowsOf
    <3>3. Cardinality(RowsOf(r)') = Cardinality(RowsOf(r)) + 1
      BY <3>1, <3>2, Countable, FS_AddElement
    <3>4. Appending(r)' = Appending(r) \ {p} /\ p \in Appending(r)
      BY <1>2, <2>2 DEF Appending
    <3>5. Cardinality(Appending(r)') = Cardinality(Appending(r)) - 1
      BY <3>4, Countable, FS_RemoveElement
    <3> QED BY <3>3, <3>5, Countable DEF Counted
  <2> QED BY <2>1, <2>2
<1> QED BY <1>9, <1>11 DEF Counted

\* The record of a process after a step that sends it elsewhere.
LEMMA SentElsewhere ==
  ASSUME CaptureInv, NEW p \in Procs, NEW new, job' = [job EXCEPT ![p] = new],
         new.pc # "spool"
  PROVE  \A q \in Procs : Counts(job'[q]) => job'[q] = job[q]
BY DEF CaptureInv, CaptureTypes, Counts

\* A run that ends, or goes on to the spool reader, does not append.
LEMMA EndsAreCalm ==
  ASSUME CaptureInv, NEW p \in Procs, FinishDuplicate(p) \/ \E reason : EndRun(p, reason)
  PROVE  \A q \in Procs : Counts(job'[q]) => job'[q] = job[q]
<1>1. ASSUME NEW r PROVE [Idle EXCEPT !.pc = "reader", !.resp = r].pc = "reader"
  BY DEF Idle
<1> QED BY <1>1, IdleRecord, SentElsewhere DEF FinishDuplicate, EndRun

\* No other step of a process appends, or sends a process to append.
LEMMA OthersAreCalm ==
  ASSUME CaptureInv, NEW p \in Procs,
         \/ CheckReplay(p) \/ Screen(p) \/ Distill(p) \/ Acquire(p) \/ WriteNote(p)
         \/ Reader(p) \/ Scan(p) \/ NextRow(p) \/ Crash(p)
  PROVE  UNCHANGED spool /\ \A q \in Procs : Counts(job'[q]) => job'[q] = job[q]
<1>1. job \in [Procs -> Jobs] /\ Idle.pc = "idle"
  BY IdleRecord DEF CaptureInv, CaptureTypes
<1>2. UNCHANGED spool
  BY Zenon DEF CheckReplay, Screen, Distill, Acquire, WriteNote, Reader, Scan, NextRow, Crash
<1>3. ASSUME NEW new, job' = [job EXCEPT ![p] = new], new.pc # "spool"
      PROVE  \A q \in Procs : Counts(job'[q]) => job'[q] = job[q]
  BY <1>3, SentElsewhere
<1>4. ASSUME NEW to, to # "spool", job' = [job EXCEPT ![p].pc = to]
      PROVE  \A q \in Procs : Counts(job'[q]) => job'[q] = job[q]
  BY <1>1, <1>4 DEF Jobs, Counts
<1>6. ASSUME FinishDuplicate(p) \/ \E reason : EndRun(p, reason)
      PROVE  \A q \in Procs : Counts(job'[q]) => job'[q] = job[q]
  BY <1>6, EndsAreCalm
<1>5. CASE CheckReplay(p)
  <2>1. [job[p] EXCEPT !.pc = "read", !.sizes = Sizes].pc = "read"
    BY <1>1 DEF Jobs
  <2> QED BY <1>3, <1>5, <1>6, <2>1 DEF CheckReplay, EndsAsSeen
<1>7. CASE Screen(p)
  BY <1>4, <1>6, <1>7 DEF Screen, EndsAsSeen, Continue
<1>8. CASE Distill(p)
  <2>1. CASE job' = [job EXCEPT ![p].tries = @ + 1]
    BY <1>1, <1>8, <2>1 DEF Jobs, Distill, Counts
  <2> QED BY <1>1, <1>3, <1>4, <1>6, <1>8, <2>1 DEF Distill, Continue
<1>9. CASE Acquire(p)
  BY <1>1, <1>3, <1>4, <1>6, <1>9 DEF Acquire, Continue
<1>10. CASE WriteNote(p)
  <2>1. ASSUME NEW reason, AfterWrite(p, reason)
        PROVE  \A q \in Procs : Counts(job'[q]) => job'[q] = job[q]
    <3>1. [job[p] EXCEPT !.pc = "next", !.queue = Tail(@)].pc = "next"
      BY <1>1 DEF Jobs
    <3> QED BY <1>1, <1>3, <1>6, <2>1, <3>1 DEF AfterWrite
  <2> QED BY <1>10, <2>1 DEF WriteNote
<1>11. CASE Reader(p)
  <2>1. [job[p] EXCEPT !.pc = "scan", !.sizes = Sizes].pc = "scan"
    BY <1>1 DEF Jobs
  <2> QED BY <1>1, <1>3, <1>11, <2>1 DEF Reader
<1>14. CASE Scan(p)
  <2>1. CASE job' = [job EXCEPT ![p] = Idle]
    BY <1>1, <1>2, <1>3, <2>1, Zenon
  <2>2. ASSUME NEW q, job' = [job EXCEPT ![p] = [@ EXCEPT !.pc = "next", !.sizes = Unread,
                                                          !.queue = q]]
        PROVE  \A x \in Procs : Counts(job'[x]) => job'[x] = job[x]
    <3> DEFINE new == [job[p] EXCEPT !.pc = "next", !.sizes = Unread, !.queue = q]
    <3>1. new.pc = "next" /\ job' = [job EXCEPT ![p] = new]
      BY <1>1, <2>2 DEF Jobs
    <3> HIDE DEF new
    <3> QED BY <3>1, SentElsewhere
  <2>3. \/ job' = [job EXCEPT ![p] = Idle]
        \/ \E q : job' = [job EXCEPT ![p] = [@ EXCEPT !.pc = "next", !.sizes = Unread,
                                                      !.queue = q]]
    BY <1>14, Zenon DEF Scan
  <2> QED BY <1>2, <2>1, <2>2, <2>3, Zenon
<1>12. CASE NextRow(p)
  <2>1. ASSUME NEW to \in {"distill", "lock"}, NEW k, NEW l
        PROVE  [job[p] EXCEPT !.pc = to, !.key = k, !.label = l, !.tries = 0].pc = to
    BY <1>1 DEF Jobs
  <2>2. CASE job' = [job EXCEPT ![p].queue = Tail(job[p].queue)]
    BY <1>1, <1>12, <2>2 DEF Jobs, NextRow, Counts
  <2>3. job' = [job EXCEPT ![p] = Idle]
          => \A q \in Procs : Counts(job'[q]) => job'[q] = job[q]
    BY <1>1, <1>3
  <2>4. ASSUME NEW to \in {"distill", "lock"},
               job' = [job EXCEPT ![p] = [@ EXCEPT !.pc = to, !.key = Head(job[p].queue).key,
                                            !.label = Head(job[p].queue).label, !.tries = 0]]
        PROVE  \A q \in Procs : Counts(job'[q]) => job'[q] = job[q]
    <3> DEFINE new == [job[p] EXCEPT !.pc = to, !.key = Head(job[p].queue).key,
                                     !.label = Head(job[p].queue).label, !.tries = 0]
    <3>1. new.pc = to /\ job' = [job EXCEPT ![p] = new]
      BY <2>1, <2>4
    <3> HIDE DEF new
    <3> QED BY <3>1, SentElsewhere
  <2> QED BY <1>2, <1>12, <2>2, <2>3, <2>4 DEF NextRow
<1>13. CASE Crash(p)
  BY <1>1, <1>3, <1>13 DEF Crash
<1> QED BY <1>2, <1>5, <1>7, <1>8, <1>9, <1>10, <1>11, <1>12, <1>13, <1>14

\* Every step keeps the count.
LEMMA BoundSteps ==
  ASSUME AutocaptureAssumption, CaptureInv, BoundInv, [CaptureNext]_captureVars
  PROVE  BoundInv'
<1> USE DEF BoundInv
<1>1. job \in [Procs -> Jobs]
  BY DEF CaptureInv, CaptureTypes
<1>2. ASSUME NEW p \in Procs, ReadSpool(p) PROVE BoundInv'
  <2>1. UNCHANGED spool
    BY <1>2 DEF ReadSpool
  <2>2. CASE EndRun(p, "episodic_spool_too_large")
    BY <2>1, <2>2, EndsAreCalm, CalmKeeps
  <2>3. ASSUME NEW to, NEW saw \in BOOLEAN,
               saw => ~SpoolContains(p) /\ \A d \in 1 .. Days : Reads(p, d),
               job' = [job EXCEPT ![p] =
                         [@ EXCEPT !.pc = to, !.sizes = Unread, !.whole = saw]]
        PROVE  BoundInv'
    <3>1. /\ \A q \in Procs \ {p} : job'[q] = job[q]
          /\ job'[p].resp = job[p].resp /\ job'[p].whole = saw
      BY <1>1, <2>3 DEF Jobs
    <3>2. CASE saw
      BY <2>1, <2>3, <3>1, <3>2, LookCounts
    <3>3. CASE ~saw
      <4>1. \A q \in Procs : Counts(job'[q]) => job'[q] = job[q]
        BY <3>1, <3>3 DEF Counts
      <4> QED BY <2>1, <4>1, CalmKeeps
    <3> QED BY <3>2, <3>3
  <2> DEFINE look == ~SpoolContains(p) /\ \A d \in 1 .. Days : Reads(p, d)
             next == IF SpoolContains(p) THEN "screen" ELSE "spool"
  <2>4. look \in BOOLEAN /\ (look => ~SpoolContains(p) /\ \A d \in 1 .. Days : Reads(p, d))
    OBVIOUS
  <2>5. \/ EndRun(p, "episodic_spool_too_large")
        \/ job' = [job EXCEPT ![p] = [@ EXCEPT !.pc = next, !.sizes = Unread, !.whole = look]]
    BY <1>2 DEF ReadSpool
  <2> HIDE DEF look, next
  <2> QED BY <2>2, <2>3, <2>4, <2>5, Zenon
<1>3. ASSUME NEW p \in Procs, Spool(p) PROVE BoundInv'
  <2>1. /\ job[p].pc = "spool" /\ Len(spool[today]) < MaxRows /\ job[p] \in Jobs
        /\ job' = [job EXCEPT ![p] = [@ EXCEPT !.pc = "screen", !.whole = FALSE]]
    BY <1>1, <1>3 DEF Spool
  <2> DEFINE row == [SpoolRow(job[p]) EXCEPT !.ok =
                       ~(Len(spool[today]) > 0 /\ ~spool[today][Len(spool[today])].ended)]
  <2>2. spool' = [spool EXCEPT ![today] = Append(spool[today], row)]
    BY <1>3 DEF Spool, AppendLine
  <2>3. row.key = job[p].resp /\ row.whole = job[p].whole
    BY DEF SpoolRow
  <2> HIDE DEF row
  <2>4. /\ \A q \in Procs \ {p} : job'[q] = job[q]
        /\ job'[p].pc = "screen"
    BY <1>1, <2>1 DEF Jobs
  <2> QED BY <2>1, <2>2, <2>3, <2>4, AppendCounts
<1>7. ASSUME NEW p \in Procs, TearAppend(p) PROVE BoundInv'
  <2>1. /\ job[p].pc = "spool" /\ Len(spool[today]) < MaxRows
        /\ job' = [job EXCEPT ![p] = Idle]
        /\ spool' = [spool EXCEPT ![today] = Append(spool[today], TornRow(job[p].resp))]
    BY <1>7 DEF TearAppend
  <2>2. TornRow(job[p].resp).key = job[p].resp /\ TornRow(job[p].resp).whole = FALSE
    BY DEF TornRow
  <2>3. /\ \A q \in Procs \ {p} : job'[q] = job[q]
        /\ job'[p].pc = "idle"
    BY <1>1, <2>1, IdleRecord
  <2> QED BY <2>1, <2>2, <2>3, AppendCounts
<1>4. ASSUME NEW p \in Procs,
             \/ CheckReplay(p) \/ Screen(p) \/ Distill(p) \/ Acquire(p) \/ WriteNote(p)
             \/ Reader(p) \/ Scan(p) \/ NextRow(p) \/ Crash(p)
      PROVE  BoundInv'
  BY <1>4, OthersAreCalm, CalmKeeps
<1>5. ASSUME NEW p \in Procs, NEW r \in Responses, Start(p, r)
      PROVE  BoundInv'
  <2>1. UNCHANGED spool
    BY <1>5 DEF Start
  <2>2. \A q \in Procs : Counts(job'[q]) => job'[q] = job[q]
    <3> DEFINE new == [Idle EXCEPT !.pc = "check", !.resp = r, !.key = r,
                                   !.label = Label(r), !.named = Attributed(r),
                                   !.root = vaultUp]
    <3>1. new.pc = "check"
      BY DEF Idle
    <3>2. UNCHANGED job \/ job' = [job EXCEPT ![p] = new]
      BY <1>5 DEF Start
    <3> HIDE DEF new
    <3> QED BY <3>1, <3>2, SentElsewhere
  <2> QED BY <2>1, <2>2, CalmKeeps
<1>6. CASE \/ \E r \in Responses : Archive(r) \/ Prune(r)
           \/ NextDay \/ VaultDown \/ VaultBack \/ Damage \/ UNCHANGED captureVars
  <2>1. UNCHANGED <<spool, job>>
    BY <1>6 DEF Archive, Prune, NextDay, VaultDown, VaultBack, Damage, captureVars
  <2> QED BY <2>1, CalmKeeps
<1> HIDE DEF BoundInv
<1> QED BY <1>2, <1>3, <1>4, <1>5, <1>6, <1>7 DEF CaptureNext, Step

\* However often a response is replayed, the spool holds at most one row of it per
\* process that looked through the whole spool for it at the same moment
\* (_spool_contains before _spool_episodic), whatever was torn, skipped or killed.
THEOREM SpoolRowsBoundedInvariant ==
  ASSUME AutocaptureAssumption
  PROVE  CaptureSpec => []SpoolRowsBounded
<1>1. CaptureInit => BoundInv
  <2> SUFFICES ASSUME CaptureInit PROVE BoundInv
    OBVIOUS
  <2>1. Fits
    BY DEF CaptureInit, Fits, AutocaptureAssumption
  <2>2. ASSUME NEW r \in Responses
        PROVE  Cardinality(RowsOf(r)) + Cardinality(Appending(r)) <= Cardinality(Procs)
    <3>1. RowsOf(r) = {} /\ Appending(r) = {}
      BY IdleRecord DEF CaptureInit, RowsOf, Appending
    <3> QED BY <3>1, Countable, FS_EmptySet
  <2> QED BY <2>1, <2>2 DEF BoundInv, Counted
<1>2. CaptureInv /\ BoundInv /\ [CaptureNext]_captureVars => BoundInv'
  BY BoundSteps
<1>3. BoundInv => SpoolRowsBounded
  <2> SUFFICES ASSUME BoundInv, NEW r \in Responses
               PROVE  Cardinality(RowsOf(r)) <= Cardinality(Procs)
    BY DEF SpoolRowsBounded, RowsOf
  <2> QED BY Countable DEF BoundInv, Counted
<1> QED BY <1>1, <1>2, <1>3, CaptureInvariant, PTL DEF CaptureSpec
=============================================================================
