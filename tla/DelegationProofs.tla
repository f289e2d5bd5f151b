-------------------------- MODULE DelegationProofs --------------------------
(***************************************************************************)
(* Proofs about the delegation store and its lock.  Delegation, for every   *)
(* set of tasks and specialists and for every budget: the caps hold through *)
(* crashes between the two writes of checkpoint(), and roots and terminal   *)
(* records cannot be rewritten.  StoreLock, for every set of processes:     *)
(* exclusion as long as no process has gone.                                *)
(***************************************************************************)
EXTENDS Delegation, StoreLock, FiniteSetTheorems, SequenceTheorems, TLAPS

(* The inductive invariant.  Between the ledger write and the record write  *)
(* of checkpoint() the delegation being admitted is in the ledger and in no *)
(* record, so every property counts it too.                                 *)

\* Delegations the ledger of a root pays for.
Reserved(r) ==
    {id \in Ids : \/ Exists(id) /\ record[id].lineage.root = r
                  \/ ~LockFree /\ id = admitting.id /\ admitting.lineage.root = r}

\* Children that take a place of an acting parent.
Occupied(p) ==
    {id \in Ids : id.parent = p /\ (record[id].state \in NonTerminal \/ id = admitting.id)}

\* A lineage whose first hop is a delegation its own root task made.
Founded(lineage) ==
    \E hop \in Ids :
        /\ Exists(hop)
        /\ hop.parent = lineage.root
        /\ record[hop].lineage = [root |-> lineage.root, visited |-> SubSeq(lineage.visited, 1, 2)]

\* The delegation being admitted has no record, and is a first hop of its own
\* parent or a further hop of a founded lineage.
PendingHop ==
    ~LockFree =>
        /\ ~Exists(admitting.id)
        /\ \/ /\ admitting.lineage.root = admitting.id.parent
              /\ Len(admitting.lineage.visited) = 2
           \/ Founded(admitting.lineage)

\* A record that exists carries a lineage that grew by at least one hop.
KnownLineages ==
    \A id \in Ids : Exists(id) => record[id].lineage \in Lineages /\ Founded(record[id].lineage)

LedgerCovers ==
    \A r \in ParentTasks :
        /\ IsFiniteSet(Reserved(r))
        /\ Cardinality(Reserved(r)) <= ledger[r]
        /\ ledger[r] <= MaxTotal

PlacesCovered ==
    \A p \in ParentTasks :
        IsFiniteSet(Occupied(p)) /\ Cardinality(Occupied(p)) <= MaxChildren

StoreInv == StoreTypeOK /\ PendingHop /\ KnownLineages /\ LedgerCovers /\ PlacesCovered

-----------------------------------------------------------------------------
(* Lineages.                                                                *)

\* What a lineage has visited is a nonempty sequence no longer than the budget.
LEMMA VisitsAreSequences ==
    ASSUME NEW been \in Visits
    PROVE  been \in Seq(Specialists) /\ Len(been) \in 1..(MaxDepth + 1) /\ DOMAIN been = 1..Len(been)
<1>1. PICK n \in 1..(MaxDepth + 1) : been \in [1..n -> Specialists]
  BY DEF Visits
<1>2. n \in Nat
  BY <1>1, BudgetAssumption
<1>3. been \in Seq(Specialists) /\ Len(been) = n
  BY <1>1, <1>2
<1> QED BY <1>1, <1>2, <1>3

\* A lineage that may advance stays within the budget and visits nobody twice.
LEMMA AdvanceType ==
    ASSUME NEW lineage \in Lineages, NEW dest \in Specialists, MayAdvance(lineage, dest)
    PROVE  /\ Advance(lineage, dest) \in Lineages
           /\ Advance(lineage, dest).root = lineage.root
           /\ Advance(lineage, dest).visited = Append(lineage.visited, dest)
<1> DEFINE been == lineage.visited
           walk == Append(been, dest)
           n == Len(been)
<1>1. been \in Visits /\ lineage.root \in ParentTasks
  BY DEF Lineages
<1>2. been \in Seq(Specialists) /\ n \in 1..(MaxDepth + 1) /\ DOMAIN been = 1..n
  BY <1>1, VisitsAreSequences
<1>3. n + 1 \in 1..(MaxDepth + 1)
  BY <1>2, BudgetAssumption DEF MayAdvance, Depth
<1>4. walk \in [1..(n + 1) -> Specialists]
  <2>1. walk \in Seq(Specialists) /\ Len(walk) = n + 1
    BY <1>2, AppendProperties
  <2> HIDE DEF walk
  <2>2. QED BY <2>1, LenProperties
<1>5. ASSUME NEW i \in DOMAIN walk, NEW j \in DOMAIN walk, walk[i] = walk[j] PROVE i = j
  <2>1. \A a, b \in DOMAIN been : been[a] = been[b] => a = b
    BY <1>1 DEF Visits
  <2>2. \A a \in DOMAIN been : been[a] # dest
    BY DEF MayAdvance, Visited
  <2>3. \A a \in 1..n : walk[a] = been[a]
    BY <1>2
  <2>4. walk[n + 1] = dest /\ DOMAIN walk = 1..(n + 1)
    BY <1>2
  <2>5. QED BY <1>2, <1>5, <2>1, <2>2, <2>3, <2>4
<1>6. walk \in Visits
  BY <1>3, <1>4, <1>5 DEF Visits
<1>7. QED BY <1>1, <1>6 DEF Advance, Lineages

\* The first two visits of a lineage do not change as it advances.
LEMMA AdvancePrefix ==
    ASSUME NEW been \in Seq(Specialists), NEW dest \in Specialists
    PROVE  /\ Len(been) = 1 => /\ SubSeq(Append(been, dest), 1, 2) = Append(been, dest)
                            /\ Len(Append(been, dest)) = 2
           /\ Len(been) >= 2 => SubSeq(Append(been, dest), 1, 2) = SubSeq(been, 1, 2)
<1> DEFINE walk == Append(been, dest)
<1>1. /\ walk \in Seq(Specialists) /\ Len(walk) = Len(been) + 1 /\ Len(been) \in Nat
      /\ \A i \in 1..Len(been) : walk[i] = been[i]
  BY AppendProperties
<1> HIDE DEF walk
<1>2. ASSUME Len(been) >= 1
      PROVE  /\ SubSeq(walk, 1, 2) \in Seq(Specialists) /\ Len(SubSeq(walk, 1, 2)) = 2
             /\ \A i \in 1..2 : SubSeq(walk, 1, 2)[i] = walk[i]
  BY <1>1, <1>2
<1>3. ASSUME Len(been) = 1 PROVE SubSeq(walk, 1, 2) = walk /\ Len(walk) = 2
  BY <1>1, <1>2, <1>3, SeqEqual
<1>4. ASSUME Len(been) >= 2 PROVE SubSeq(walk, 1, 2) = SubSeq(been, 1, 2)
  <2>1. /\ SubSeq(been, 1, 2) \in Seq(Specialists) /\ Len(SubSeq(been, 1, 2)) = 2
        /\ \A i \in 1..2 : SubSeq(been, 1, 2)[i] = been[i]
    BY <1>4
  <2>2. QED BY <1>1, <1>2, <1>4, <2>1, SeqEqual
<1> QED BY <1>3, <1>4 DEF walk

\* An admission is never mistaken for none: it has visited somebody.
LEMMA AdmissionIsReal ==
    ASSUME NEW id, NEW lineage \in Lineages
    PROVE  [id |-> id, lineage |-> lineage] # NotAdmitting
<1>1. lineage.visited # <<>>
  BY VisitsAreSequences, BudgetAssumption DEF Lineages
<1> QED BY <1>1 DEF NotAdmitting, NoLineage

\* No delegation has the id of none.
LEMMA NoIdIsNone == NoId \notin Ids
BY ParentTasksAssumption DEF NoId, Ids

-----------------------------------------------------------------------------
(* Every operation keeps the invariant.                                     *)

\* A store starts empty.
LEMMA StoreInitInv == StoreInit => StoreInv
<1> SUFFICES ASSUME StoreInit PROVE StoreInv
  OBVIOUS
<1>1. StoreTypeOK
  BY DEF StoreInit, StoreTypeOK, Records, NoRecord
<1>2. LockFree /\ \A id \in Ids : ~Exists(id) /\ record[id].state \notin NonTerminal
  BY DEF StoreInit, LockFree, Exists, NoRecord, NonTerminal
<1>3. \A r \in ParentTasks : Reserved(r) = {} /\ ledger[r] = 0
  BY <1>2 DEF Reserved, StoreInit
<1>4. \A p \in ParentTasks : Occupied(p) = {}
  BY <1>2, NoIdIsNone DEF Occupied, LockFree, NotAdmitting
<1>5. LedgerCovers /\ PlacesCovered
  BY <1>3, <1>4, FS_EmptySet, BudgetAssumption DEF LedgerCovers, PlacesCovered
<1> QED BY <1>1, <1>2, <1>5 DEF StoreInv, PendingHop, KnownLineages

\* What every operation but the two writes of checkpoint() may do: change the
\* state, the clock or the result of existing records, and never revive one.
Advances ==
    /\ UNCHANGED <<ledger, admitting>>
    /\ record' \in [Ids -> Records]
    /\ \A id \in Ids :
          /\ record'[id].lineage = record[id].lineage
          /\ Exists(id)' = Exists(id)
          /\ record'[id].state \in NonTerminal => record[id].state \in NonTerminal
          /\ record[id].state \in Terminal => record'[id] = record[id]

\* The operations on existing records are of that kind.
LEMMA RecordSteps ==
    ASSUME StoreTypeOK, StoreNext
    PROVE  \/ Advances
           \/ CheckpointRecord \/ CheckpointCrash
           \/ \E id \in Ids, lineage \in Lineages : CheckpointReserve(id, lineage)
<1> USE DEF StoreTypeOK, Exists, NonTerminal, Terminal
<1>1. ASSUME NEW swept \in SUBSET {id \in Ids : record[id].expired}, SweepExpired(swept)
      PROVE  Advances
  BY <1>1 DEF SweepExpired, Advances, Records
<1>2. ASSUME NEW id \in Ids, Dispatched(id) \/ Cancel(id) PROVE Advances
  BY <1>2 DEF Dispatched, Cancel, SetState, Advances, Records
<1>3. ASSUME NEW id \in Ids, TtlPasses(id) PROVE Advances
  BY <1>3 DEF TtlPasses, Advances, Records
<1>4. ASSUME NEW id \in Ids, NEW gen \in Generations, NEW r \in Results, NEW claimed \in Results,
             InjectResult(id, gen, r, claimed)
      PROVE  Advances
  BY <1>4 DEF InjectResult, SetState, Advances, Records
<1> QED BY <1>1, <1>2, <1>3, <1>4 DEF StoreNext

\* An operation on existing records keeps the invariant.
LEMMA AdvancesKeeps ==
    ASSUME StoreInv, Advances
    PROVE  StoreInv'
<1> USE DEF StoreInv
<1>1. StoreTypeOK'
  BY DEF Advances, StoreTypeOK
<1>2. /\ LockFree' = LockFree /\ admitting' = admitting /\ ledger' = ledger
      /\ \A id \in Ids : Exists(id)' = Exists(id) /\ record'[id].lineage = record[id].lineage
  BY DEF Advances, LockFree
<1>3. \A lineage : Founded(lineage)' <=> Founded(lineage)
  BY <1>2 DEF Founded
<1>4. PendingHop'
  <2>1. CASE LockFree
    BY <1>2, <2>1 DEF PendingHop
  <2>2. CASE ~LockFree
    <3>1. admitting.id \in Ids
      BY <2>2 DEF StoreTypeOK, LockFree
    <3>2. QED BY <1>2, <1>3, <2>2, <3>1 DEF PendingHop
  <2>3. QED BY <2>1, <2>2
<1>5. KnownLineages'
  BY <1>2, <1>3 DEF KnownLineages
<1>6. LedgerCovers'
  <2>1. \A r \in ParentTasks : Reserved(r)' = Reserved(r)
    BY <1>2 DEF Reserved
  <2>2. QED BY <1>2, <2>1 DEF LedgerCovers
<1>7. PlacesCovered'
  <2> SUFFICES ASSUME NEW p \in ParentTasks
               PROVE  IsFiniteSet(Occupied(p)') /\ Cardinality(Occupied(p)') <= MaxChildren
    BY DEF PlacesCovered
  <2>1. Occupied(p)' \subseteq Occupied(p)
    BY DEF Occupied, Advances
  <2>2. IsFiniteSet(Occupied(p)) /\ Cardinality(Occupied(p)) <= MaxChildren
    BY DEF PlacesCovered
  <2>3. IsFiniteSet(Occupied(p)') /\ Cardinality(Occupied(p)') <= Cardinality(Occupied(p))
    BY <2>1, <2>2, FS_Subset
  <2>4. QED BY <2>2, <2>3, FS_CardinalityType, BudgetAssumption
<1> QED BY <1>1, <1>4, <1>5, <1>6, <1>7

\* The ledger write: the new delegation takes one unit of its root and one
\* place of its parent.
LEMMA ReserveKeeps ==
    ASSUME StoreInv, NEW id \in Ids, NEW lineage \in Lineages, CheckpointReserve(id, lineage)
    PROVE  StoreInv'
<1> USE DEF StoreInv
<1> DEFINE grown == Advance(lineage, id.target)
           root == lineage.root
<1>0. /\ LockFree /\ ~Exists(id) /\ MayAdvance(lineage, id.target) /\ TrustedRoot(lineage, id.parent)
      /\ Cardinality(InFlight(id.parent)) < MaxChildren
      /\ ledger[root] + 1 <= MaxTotal
      /\ ledger' = [ledger EXCEPT ![root] = @ + 1]
      /\ admitting' = [id |-> id, lineage |-> grown] /\ record' = record
  BY DEF CheckpointReserve
<1>1. /\ id.target \in Specialists /\ id.parent \in ParentTasks /\ root \in ParentTasks
      /\ ledger \in [ParentTasks -> Nat]
  BY DEF Ids, Lineages, StoreTypeOK
<1>2. grown \in Lineages /\ grown.root = root /\ grown.visited = Append(lineage.visited, id.target)
  BY <1>0, <1>1, AdvanceType
<1> HIDE DEF grown
<1>3. /\ ~LockFree' /\ admitting'.id = id /\ admitting'.lineage = grown
      /\ \A x \in Ids : Exists(x)' = Exists(x)
  BY <1>0, <1>2, AdmissionIsReal DEF LockFree, Exists
<1>4. StoreTypeOK'
  BY <1>0, <1>1, <1>2 DEF StoreTypeOK
<1>5. \A x : Founded(x)' <=> Founded(x)
  BY <1>0, <1>3 DEF Founded
<1>6. PendingHop'
  <2>0. lineage.visited \in Seq(Specialists) /\ Len(lineage.visited) \in Nat
        /\ Len(lineage.visited) >= 1
    BY VisitsAreSequences, BudgetAssumption DEF Lineages
  <2>1. CASE Depth(lineage) = 0
    <3>1. root = id.parent /\ Len(lineage.visited) = 1
      BY <1>0, <2>0, <2>1 DEF TrustedRoot, Depth
    <3>2. Len(grown.visited) = 2
      BY <1>1, <1>2, <2>0, <3>1, AdvancePrefix
    <3>3. QED BY <1>0, <1>2, <1>3, <3>1, <3>2 DEF PendingHop
  <2>2. CASE Depth(lineage) # 0
    <3>1. Len(lineage.visited) >= 2
      <4> DEFINE n == Len(lineage.visited)
      <4>1. n - 1 # 0
        BY <2>2 DEF Depth
      <4>2. n \in Nat /\ n >= 1
        BY <2>0
      <4> HIDE DEF n
      <4>3. n >= 2
        BY <4>1, <4>2
      <4>4. QED BY <4>3 DEF n
    <3>2. Founded(lineage)
      BY <1>0, <2>2 DEF TrustedRoot, LineagePreviouslyAdmitted, KnownLineages
    <3>3. SubSeq(grown.visited, 1, 2) = SubSeq(lineage.visited, 1, 2)
      BY <1>1, <1>2, <2>0, <3>1, AdvancePrefix
    <3>4. Founded(grown)
      BY <1>2, <3>2, <3>3 DEF Founded
    <3>5. QED BY <1>0, <1>3, <1>5, <3>4 DEF PendingHop
  <2>3. QED BY <2>1, <2>2
<1>7. KnownLineages'
  BY <1>0, <1>3, <1>5 DEF KnownLineages
<1>8. LedgerCovers'
  <2> SUFFICES ASSUME NEW r \in ParentTasks
               PROVE  /\ IsFiniteSet(Reserved(r)') /\ Cardinality(Reserved(r)') <= ledger'[r]
                      /\ ledger'[r] <= MaxTotal
    BY DEF LedgerCovers
  <2>1. /\ IsFiniteSet(Reserved(r)) /\ Cardinality(Reserved(r)) <= ledger[r]
        /\ ledger[r] <= MaxTotal /\ ledger[r] \in Nat /\ Cardinality(Reserved(r)) \in Nat
    BY <1>1, FS_CardinalityType DEF LedgerCovers
  <2>2. CASE r = root
    <3>1. Reserved(r)' = Reserved(r) \cup {id}
      BY <1>0, <1>2, <1>3, <2>2 DEF Reserved
    <3>2. IsFiniteSet(Reserved(r)') /\ Cardinality(Reserved(r)') <= Cardinality(Reserved(r)) + 1
      BY <2>1, <3>1, FS_AddElement, SMTT(20)
    <3>3. ledger'[r] = ledger[r] + 1
      BY <1>0, <1>1, <2>2
    <3>4. Cardinality(Reserved(r)') \in Nat
      BY <3>2, FS_CardinalityType
    <3>5. QED BY <1>0, <2>1, <2>2, <3>2, <3>3, <3>4
  <2>3. CASE r # root
    <3>1. Reserved(r)' = Reserved(r)
      BY <1>0, <1>2, <1>3, <2>3 DEF Reserved
    <3>2. ledger'[r] = ledger[r]
      BY <1>0, <1>1, <2>3
    <3>3. QED BY <2>1, <3>1, <3>2
  <2>4. QED BY <2>2, <2>3
<1>9. PlacesCovered'
  <2> SUFFICES ASSUME NEW p \in ParentTasks
               PROVE  IsFiniteSet(Occupied(p)') /\ Cardinality(Occupied(p)') <= MaxChildren
    BY DEF PlacesCovered
  <2>1. Occupied(p) = InFlight(p)
    BY <1>0, NoIdIsNone DEF Occupied, InFlight, LockFree, NotAdmitting
  <2>2. /\ IsFiniteSet(InFlight(p)) /\ Cardinality(InFlight(p)) <= MaxChildren
        /\ Cardinality(InFlight(p)) \in Nat
    BY <2>1, FS_CardinalityType DEF PlacesCovered
  <2>3. CASE p = id.parent
    <3>1. Occupied(p)' = InFlight(p) \cup {id}
      BY <1>0, <1>3, <2>3 DEF Occupied, InFlight
    <3>2. IsFiniteSet(Occupied(p)') /\ Cardinality(Occupied(p)') <= Cardinality(InFlight(p)) + 1
      <4>1. /\ IsFiniteSet(InFlight(p) \cup {id})
            /\ Cardinality(InFlight(p) \cup {id}) \in
                  {Cardinality(InFlight(p)), Cardinality(InFlight(p)) + 1}
        BY <2>2, FS_AddElement
      <4>2. QED BY <2>2, <3>1, <4>1
    <3>3. Cardinality(Occupied(p)') \in Nat
      BY <3>2, FS_CardinalityType
    <3>4. QED BY <1>0, <2>2, <2>3, <3>2, <3>3, BudgetAssumption
  <2>4. CASE p # id.parent
    <3>1. Occupied(p)' = InFlight(p)
      BY <1>0, <1>3, <2>4 DEF Occupied, InFlight
    <3>2. QED BY <2>2, <3>1
  <2>5. QED BY <2>3, <2>4
<1> QED BY <1>4, <1>6, <1>7, <1>8, <1>9

\* The record write: the admission turns into a record, unit and place are kept.
LEMMA RecordKeeps ==
    ASSUME StoreInv, CheckpointRecord
    PROVE  StoreInv'
<1> USE DEF StoreInv
<1>0. ~LockFree /\ LockFree' /\ ledger' = ledger
  BY DEF CheckpointRecord, LockFree
<1>a. PICK admitted \in Ids, grown \in Lineages : admitted = admitting.id /\ grown = admitting.lineage
  BY <1>0 DEF StoreTypeOK, LockFree
<1>1. /\ record' = [record EXCEPT ![admitted] =
                       [NoRecord EXCEPT !.state = "checkpointed", !.lineage = grown]]
      /\ admitting' = NotAdmitting
  BY <1>a DEF CheckpointRecord
<1>2. /\ [NoRecord EXCEPT !.state = "checkpointed", !.lineage = grown] \in Records
      /\ [NoRecord EXCEPT !.state = "checkpointed", !.lineage = grown].state = "checkpointed"
      /\ [NoRecord EXCEPT !.state = "checkpointed", !.lineage = grown].lineage = grown
  BY <1>0 DEF NoRecord, Records, NonTerminal
<1>3. StoreTypeOK'
  BY <1>0, <1>1, <1>2 DEF StoreTypeOK
<1>4. /\ record'[admitted].state = "checkpointed" /\ record'[admitted].lineage = grown
      /\ \A x \in Ids \ {admitted} : record'[x] = record[x]
      /\ ~Exists(admitted)
  BY <1>0, <1>a, <1>1, <1>2 DEF StoreTypeOK, PendingHop
<1>5. Exists(admitted)' /\ \A x \in Ids \ {admitted} : Exists(x)' = Exists(x)
  BY <1>0, <1>4 DEF Exists
<1>6. \A x : Founded(x) => Founded(x)'
  BY <1>0, <1>4, <1>5 DEF Founded
<1>7. Founded(grown)'
  <2>1. CASE grown.root = admitted.parent /\ Len(grown.visited) = 2
    <3>1. SubSeq(grown.visited, 1, 2) = grown.visited
      <4>1. grown.visited \in Seq(Specialists)
        BY <1>0, VisitsAreSequences DEF Lineages
      <4> DEFINE been == grown.visited
      <4>2. been \in Seq(Specialists) /\ Len(been) = 2
        BY <2>1, <4>1
      <4> HIDE DEF been
      <4>3. /\ SubSeq(been, 1, 2) \in Seq(Specialists) /\ Len(SubSeq(been, 1, 2)) = 2
            /\ \A i \in 1..2 : SubSeq(been, 1, 2)[i] = been[i]
        BY <4>2
      <4>4. SubSeq(been, 1, 2) = been
        BY <4>2, <4>3, SeqEqual
      <4>5. QED BY <4>4 DEF been
    <3>2. grown = [root |-> grown.root, visited |-> grown.visited]
      BY <1>0 DEF Lineages
    <3>3. QED BY <1>0, <1>4, <1>5, <2>1, <3>1, <3>2 DEF Founded
  <2>2. CASE Founded(grown)
    BY <1>6, <2>2
  <2>3. QED BY <1>0, <1>a, <2>1, <2>2 DEF PendingHop
<1>8. PendingHop'
  BY <1>0 DEF PendingHop
<1>9. KnownLineages'
  BY <1>0, <1>4, <1>5, <1>6, <1>7 DEF KnownLineages
<1>10. LedgerCovers'
  <2>1. \A r \in ParentTasks : Reserved(r)' = Reserved(r)
    BY <1>0, <1>a, <1>4, <1>5 DEF Reserved
  <2>2. QED BY <1>0, <2>1 DEF LedgerCovers
<1>11. PlacesCovered'
  <2>1. \A p \in ParentTasks : Occupied(p)' = Occupied(p)
    BY <1>a, <1>1, <1>4, NoIdIsNone DEF Occupied, NonTerminal, NotAdmitting
  <2>2. QED BY <2>1 DEF PlacesCovered
<1> QED BY <1>3, <1>8, <1>9, <1>10, <1>11

\* A death between the two writes loses the admission and keeps its unit spent.
LEMMA CrashKeeps ==
    ASSUME StoreInv, CheckpointCrash
    PROVE  StoreInv'
<1> USE DEF StoreInv
<1>0. /\ ~LockFree /\ LockFree' /\ admitting' = NotAdmitting
      /\ ledger' = ledger /\ record' = record
  BY DEF CheckpointCrash, LockFree
<1>1. StoreTypeOK'
  BY <1>0 DEF StoreTypeOK
<1>2. \A x \in Ids : Exists(x)' = Exists(x)
  BY <1>0 DEF Exists
<1>3. PendingHop' /\ KnownLineages'
  BY <1>0, <1>2 DEF PendingHop, KnownLineages, Founded
<1>4. LedgerCovers'
  <2> SUFFICES ASSUME NEW r \in ParentTasks
               PROVE  /\ IsFiniteSet(Reserved(r)') /\ Cardinality(Reserved(r)') <= ledger[r]
                      /\ ledger[r] <= MaxTotal
    BY <1>0 DEF LedgerCovers
  <2>1. /\ IsFiniteSet(Reserved(r)) /\ Cardinality(Reserved(r)) <= ledger[r]
        /\ ledger[r] <= MaxTotal /\ ledger[r] \in Nat
    BY DEF LedgerCovers, StoreTypeOK
  <2>2. Reserved(r)' \subseteq Reserved(r)
    BY <1>0, <1>2 DEF Reserved
  <2>3. IsFiniteSet(Reserved(r)') /\ Cardinality(Reserved(r)') <= Cardinality(Reserved(r))
    BY <2>1, <2>2, FS_Subset
  <2>4. QED BY <2>1, <2>3, FS_CardinalityType
<1>5. PlacesCovered'
  <2> SUFFICES ASSUME NEW p \in ParentTasks
               PROVE  IsFiniteSet(Occupied(p)') /\ Cardinality(Occupied(p)') <= MaxChildren
    BY DEF PlacesCovered
  <2>1. Occupied(p)' \subseteq Occupied(p)
    BY <1>0, NoIdIsNone DEF Occupied, NotAdmitting
  <2>2. IsFiniteSet(Occupied(p)) /\ Cardinality(Occupied(p)) <= MaxChildren
    BY DEF PlacesCovered
  <2>3. IsFiniteSet(Occupied(p)') /\ Cardinality(Occupied(p)') <= Cardinality(Occupied(p))
    BY <2>1, <2>2, FS_Subset
  <2>4. QED BY <2>2, <2>3, FS_CardinalityType, BudgetAssumption
<1> QED BY <1>1, <1>3, <1>4, <1>5

\* The invariant is inductive.
LEMMA StoreInvInductive ==
    ASSUME StoreInv, [StoreNext]_cvars
    PROVE  StoreInv'
<1>1. CASE UNCHANGED cvars
  <2>1. Advances
    BY <1>1 DEF cvars, Advances, StoreInv, StoreTypeOK, Exists
  <2>2. QED BY <2>1, AdvancesKeeps
<1>2. CASE StoreNext
  BY <1>2, RecordSteps, AdvancesKeeps, ReserveKeeps, RecordKeeps, CrashKeeps DEF StoreInv
<1> QED BY <1>1, <1>2

-----------------------------------------------------------------------------
(* The theorems.                                                            *)

\* Every reachable state of the store satisfies the invariant.
LEMMA StoreInvariant == StoreSpec => []StoreInv
BY StoreInitInv, StoreInvInductive, PTL DEF StoreSpec

\* Records, ledger and admission keep their types; in particular a lineage that
\* advances stays within the depth budget and visits no specialist twice.
THEOREM StoreTypeCorrect == StoreSpec => []StoreTypeOK
<1>1. StoreInv => StoreTypeOK
  BY DEF StoreInv
<1> QED BY <1>1, StoreInvariant, PTL

(* For every budget and any number of siblings, hops and crashes between    *)
(* the two writes of checkpoint(), a root has at most as many delegations   *)
(* as its ledger counts, and at most max_total_delegations.                 *)
THEOREM GlobalCapInvariant == StoreSpec => []GlobalCap
<1>1. StoreInv => GlobalCap
  <2> SUFFICES ASSUME StoreInv, NEW r \in ParentTasks
               PROVE  Cardinality(Admitted(r)) <= ledger[r] /\ ledger[r] <= MaxTotal
    BY DEF GlobalCap
  <2>1. /\ IsFiniteSet(Reserved(r)) /\ Cardinality(Reserved(r)) <= ledger[r]
        /\ ledger[r] <= MaxTotal /\ ledger[r] \in Nat
    BY DEF StoreInv, LedgerCovers, StoreTypeOK
  <2>2. Admitted(r) \subseteq Reserved(r)
    BY DEF Admitted, Reserved
  <2>3. IsFiniteSet(Admitted(r)) /\ Cardinality(Admitted(r)) <= Cardinality(Reserved(r))
    BY <2>1, <2>2, FS_Subset
  <2>4. QED BY <2>1, <2>3, FS_CardinalityType
<1> QED BY <1>1, StoreInvariant, PTL

\* An acting parent never has more children in flight than
\* max_children_per_delegation, the one being admitted counted.
THEOREM ConcurrencyCapInvariant == StoreSpec => []ConcurrencyCap
<1>1. StoreInv => ConcurrencyCap
  BY DEF StoreInv, PlacesCovered, Occupied, ConcurrencyCap
<1> QED BY <1>1, StoreInvariant, PTL

\* Every admitted lineage grew from a delegation its own root task made:
\* _trusted_root_identity cannot be given a root of the caller's choice.
THEOREM RootIsAuthenticInvariant == StoreSpec => []RootIsAuthentic
<1>1. StoreInv => RootIsAuthentic
  BY DEF StoreInv, KnownLineages, Founded, RootIsAuthentic
<1> QED BY <1>1, StoreInvariant, PTL

\* A settled, cancelled or stale record never changes again, whatever results,
\* cancels, sweeps and checkpoints come late or twice.
THEOREM TerminalRecordsAreFinal == StoreSpec => TerminalIsFinal
<1>1. ASSUME StoreInv, [StoreNext]_cvars
      PROVE  [\A id \in Ids : record[id].state \in Terminal => record'[id] = record[id]]_cvars
  <2>1. CASE Advances
    BY <2>1 DEF Advances
  <2>2. CASE CheckpointRecord
    <3>1. admitting.id \in Ids /\ record[admitting.id].state = "absent"
      BY <1>1, <2>2 DEF StoreInv, StoreTypeOK, PendingHop, CheckpointRecord, LockFree, Exists
    <3>2. QED BY <1>1, <2>2, <3>1 DEF CheckpointRecord, Terminal, StoreInv, StoreTypeOK
  <2>3. CASE CheckpointCrash \/ \E id \in Ids, lineage \in Lineages : CheckpointReserve(id, lineage)
    BY <2>3 DEF CheckpointCrash, CheckpointReserve
  <2>4. QED BY <1>1, <2>1, <2>2, <2>3, RecordSteps DEF StoreInv
<1> QED BY <1>1, StoreInvariant, PTL DEF StoreSpec, TerminalIsFinal

-----------------------------------------------------------------------------
(* The store lock. *)

AllLive == \A p \in Procs : pc[p] # "gone"

(* A teardown follows a process that is gone,                               *)
(* and as long as nobody is gone a holder is the published owner.           *)
LockInv ==
    /\ LockTypeOK
    /\ NoOrphanLock
    /\ \A p \in Procs : pc[p] = "teardown" => ~AllLive
    /\ AllLive => \A p \in Procs : pc[p] \in Holding => owner = p

\* LockInv holds initially and every step keeps it.
LEMMA LockInvInductive ==
    /\ LockInit => LockInv
    /\ LockInv /\ [LockNext]_lvars => LockInv'
<1> USE NoProcAssumption DEF LockInv, LockTypeOK, NoOrphanLock, AllLive, Waiting, Holding
<1>1. LockInit => LockInv
  BY DEF LockInit
<1>2. ASSUME LockInv, LockNext PROVE LockInv'
  <2> SUFFICES ASSUME NEW p \in Procs,
                      \/ Enter(p) \/ WaiterStep(p) \/ ReleaseCheck(p)
                      \/ ReleaseTeardown(p) \/ Gone(p)
               PROVE  LockInv'
    BY <1>2 DEF LockNext
  <2>1. CASE Enter(p)           BY <1>2, <2>1 DEF Enter, Goes
  <2>2. CASE PublishLock(p)     BY <1>2, <2>2 DEF PublishLock, Goes
  <2>3. CASE ReadOwner(p)       BY <1>2, <2>3 DEF ReadOwner, RetryOrTimeout, Goes
  <2>4. CASE ProbeOwner(p)      BY <1>2, <2>4 DEF ProbeOwner, Forget, RetryOrTimeout, Goes
  <2>5. CASE Reclaim(p)         BY <1>2, <2>5 DEF Reclaim, Goes
  <2>6. CASE ReleaseCheck(p)    BY <1>2, <2>6 DEF ReleaseCheck, Goes
  <2>7. CASE ReleaseTeardown(p) BY <1>2, <2>7 DEF ReleaseTeardown, Goes
  <2>8. CASE Gone(p)            BY <1>2, <2>8 DEF Gone
  <2>9. QED BY <2>1, <2>2, <2>3, <2>4, <2>5, <2>6, <2>7, <2>8 DEF WaiterStep
<1>3. LockInv /\ UNCHANGED lvars => LockInv'
  BY DEF lvars
<1> QED BY <1>1, <1>2, <1>3

\* The lock, the program counters and the markers read keep their types.
THEOREM LockTypeCorrect == LockSpec => []LockTypeOK
<1>1. LockInv => LockTypeOK
  BY DEF LockInv
<1> QED BY <1>1, LockInvInductive, PTL DEF LockSpec

(* While no process of the store has gone, at most one is inside the lock.  *)
THEOREM MutexWhileAllLiveInvariant == LockSpec => []MutexWhileAllLive
<1>1. LockInv => MutexWhileAllLive
  BY DEF LockInv, MutexWhileAllLive, Mutex, AllLive
<1> QED BY <1>1, LockInvInductive, PTL DEF LockSpec

(* The published lock never names a live process outside its critical       *)
(* section, not even after locks were stolen from live holders.             *)
THEOREM NoOrphanLockInvariant == LockSpec => []NoOrphanLock
<1>1. LockInv => NoOrphanLock
  BY DEF LockInv
<1> QED BY <1>1, LockInvInductive, PTL DEF LockSpec
=============================================================================
