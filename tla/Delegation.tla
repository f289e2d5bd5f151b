----------------------------- MODULE Delegation -----------------------------
(***************************************************************************)
(* The delegation checkpoint store (scripts/python/coordination.py) with    *)
(* the lineage caps of delegation_lineage.py.  Every method runs under the  *)
(* store lock (StoreLock.tla), taken here as exclusive.  checkpoint() makes *)
(* two durable writes, the root ledger and then the record, and the process *)
(* may die between them.                                                    *)
(*                                                                         *)
(* The lineage is caller data: any well-formed one may be presented.  The   *)
(* budget is the same in every call.                                        *)
(***************************************************************************)
EXTENDS Naturals, Sequences, FiniteSets

CONSTANTS
    ParentTasks,  \* acting parent task ids
    Specialists,  \* specialists that delegate and are delegated to
    Generations,  \* generations of a parent attempt
    Results,      \* child results
    MaxDepth,     \* LineageBudget.max_depth
    MaxChildren,  \* LineageBudget.max_children_per_delegation
    MaxTotal      \* LineageBudget.max_total_delegations

ASSUME BudgetAssumption == MaxDepth \in Nat /\ MaxChildren \in Nat /\ MaxTotal \in Nat
ASSUME ParentTasksAssumption == "none" \notin ParentTasks \* the parent of no delegation

\* The delegation id: a new generation of the same request is a new delegation.
Ids == [parent: ParentTasks, generation: Generations, target: Specialists]

NonTerminal == {"checkpointed", "dispatched"}
Terminal == {"settled", "cancelled", "stale"}

VARIABLES
    record,   \* the checkpoint record of each delegation id
    ledger,   \* delegations admitted under each lineage root
    admitting \* the checkpoint() that has written the ledger but not its record

cvars == <<record, ledger, admitting>>

\* chain_depth and total_delegations follow from the specialists visited
Visits == {v \in UNION {[1..n -> Specialists] : n \in 1..(MaxDepth + 1)} :
              \A i, j \in DOMAIN v : v[i] = v[j] => i = j}
Lineages == [root: ParentTasks, visited: Visits]
Depth(lineage) == Len(lineage.visited) - 1
Visited(lineage) == {lineage.visited[i] : i \in DOMAIN lineage.visited}

NoLineage == [root |-> "none", visited |-> <<>>]
NoRecord == [state |-> "absent", lineage |-> NoLineage, expired |-> FALSE, result |-> "none"]
NoId == [parent |-> "none", generation |-> 0, target |-> "none"]
NotAdmitting == [id |-> NoId, lineage |-> NoLineage]

Records == [state: {"absent"} \cup NonTerminal \cup Terminal,
            lineage: Lineages \cup {NoLineage},
            expired: BOOLEAN,             \* the clock is past expires_at_epoch
            result: Results \cup {"none"}]

StoreTypeOK ==
    /\ record \in [Ids -> Records]
    /\ ledger \in [ParentTasks -> Nat]
    /\ admitting \in [id: Ids, lineage: Lineages] \cup {NotAdmitting}

StoreInit ==
    /\ record = [id \in Ids |-> NoRecord]
    /\ ledger = [r \in ParentTasks |-> 0]
    /\ admitting = NotAdmitting

-----------------------------------------------------------------------------

LockFree == admitting = NotAdmitting

Exists(id) == record[id].state # "absent"

InFlight(parent) == {id \in Ids : id.parent = parent /\ record[id].state \in NonTerminal}

LineagePreviouslyAdmitted(lineage) ==
    \E id \in Ids : Exists(id) /\ record[id].lineage = lineage

(* A root lineage must name the acting parent; any other must be one this   *)
(* store advanced and persisted itself.                                     *)
TrustedRootAsClaimed(lineage, parent) ==
    Depth(lineage) = 0 \/ LineagePreviouslyAdmitted(lineage)
TrustedRoot(lineage, parent) ==
    IF Depth(lineage) = 0 THEN lineage.root = parent ELSE LineagePreviouslyAdmitted(lineage)

MayAdvance(lineage, target) ==
    /\ Depth(lineage) < MaxDepth
    /\ target \notin Visited(lineage)
    /\ Depth(lineage) < MaxTotal

Advance(lineage, target) == [lineage EXCEPT !.visited = Append(@, target)]

(* Reserve: the checks, then the ledger write.  An id that exists is        *)
(* returned as it is.                                                       *)
CheckpointReserveUncounted(id, lineage) ==
    /\ LockFree /\ ~Exists(id)
    /\ TrustedRoot(lineage, id.parent)
    /\ MayAdvance(lineage, id.target)
    /\ ledger[lineage.root] + 1 <= MaxTotal
    /\ ledger' = [ledger EXCEPT ![lineage.root] = @ + 1]
    /\ admitting' = [id |-> id, lineage |-> Advance(lineage, id.target)]
    /\ UNCHANGED record
CheckpointReserve(id, lineage) ==
    /\ LockFree /\ ~Exists(id)
    /\ Cardinality(InFlight(id.parent)) < MaxChildren
    /\ TrustedRoot(lineage, id.parent)
    /\ MayAdvance(lineage, id.target)
    /\ ledger[lineage.root] + 1 <= MaxTotal
    /\ ledger' = [ledger EXCEPT ![lineage.root] = @ + 1]
    /\ admitting' = [id |-> id, lineage |-> Advance(lineage, id.target)]
    /\ UNCHANGED record

CheckpointRecord ==
    /\ ~LockFree
    /\ record' = [record EXCEPT ![admitting.id] =
                     [NoRecord EXCEPT !.state = "checkpointed", !.lineage = admitting.lineage]]
    /\ admitting' = NotAdmitting
    /\ UNCHANGED ledger

\* The process dies between the two writes; the lock is reclaimed.
RefundOnFailedWrite == \* the record may exist although its write raised
    /\ ~LockFree
    /\ admitting' = NotAdmitting
    /\ record' = [record EXCEPT ![admitting.id] =
                     [NoRecord EXCEPT !.state = "checkpointed", !.lineage = admitting.lineage]]
    /\ ledger' = [ledger EXCEPT ![admitting.lineage.root] = @ - 1]
CheckpointCrash ==
    /\ ~LockFree
    /\ admitting' = NotAdmitting
    /\ UNCHANGED <<record, ledger>>

SetState(id, state) == record' = [record EXCEPT ![id].state = state]

\* dispatched() does not look at the clock
Dispatched(id) ==
    /\ LockFree /\ record[id].state = "checkpointed"
    /\ SetState(id, "dispatched")
    /\ UNCHANGED <<ledger, admitting>>

(* The result's generation is the record's, its claimed hash is its hash,   *)
(* and the child was dispatched; a late result marks the record stale.      *)
InjectResultLate(id, generation, result, claimed) ==
    /\ LockFree /\ id.generation = generation /\ record[id].state \in {"dispatched", "stale"}
    /\ claimed = result
    /\ record' = [record EXCEPT ![id].state = "settled", ![id].result = result]
    /\ UNCHANGED <<ledger, admitting>>
InjectResult(id, generation, result, claimed) ==
    /\ LockFree /\ id.generation = generation /\ record[id].state = "dispatched"
    /\ IF record[id].expired THEN SetState(id, "stale")
       ELSE /\ claimed = result
            /\ record' = [record EXCEPT ![id].state = "settled", ![id].result = result]
    /\ UNCHANGED <<ledger, admitting>>

\* Mutant: the state is written with a name the readers do not know.
CancelMisspelt(id) ==
    /\ LockFree /\ record[id].state \in NonTerminal
    /\ SetState(id, "canceled")
    /\ UNCHANGED <<ledger, admitting>>
Cancel(id) ==
    /\ LockFree /\ record[id].state \in NonTerminal
    /\ SetState(id, "cancelled")
    /\ UNCHANGED <<ledger, admitting>>

\* All expired records in one sweep under the lock; a crash leaves some of them.
SweepExpired(swept) ==
    /\ LockFree /\ swept # {}
    /\ \A id \in swept : record[id].state \in NonTerminal /\ record[id].expired
    /\ record' = [id \in Ids |-> IF id \in swept THEN [record[id] EXCEPT !.state = "stale"]
                                 ELSE record[id]]
    /\ UNCHANGED <<ledger, admitting>>

TtlPasses(id) ==
    /\ record[id].state \in NonTerminal /\ ~record[id].expired
    /\ record' = [record EXCEPT ![id].expired = TRUE]
    /\ UNCHANGED <<ledger, admitting>>

StoreNext ==
    \/ \E id \in Ids, lineage \in Lineages : CheckpointReserve(id, lineage)
    \/ CheckpointRecord \/ CheckpointCrash
    \/ \E swept \in SUBSET {id \in Ids : record[id].expired} : SweepExpired(swept)
    \/ \E id \in Ids : Dispatched(id) \/ Cancel(id) \/ TtlPasses(id)
    \/ \E id \in Ids, g \in Generations, r, claimed \in Results : InjectResult(id, g, r, claimed)

StoreSpec == StoreInit /\ [][StoreNext]_cvars

-----------------------------------------------------------------------------
(* Properties.                                                              *)

Admitted(root) == {id \in Ids : Exists(id) /\ record[id].lineage.root = root}

(* The global cap: over all siblings, hops and crashes, no root ever has    *)
(* more admitted delegations than its ledger counts, and the ledger never   *)
(* passes the cap.                                                          *)
GlobalCap ==
    \A r \in ParentTasks :
        /\ Cardinality(Admitted(r)) <= ledger[r]
        /\ ledger[r] <= MaxTotal

(* Whatever expires, is cancelled or crashes, an acting parent never has    *)
(* more children in flight than its budget, the one being admitted counted. *)
ConcurrencyCap ==
    \A p \in ParentTasks :
        Cardinality({id \in Ids : id.parent = p /\
                        (record[id].state \in NonTerminal \/ id = admitting.id)}) <= MaxChildren

(* A lineage root cannot be rotated: every admitted lineage grew, hop by    *)
(* hop, from a delegation its own root task made.                           *)
RootIsAuthentic ==
    \A id \in Ids : Exists(id) =>
        \E first \in Ids :
            /\ Exists(first)
            /\ first.parent = record[id].lineage.root
            /\ record[first].lineage = [root |-> record[id].lineage.root,
                                        visited |-> SubSeq(record[id].lineage.visited, 1, 2)]

(* A terminal record is final: no late, duplicate or conflicting result, no *)
(* cancel, sweep or replayed checkpoint changes it.                         *)
TerminalIsFinal ==
    [][\A id \in Ids : record[id].state \in Terminal => record'[id] = record[id]]_cvars
=============================================================================
