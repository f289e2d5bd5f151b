---------------------------- MODULE HostAdmission ----------------------------
(***************************************************************************)
(* host_admission.py and the retry loop of board_host_admit: whether the    *)
(* host has room for one more board attempt.  A decision counts the live    *)
(* attempts from their descriptors, takes two telemetry snapshots two       *)
(* seconds apart, and looks at the candidate's bytes before and after.      *)
(* Nothing reserves the room: the descriptor that the next decision counts  *)
(* is written only after the attempt was registered, built and spawned.     *)
(*                                                                         *)
(* A snapshot is whether it could be taken and how much room it shows; the  *)
(* workload policies of the families in use are calibrated, as every class  *)
(* that dispatcher_workload_class yields is.                                *)
(***************************************************************************)
EXTENDS Naturals, FiniteSets

CONSTANTS
    Attempts,
    FamilyOf,     \* attempt -> the family of its lane
    FamilyTarget, \* attempts of one family at a time
    Weather,      \* telemetry a snapshot may show
    Budget,       \* backoffs a dispatcher waits for before it gives up
    MaxKills,     \* bound: supervisors killed before their receipt
    MaxEdits,     \* bound: edits of a candidate packet
    None

\* "fits": the projection, pressure, swap, disk, pids and load are within their limits.
HostAssumption ==
    /\ FamilyTarget \in Nat \ {0} /\ Budget \in Nat
    /\ Weather \subseteq {"fits", "tight", "unreadable"}

VARIABLES
    phase,      \* attempt -> step of its dispatch
    waited,  \* attempt -> backoffs waited
    live,    \* attempt -> the attempts its scan counted
    first,   \* attempt -> its first snapshot
    host,    \* what a snapshot shows now
    desc,    \* attempts with a V2 descriptor
    receipt, \* attempts with a fenced terminal receipt
    proc,    \* attempts whose supervisor runs
    packet,  \* attempt -> version of its packet
    bound,   \* attempt -> the version its preflight named
    kills, edits

hostVars == <<phase, waited, live, first, host, desc, receipt, proc, packet, bound, kills, edits>>

Steps == {"idle", "asking", "sampling", "backoff", "admitted", "running", "over", "refused"}

HostTypeOK ==
    /\ phase \in [Attempts -> Steps]
    /\ waited \in [Attempts -> 0..Budget]
    /\ \A a \in Attempts : live[a] \subseteq Attempts \ {a}
    /\ desc \subseteq Attempts /\ receipt \subseteq desc /\ proc \subseteq Attempts
    /\ host \in Weather

HostInit ==
    /\ phase = [a \in Attempts |-> "idle"]
    /\ waited = [a \in Attempts |-> 0]
    /\ live = [a \in Attempts |-> {}]
    /\ first = [a \in Attempts |-> None]
    /\ host \in Weather
    /\ desc = {} /\ receipt = {} /\ proc = {}
    /\ packet = [a \in Attempts |-> 0]
    /\ bound = [a \in Attempts |-> None]
    /\ kills = 0 /\ edits = 0

Moves(a, from, to) == phase[a] = from /\ phase' = [phase EXCEPT ![a] = to]

-----------------------------------------------------------------------------
(* One decision.                                                            *)

\* The preflight verdict binds the candidate to its bytes.
Ask(a) ==
    /\ Moves(a, "idle", "asking")
    /\ bound' = [bound EXCEPT ![a] = packet[a]]
    /\ UNCHANGED <<waited, live, first, host, desc, receipt, proc, packet, kills, edits>>

\* _binding_changed
BindingChanged(a) == packet[a] # bound[a]

\* discover_live_attempts: descriptors without a terminal receipt; one whose process is gone fails the scan closed.
Open == desc \ receipt

\* Mutant: an attempt whose process is gone is passed over.
ResolvedCorpse == TRUE

Resolved == Open \subseteq proc

OverTarget(a, seen) ==
    \E f \in {FamilyOf[b] : b \in seen \cup {a}} :
        Cardinality({b \in seen \cup {a} : FamilyOf[b] = f}) > FamilyTarget

\* AdmissionDecision.action and the budget of the loop: queue while it lasts, then give up
Retry(a) == IF waited[a] < Budget THEN "backoff" ELSE "refused"

\* admission_waited, the backoffs spent so far
Waits(a) == waited' = [waited EXCEPT ![a] = IF phase'[a] = "backoff" THEN @ + 1 ELSE @]

\* collect_snapshot, and whether it is usable at all (_snapshot_schema_valid)
Snapshot == host
SnapshotValid(s) == s # "unreadable"

\* admit: bytes, descriptors, families, then the first of two snapshots
Scan(a) ==
    /\ phase[a] = "asking"
    /\ phase' = [phase EXCEPT ![a] =
                 IF BindingChanged(a) \/ ~Resolved THEN "refused"
                 ELSE IF OverTarget(a, Open) THEN Retry(a)
                 ELSE "sampling"]
    /\ Waits(a)
    /\ IF phase'[a] = "sampling"
       THEN live' = [live EXCEPT ![a] = Open] /\ first' = [first EXCEPT ![a] = Snapshot]
       ELSE UNCHANGED <<live, first>>
    /\ UNCHANGED <<host, desc, receipt, proc, packet, bound, kills, edits>>

\* _under_admission after the second snapshot, and the last look at the bytes
Decide(a) ==
    /\ phase[a] = "sampling"
    /\ phase' = [phase EXCEPT ![a] =
                 IF ~SnapshotValid(first[a]) \/ Snapshot # "fits" THEN Retry(a)
                 ELSE IF BindingChanged(a) THEN "refused"
                 ELSE "admitted"]
    /\ Waits(a)
    /\ first' = [first EXCEPT ![a] = None]
    /\ UNCHANGED <<live, host, desc, receipt, proc, packet, bound, kills, edits>>

\* The sleep ends and the identical decision is asked for again.
Again(a) ==
    /\ Moves(a, "backoff", "asking")
    /\ UNCHANGED <<waited, live, first, host, desc, receipt, proc, packet, bound, kills, edits>>

-----------------------------------------------------------------------------
(* What is decided about.                                                   *)

\* send-task.sh holds the copy it publishes to the admitted digest; the attempt is then spawned
\* and its descriptor written.
Launch(a) ==
    /\ phase[a] = "admitted"
    /\ IF BindingChanged(a)
       THEN phase' = [phase EXCEPT ![a] = "refused"] /\ UNCHANGED <<desc, proc>>
       ELSE /\ phase' = [phase EXCEPT ![a] = "running"]
            /\ desc' = desc \cup {a} /\ proc' = proc \cup {a}
    /\ UNCHANGED <<waited, live, first, host, receipt, packet, bound, kills, edits>>

\* A supervisor writes its receipt before it exits.
Finish(a) ==
    /\ Moves(a, "running", "over")
    /\ receipt' = receipt \cup {a} /\ proc' = proc \ {a}
    /\ UNCHANGED <<waited, live, first, host, desc, packet, bound, kills, edits>>

Kill(a) ==
    /\ phase[a] = "running" /\ a \in proc /\ kills < MaxKills
    /\ proc' = proc \ {a} /\ kills' = kills + 1
    /\ UNCHANGED <<phase, waited, live, first, host, desc, receipt, packet, bound, edits>>

\* board_process_truth finalizes an attempt whose process is gone.
Reap(a) ==
    /\ phase[a] = "running" /\ a \notin proc
    /\ phase' = [phase EXCEPT ![a] = "over"]
    /\ receipt' = receipt \cup {a}
    /\ UNCHANGED <<waited, live, first, host, desc, proc, packet, bound, kills, edits>>

ChangeWeather ==
    /\ \E w \in Weather : w # host /\ host' = w
    /\ UNCHANGED <<phase, waited, live, first, desc, receipt, proc, packet, bound, kills, edits>>

EditPacket(a) ==
    /\ phase[a] \in {"asking", "sampling", "backoff", "admitted"} /\ edits < MaxEdits
    /\ packet' = [packet EXCEPT ![a] = @ + 1] /\ edits' = edits + 1
    /\ UNCHANGED <<phase, waited, live, first, host, desc, receipt, proc, bound, kills>>

Dispatching(a) == Scan(a) \/ Decide(a) \/ Again(a)

HostNext ==
    \/ \E a \in Attempts : \/ Ask(a) \/ Dispatching(a) \/ Launch(a) \/ Finish(a) \/ Kill(a)
                           \/ Reap(a) \/ EditPacket(a)
    \/ ChangeWeather

HostSpec == HostInit /\ [][HostNext]_hostVars

\* A dispatcher's loop keeps running; the host owes it nothing.
HostFairSpec == HostSpec /\ \A a \in Attempts : WF_hostVars(Dispatching(a))

-----------------------------------------------------------------------------
(* Properties.                                                              *)

\* A family runs past its target only when two of its attempts were admitted around each other,
\* neither's scan having seen the other (discover_live_attempts, _under_admission clause 1).
OverTargetIsARace ==
    \A f \in {FamilyOf[a] : a \in Attempts} :
        LET running == {a \in Open : FamilyOf[a] = f} IN
        Cardinality(running) > FamilyTarget =>
            \E a, b \in running : a # b /\ a \notin live[b] /\ b \notin live[a]

\* An attempt runs the bytes its dispatcher's preflight allowed (_binding_changed, admit).
RunsBoundBytes == \A a \in Attempts : phase[a] = "running" => packet[a] = bound[a]

\* No decision to admit is made over an attempt whose outcome is unknown at its scan: whatever it
\* counted as live was running then or has ended since (discover_live_attempts).
CountsOnlyTheLiving ==
    \A a \in Attempts : phase[a] = "asking" /\ phase'[a] = "sampling" => live'[a] \subseteq proc

\* A dispatcher that asks is admitted or refused within its budget, whatever the host does
\* (SQUAD_ADMISSION_MAX_WAIT_SECONDS).
Asking(a) == phase[a] = "asking"
Answered(a) == phase[a] \in {"admitted", "running", "over", "refused"}
=============================================================================
