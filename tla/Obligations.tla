---------------------------- MODULE Obligations ----------------------------
(***************************************************************************)
(* What durable notification promises, whoever implements it: an event that *)
(* was raised is owed to its recipient until the recipient acknowledges it, *)
(* and an acknowledged event is never owed again.                           *)
(***************************************************************************)
CONSTANT Events
VARIABLE owed  \* for each event "none", "owed" or "consumed"

ObInit == owed = [e \in Events |-> "none"]

\* One transaction of a producer may raise several events.
Raise ==
    \E E \in SUBSET Events :
        /\ \A e \in E : owed[e] = "none"
        /\ owed' = [e \in Events |-> IF e \in E THEN "owed" ELSE owed[e]]

\* The recipient acknowledges one or more events by their exact ids.
Consume ==
    \E E \in SUBSET Events :
        /\ \A e \in E : owed[e] = "owed"
        /\ owed' = [e \in Events |-> IF e \in E THEN "consumed" ELSE owed[e]]

ObSpec == ObInit /\ [][Raise \/ Consume]_owed
=============================================================================
