---------------------------- MODULE RollbackDuty ----------------------------
(***************************************************************************)
(* What fault injection promises, without saying how: an endpoint whose    *)
(* network behaviour has been tampered with is one for which a rollback is *)
(* on record, and a rollback is struck off once the endpoint is back to    *)
(* what it was.                                                            *)
(***************************************************************************)
CONSTANT Nodes

VARIABLES duty,      \* endpoints with a rollback on record
          deviated   \* endpoints that do not behave as they did

Init == duty = {} /\ deviated = {}

\* Put rollbacks on record, before anything is touched.
Incur == duty \subseteq duty' /\ duty' \subseteq Nodes /\ UNCHANGED deviated

\* Tamper with, or repair, endpoints that have a rollback on record.
Tamper ==
    /\ deviated' \subseteq Nodes
    /\ (deviated' \ deviated) \union (deviated \ deviated') \subseteq duty
    /\ UNCHANGED duty

\* Strike rollbacks off for endpoints that are as they were.
Discharge == duty' \subseteq duty /\ (duty \ duty') \intersect deviated = {} /\ UNCHANGED deviated

Next == Incur \/ Tamper \/ Discharge

Spec == Init /\ [][Next]_<<duty, deviated>>
=============================================================================
