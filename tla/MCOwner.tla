------------------------------ MODULE MCOwner ------------------------------
(* Owner on a small instance. *)
EXTENDS Owner

CONSTANTS p1, p2, p3

Mix(a, b, c) == [p \in Proc |-> CASE p = p1 -> a [] p = p2 -> b [] p = p3 -> c]

\* A test whose daemon others dial, and deployments with their users.
Mixes == {Mix("test", "dial", "dial"), Mix("deploy", "inspect", "destroy"), Mix("deploy", "deploy", "destroy")}
=============================================================================
