------------------------------ MODULE MCFaults ------------------------------
(* Faults on a small instance. *)
EXTENDS Faults

CONSTANTS n1, f1, f2

AllFailures == {"save", "net", "exec"}
=============================================================================
