------------------------------ MODULE MCNodes ------------------------------
(* Nodes on a small instance. *)
EXTENDS Nodes

CONSTANTS n1, n2

\* Two nodes, one of them a virtual machine with a disk.
OneDisk == {[nodes |-> {n1, n2}, disk |-> {n1}, boot |-> {}]}

\* Everything but the writes of the topology file.
FileWritesSucceed == FailureKinds \ {"write", "restore"}
ValidationFails == {"validate"}

\* Not between the write of a topology and the save that goes with it.
OutsideWrites == Points \ {"truncated", "draft"}
NoPoints == {}
=============================================================================
