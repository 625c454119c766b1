--------------------------- MODULE MCAttachments ---------------------------
(* Attachments on a small instance: a switch between two machines. *)
EXTENDS Attachments

CONSTANTS switch, vm1, vm2, eth1, eth2

OnSwitch == [p \in Port |-> switch]
Cabling == [p \in Port |-> IF p = eth1 THEN vm1 ELSE vm2]
=============================================================================
