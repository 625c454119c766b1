---------------------------- MODULE MCGuestWire ----------------------------
(* GuestWire on a small instance. *)
EXTENDS GuestWire, TLC

CONSTANTS c1, c2

Symmetric == Permutations({c1, c2})
=============================================================================
