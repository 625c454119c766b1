---------------------------- MODULE MCGuestExec ----------------------------
(* GuestExec on small instances. *)
EXTENDS GuestExec

CONSTANTS c1, c2, p1, p2, p3

ExecCuts == Cmds \X {"exec"}
FirstCuts == {c1} \X {"exec", "status", "cleanup"}
AllCuts == Cmds \X {"exec", "status", "cleanup"}

Symmetric == Permutations({c1, c2}) \union Permutations({p1, p2, p3})
=============================================================================
