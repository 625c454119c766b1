----------------------------- MODULE MCRollout -----------------------------
(* Two controllers and a worker, and two components. *)
EXTENDS Rollout

MCControllers == {1, 2}
=============================================================================
