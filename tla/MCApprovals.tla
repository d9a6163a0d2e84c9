---------------------------- MODULE MCApprovals ----------------------------
(* Model-checking instances of Approvals. *)
EXTENDS Approvals

CONSTANTS send, move, meet, left, right
=============================================================================
