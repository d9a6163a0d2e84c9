---------------------------- MODULE MCScheduler ----------------------------
(* Model-checking instances of Scheduler. *)
EXTENDS Scheduler

CONSTANTS serve, stdio, mail, crm
=============================================================================
