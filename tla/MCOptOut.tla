------------------------------ MODULE MCOptOut ------------------------------
(* A model-checking instance of OptOut: values for its constants. *)
EXTENDS OptOut

CONSTANTS serve, stdio, ann

MCFrom == [m \in Message |-> ann]
=============================================================================
