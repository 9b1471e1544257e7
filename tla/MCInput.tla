------------------------------ MODULE MCInput ------------------------------
(* Small instances of Input for TLC. *)
EXTENDS Input
==============================================================================
