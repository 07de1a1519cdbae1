---------------------------- MODULE MCMediaSync ----------------------------
(* MediaSync on small instances. *)
EXTENDS MediaSync
=============================================================================
