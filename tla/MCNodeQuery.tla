----------------------------- MODULE MCNodeQuery -----------------------------
(* Instances of NodeQuery for TLC. *)
EXTENDS NodeQuery
=============================================================================
