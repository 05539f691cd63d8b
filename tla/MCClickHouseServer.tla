-------------------------- MODULE MCClickHouseServer --------------------------
(* Instances of ClickHouseServer for TLC. *)
EXTENDS ClickHouseServer
=============================================================================
