----------------------------- MODULE MCXServer -----------------------------
(* The server with small tables, for TLC. *)
EXTENDS XServer
=============================================================================
