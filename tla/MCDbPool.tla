------------------------------ MODULE MCDbPool ------------------------------
(* The database client with few threads, for TLC. *)
EXTENDS DbPool
=============================================================================
