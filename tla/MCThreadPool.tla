---------------------------- MODULE MCThreadPool ----------------------------
(* The pool with few threads and tasks, for TLC. *)
EXTENDS ThreadPool
=============================================================================
