---------------------------- MODULE MCThreadPool ----------------------------
(* ThreadPool with a few threads and tasks. *)
EXTENDS ThreadPool
=============================================================================
