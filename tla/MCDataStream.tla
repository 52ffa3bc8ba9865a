---------------------------- MODULE MCDataStream ----------------------------
(* DataStream with a few items. *)
EXTENDS DataStream
=============================================================================
