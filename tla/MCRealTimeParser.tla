-------------------------- MODULE MCRealTimeParser --------------------------
(* Instances of RealTimeParser for TLC; the values are in the .cfg files.  *)
EXTENDS RealTimeParser
=============================================================================
