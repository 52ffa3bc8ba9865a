-------------------------- MODULE MCInjectionEvent --------------------------
(* InjectionEvent with short packets: one per way a callback deals with it. *)
EXTENDS InjectionEvent

CONSTANTS c1, c2

config == [type |-> "CONFIG", len |-> 0, sound |-> TRUE]
badDbi == [type |-> "DBI_DATA", len |-> 1, sound |-> FALSE]
shortDbi == [type |-> "DBI_DATA", len |-> 1, sound |-> TRUE]

Mixed == {config, shortDbi, badDbi}
=============================================================================
