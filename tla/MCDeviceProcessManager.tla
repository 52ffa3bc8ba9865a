---------------------- MODULE MCDeviceProcessManager ----------------------
(* DeviceProcessManager with two processes that share devices. *)
EXTENDS DeviceProcessManager, TLC

CONSTANTS c1, c2, d1, d2, add, mul

Symmetry == Permutations(Clients) \cup Permutations(Devices)
===========================================================================
