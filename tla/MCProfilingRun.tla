--------------------------- MODULE MCProfilingRun ---------------------------
(* ProfilingRun with every combination of options. *)
EXTENDS ProfilingRun

AllConfigs ==
    { c \in [mode : {"device", "deviceToSimulator", "simulator"}, replayCount : {3},
             l2Round : BOOLEAN, timeout : BOOLEAN, killAdvance : BOOLEAN,
             stubborn : BOOLEAN] :
        /\ c.timeout => c.mode = "simulator"
        /\ c.l2Round => c.mode # "simulator" }
=============================================================================
