------------------------------ MODULE MCWorkers ------------------------------
(* Workers on small instances, with one task.  MCWorkersOne: one server,   *)
(* two tokens.  MCWorkersTwo: two servers with clocks that differ by a     *)
(* tick.  MCWorkersRivals: two servers, the shortest retry delay of        *)
(* DefaultRetryDelayFunc (a tick of 15 s, leases and grace of two).        *)
EXTENDS Workers

\* The readings of the clocks.
MCTime == (-Delay)..(MaxNow + Spread + RetryDelay)

NoSkew  == [s \in Server |-> 0]
\* The clock of the first server is the fast one.
OneFast == [s \in Server |-> IF s = 1 THEN Spread ELSE 0]
==============================================================================
