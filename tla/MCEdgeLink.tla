----------------------------- MODULE MCEdgeLink -----------------------------
(* EdgeLink on small instances, with one tick standing for three seconds:  *)
(* retry delays of 1, 2 and at most 3 ticks, a heartbeat every 5.          *)
EXTENDS EdgeLink
=============================================================================
