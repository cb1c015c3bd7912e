--------------------------- MODULE MCEdgePipeline ---------------------------
(* EdgePipeline on small instances.                                        *)
EXTENDS EdgePipeline
=============================================================================
