---------------------------- MODULE MCAlertStore ----------------------------
(* AlertStore on small instances.                                          *)
EXTENDS AlertStore
=============================================================================
