--------------------------- MODULE MCCameraStream ---------------------------
(* CameraStream on small instances.                                        *)
EXTENDS CameraStream
=============================================================================
