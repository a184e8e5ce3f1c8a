--------------------------- MODULE MCRequestQueue ---------------------------
(* Instances of RequestQueue for TLC.  The runs check liveness, for which  *)
(* a symmetry of the requests would not be sound.                          *)
EXTENDS RequestQueue
=============================================================================
