---------------------------- MODULE MCDocStream ----------------------------
(* DocStream on small instances. *)
EXTENDS DocStream
=============================================================================
