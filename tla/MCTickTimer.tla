---------------------------- MODULE MCTickTimer ----------------------------
(* A period of a few clocks: every phase of the counter meets every step.  *)
EXTENDS TickTimer
=============================================================================
