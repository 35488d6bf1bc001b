--------------------------- MODULE MCTermination ---------------------------
(* An instance of Termination for TLC: a grace period of a few probes.     *)
EXTENDS Termination

MCGrace == 3
=============================================================================
