----------------------------- MODULE MCCatchup -----------------------------
(* Instances of Catchup for TLC; the constants are given in the .cfg files. *)
EXTENDS Catchup
=============================================================================
