---------------------------- MODULE MCRingSearch ----------------------------
(* The node sits in the middle of the hash range, so that peers are added  *)
(* before it, after it and at both ends.                                   *)
EXTENDS RingSearch

MCIds == 1..5
=============================================================================
