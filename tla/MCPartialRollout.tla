-------------------------- MODULE MCPartialRollout --------------------------
(* A tool agent and a single-turn agent of one worker, on two servers.       *)
EXTENDS PartialRollout, TLC
=============================================================================
