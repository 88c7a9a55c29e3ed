---------------------------- MODULE MCFullyAsync ----------------------------
(***************************************************************************)
(* Instances of the asynchronous job for TLC.  The configurations differ   *)
(* in the staleness threshold (StaleNum / StaleDen), the trigger step,     *)
(* partial rollout and the number of samples Total, which bounds every     *)
(* run; each is long enough for at least two synchronizations while        *)
(* samples are in generation.                                              *)
(***************************************************************************)
EXTENDS FullyAsync
=============================================================================
