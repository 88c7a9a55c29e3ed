--------------------------- MODULE MCDapoTrainer ---------------------------
(***************************************************************************)
(* Instances of the synchronous trainer for TLC.  An epoch of DataLen = 3  *)
(* batches and two epochs let a run end in either epoch and resume from a  *)
(* checkpoint in the middle or at the end of one; MaxCrash = 2 lets a      *)
(* resumed run die again.  MaxStep is the last step such a job can be at.  *)
(***************************************************************************)
EXTENDS DapoTrainer
=============================================================================
