--------------------------- MODULE MCCombinedReward ---------------------------
(***************************************************************************)
(* Rewards for TLC: lists with and without the gates, one that repeats a   *)
(* name, and weights that leave a reward out.                              *)
(***************************************************************************)
EXTENDS CombinedReward

MCLists == {<<"accuracy", "format", "spatial_xy">>, <<"accuracy", "format", "spatial_z">>,
            <<"spatial_xy", "accuracy">>, <<"format">>,
            <<"format", "spatial_z", "spatial_xy", "accuracy">>,
            <<"spatial_xy", "format", "spatial_z">>,
            <<"format", "accuracy", "spatial_xy", "accuracy">>}
MCWeightTables == {[k \in {"accuracy", "spatial_xy"} |-> 1],
                   [k \in {"accuracy", "spatial_xy", "spatial_z"} |->
                      IF k = "accuracy" THEN 2 ELSE 1],
                   [k \in {"spatial_z"} |-> 3]}
=============================================================================
