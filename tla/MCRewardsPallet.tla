--------------------------- MODULE MCRewardsPallet ---------------------------
(* Instances of RewardsPallet for TLC: amounts below, at and above the     *)
(* minimum balance; curves with a change at genesis, one that is due in    *)
(* the next block and one that comes later.                                *)
EXTENDS RewardsPallet
=============================================================================
