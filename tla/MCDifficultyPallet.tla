-------------------------- MODULE MCDifficultyPallet --------------------------
(* Instances of DifficultyPallet for TLC: the shortest window for which a  *)
(* chain exactly on target is inside the dead band, as with 60 blocks.     *)
EXTENDS DifficultyPallet

ASSUME OnTargetIsInDeadBand ==
    ~MayExceed(TargetBlockTime * W, TargetBlockTime * (W - 1))
=============================================================================
