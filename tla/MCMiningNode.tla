---------------------------- MODULE MCMiningNode ----------------------------
(* Instances of MiningNode for TLC.                                        *)
EXTENDS MiningNode, TLC

NodeSymmetry == Permutations(Nodes)
=============================================================================
