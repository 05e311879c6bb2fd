--------------------------- MODULE MC_ExecutorLayers ---------------------------
(***************************************************************************)
(* Instances of ExecutorLayers for TLC.                                    *)
(***************************************************************************)
EXTENDS ExecutorLayers, TLC

LayersSymmetry == Permutations(Writers) \cup Permutations(Processes)
=============================================================================
