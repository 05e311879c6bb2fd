--------------------------- MODULE MC_StateCommands ---------------------------
(***************************************************************************)
(* Instances of StateCommands for TLC.                                     *)
(***************************************************************************)
EXTENDS StateCommands

\* Sessions of one title share the artifact file.
OneTitle == [s \in Sessions |-> "title"]

StateSymmetry ==
    Permutations(Processes) \cup Permutations(Sessions) \cup Permutations(Commits)
=============================================================================
