------------------------- MODULE MC_SessionController -------------------------
(***************************************************************************)
(* Instances of SessionController for TLC.                                 *)
(***************************************************************************)
EXTENDS SessionProperties, SessionRequests, TLC

ClientSymmetry == Permutations(Clients)
=============================================================================
