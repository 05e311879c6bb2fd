---------------------------- MODULE MC_ReviewIntake ----------------------------
(***************************************************************************)
(* Instances of ReviewIntake for TLC.                                      *)
(***************************************************************************)
EXTENDS MC_SignedImport, ReviewIntake

\* The packages of MC_SignedImport, and what the runs 11 and 12 may sign.
IntakePackages ==
    MixedPackages \cup
    {Package("review", c, 1, observed, 1) : c \in Collectors, observed \in 1 .. MaxChanges + 3}
=============================================================================
