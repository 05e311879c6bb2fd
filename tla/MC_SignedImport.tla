---------------------------- MODULE MC_SignedImport ----------------------------
(***************************************************************************)
(* Instances of SignedImport for TLC.                                      *)
(***************************************************************************)
EXTENDS SignedImport, TLC

Package(kind, id, pr, observed, body) ==
    [kind |-> kind, id |-> id, pr |-> pr, observed |-> observed, body |-> body]

\* Three snapshots of one pull request, two bodies under one id, one snapshot
\* of another pull request, and a gate receipt that shares an id.
MixedPackages ==
    {Package("review", 1, 1, 1, 1), Package("review", 1, 1, 1, 2),
     Package("review", 2, 1, 2, 1), Package("review", 3, 1, 0, 1),
     Package("review", 4, 2, 2, 1), Package("gate", 1, 0, 0, 1)}

\* Two bodies under one id, and one package of its own.
RivalPackages ==
    {Package("gate", 1, 0, 0, 1), Package("gate", 1, 0, 0, 2), Package("gate", 2, 0, 0, 1)}

ImporterSymmetry == Permutations(Importers)
=============================================================================
