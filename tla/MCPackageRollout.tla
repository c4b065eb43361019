-------------------------- MODULE MCPackageRollout --------------------------
(* Instances of PackageRollout for TLC.                                     *)
EXTENDS PackageRollout
CONSTANTS pkg1, pkg2, g1, g2
=============================================================================
