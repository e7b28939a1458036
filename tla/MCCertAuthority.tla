-------------------------- MODULE MCCertAuthority --------------------------
(***************************************************************************)
(* Instances of CertAuthority for TLC.                                     *)
(***************************************************************************)
EXTENDS CertAuthority, TLC

MCSymmetry == Permutations(Launches)
=============================================================================
