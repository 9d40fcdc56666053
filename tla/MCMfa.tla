------------------------------- MODULE MCMfa -------------------------------
(* The confirmations are only compared with each other.                     *)
EXTENDS Mfa, TLC

MCSymmetry == Permutations(Confirms)
=============================================================================
