----------------------------- MODULE MCLockout -----------------------------
(* Instances of Lockout for TLC. Attempts, addresses and usernames are only *)
(* compared, so each set may be permuted.                                   *)
EXTENDS Lockout, TLC

AttemptSymmetry == Permutations(Attempts) \cup Permutations(Ips) \cup Permutations(Users)
=============================================================================
