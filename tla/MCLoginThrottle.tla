-------------------------- MODULE MCLoginThrottle --------------------------
(* Small instances of LoginThrottle; attempts and addresses are             *)
(* interchangeable.                                                         *)
EXTENDS LoginThrottle, TLC

Symmetry == Permutations(Attempts) \cup Permutations(Ips)
=============================================================================
