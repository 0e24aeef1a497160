----------------------------- MODULE MCAccount ------------------------------
(* An instance of Account for TLC: two calls of any kind over one account at   *)
(* the start and two identifiers; one failed login locks an identifier out.    *)
EXTENDS Account, TLC

Symmetry == Permutations(Call)
=============================================================================
