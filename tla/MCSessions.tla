----------------------------- MODULE MCSessions -----------------------------
(* Two devices, one of them new to the account. *)
EXTENDS Sessions, TLC

CallSymmetry == Permutations(Call)
=============================================================================
