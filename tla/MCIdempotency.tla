--------------------------- MODULE MCIdempotency ----------------------------
(* An instance of Idempotency for TLC: three requests of two users with one   *)
(* value of the key, for a group or for their direct conversation.            *)
EXTENDS Idempotency, TLC

Symmetry == Permutations(Request) \cup Permutations(User)
=============================================================================
