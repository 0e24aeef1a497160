------------------------------- MODULE MCChat -------------------------------
(* An instance of Chat for TLC: three calls of any kind, a sender and an admin, *)
(* two emoji of which a message may carry one, pages of one message.            *)
EXTENDS Chat, TLC

AnyCall == Permutations(Call)
=============================================================================
