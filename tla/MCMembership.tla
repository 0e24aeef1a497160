---------------------------- MODULE MCMembership ----------------------------
(* Instances of Membership for TLC. *)
EXTENDS Membership, TLC

CONSTANTS u1, u2, u3

\* The reader reads messages of two members.
BothSend == [s \in 1..MaxSeq |-> IF s = 1 THEN u1 ELSE u2]

\* Calls are interchangeable.
CallSymmetry == Permutations(Call)
=============================================================================
