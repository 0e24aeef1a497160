--------------------------- MODULE MCMessageSend ---------------------------
(* Instances of MessageSend for TLC. *)
EXTENDS MessageSend

CONSTANTS c1, k1, k2

\* Both keys belong to one conversation: requests contend for its counter, its
\* rows and its sequences.
OneConversation == [k \in Key |-> c1]
=============================================================================
