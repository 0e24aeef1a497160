----------------------------- MODULE MCGateway ------------------------------
(* An instance of Gateway for TLC: one socket, which subscribes and resumes    *)
(* (or does less well), two events, for the conversation's subscribers or for  *)
(* the user's own sockets, a channel that holds one frame and a ring that      *)
(* holds one event.                                                            *)
EXTENDS Gateway

MCAudience == {[conv |-> v, users |-> {}] : v \in Conv} \cup {[conv |-> NoConv, users |-> User]}
=============================================================================
