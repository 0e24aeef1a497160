----------------------------- MODULE MCPresence -----------------------------
(* An instance of Presence for TLC: two gateway instances and two sockets of   *)
(* one user, which may be on one instance or on both.                          *)
EXTENDS Presence
=============================================================================
