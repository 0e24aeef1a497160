----------------------------- MODULE MessageLog -----------------------------
(***************************************************************************)
(* What SendMessage promises its callers (chat/application/send.go:19-26): *)
(* a message is recorded at most once per (sender_id, client_msg_id),      *)
(* under a sequence no other message of the conversation has, and a call   *)
(* that succeeds names the recorded message, however often the client      *)
(* retried and whichever call recorded it.  A call may also fail, and then *)
(* nothing is said about whether its message was recorded.                 *)
(***************************************************************************)
EXTENDS Naturals

CONSTANTS Conv, Key, ConvOf, Req

VARIABLES
    log,      \* the recorded messages
    wants,    \* the key each call carries
    outcome,  \* what the call has been told
    got       \* the sequence it has been told

logVars == <<log, wants, outcome, got>>

LogInit ==
    /\ log = {}
    /\ wants \in [Req -> Key]
    /\ outcome = [r \in Req |-> "none"]
    /\ got = [r \in Req |-> 0]

Recorded(k) == \E m \in log : m.key = k
Used(c, s) == \E m \in log : ConvOf[m.key] = c /\ m.seq = s

Record(r) ==
    /\ outcome[r] = "none"
    /\ ~Recorded(wants[r])
    /\ \E m \in log' :
          /\ log' = log \cup {m}
          /\ m.key = wants[r]
          /\ ~Used(ConvOf[m.key], m.seq)
    /\ UNCHANGED <<wants, outcome, got>>

Acknowledge(r) ==
    /\ outcome[r] = "none"
    /\ \E m \in log :
          /\ m.key = wants[r]
          /\ got' = [got EXCEPT ![r] = m.seq]
    /\ outcome' = [outcome EXCEPT ![r] = "ok"]
    /\ UNCHANGED <<log, wants>>

Fail(r) ==
    /\ outcome[r] = "none"
    /\ outcome' = [outcome EXCEPT ![r] = "failed"]
    /\ UNCHANGED <<log, wants, got>>

LogNext == \E r \in Req : Record(r) \/ Acknowledge(r) \/ Fail(r)

LogSpec == LogInit /\ [][LogNext]_logVars
=============================================================================
