------------------------------ MODULE Presence ------------------------------
(***************************************************************************)
(* Presence of one user over several gateway instances                     *)
(* (realtime/presence), as the endpoint and the frame handler drive it: a  *)
(* Redis hash with a field per instance that holds a socket of the user, a *)
(* set of connection ids per instance, both under a TTL that each          *)
(* instance's sweeper renews, and the broadcast that tells a peer when the *)
(* first socket opens and the last one closes.                             *)
(*                                                                         *)
(* The two scripts are atomic; what follows a script is not, so broadcasts *)
(* of different sockets may cross.  Time advances by the sweep interval,   *)
(* TTL / 2: a key that is touched lives for two ticks, and from then on    *)
(* may expire before or after anything else happens.                       *)
(* The sockets, the Redis members and what is said of them come from       *)
(* PresencePromises.                                                       *)
(***************************************************************************)
EXTENDS Naturals, FiniteSets, PresencePromises

CONSTANTS
    Instance,   \* Config.Instance of each process; a restarted one keeps its own
    MaxId,      \* bound on connection ids of a process
    MaxFaults   \* bound on failed Redis calls and crashes

ASSUME BoundsAssumption == MaxId \in Nat /\ MaxFaults \in Nat

VARIABLES
    nextId,    \* Hub.connSeq
    ttl,       \* ticks each key has left, 0 when absent
    sweep,     \* this interval's sweep of each instance
    interest,  \* is the peer's conversation in presence:v1:convs?
    faults

keys == <<online, conns, ttl>>
peer == <<interest, told>>
process == <<nextId, sweep>>
blame == <<faults, failed>>
vars == <<process, sock, keys, peer, blame>>

TTL == 2

\* The hash, and each instance's set.
onlineKey == [kind |-> "online"]
connsKey(i) == [kind |-> "conns", instance |-> i]
Key == {onlineKey} \cup {connsKey(i) : i \in Instance}

\* A socket is registered with the hub, then in Redis; on the way out the hub
\* forgets it first.  "announce" and "farewell" have a transition to broadcast.
Registered == {"registered", "announce", "live"}

Init ==
    /\ nextId = [i \in Instance |-> 1]
    /\ sock = [k \in Slot |-> Free]
    /\ online = {}
    /\ conns = [i \in Instance |-> {}]
    /\ ttl = [k \in Key |-> 0]
    /\ sweep = [i \in Instance |-> "due"]
    /\ interest \in BOOLEAN
    /\ told = "gone"
    /\ faults = 0
    /\ failed = FALSE

At(k, step) == sock[k].step = step
Goto(k, step) == sock' = [sock EXCEPT ![k].step = step]

\* Hub.OnlineUsers has the user.
InHub(i) == \E k \in Slot : sock[k].step \in Registered /\ sock[k].at = i

\* A socket's script ran: if it was a transition, broadcasts still to come of
\* earlier ones are overtaken.
Moved(k, step) ==
    sock' = [j \in Slot |->
        IF j = k THEN [sock[k] EXCEPT !.step = step]
        ELSE IF step \in {"announce", "farewell"} /\ j \in Transitions
               THEN [sock[j] EXCEPT !.overtaken = TRUE]
        ELSE sock[j]]

-----------------------------------------------------------------------------
(* Opening a socket: Endpoint.ServeHTTP, Service.Connect.                  *)

Open(k, i) ==
    /\ sock[k] = Free /\ nextId[i] <= MaxId
    /\ sock' = [sock EXCEPT ![k] = [step |-> "registered", at |-> i, id |-> nextId[i],
                                    overtaken |-> FALSE]]
    /\ nextId' = [nextId EXCEPT ![i] = @ + 1]
    /\ UNCHANGED <<sweep, keys, peer, blame>>

\* connectScript, on the keys.
Joined(i, id) ==
    /\ conns' = [conns EXCEPT ![i] = @ \cup {id}]
    /\ online' = online \cup {i}
    /\ ttl' = [ttl EXCEPT ![connsKey(i)] = TTL, ![onlineKey] = TTL]

Connect(k) ==
    /\ At(k, "registered")
    /\ Joined(sock[k].at, sock[k].id)
    /\ Moved(k, IF online = {} THEN "announce" ELSE "live")
    /\ UNCHANGED <<process, peer, blame>>

-----------------------------------------------------------------------------
(* Broadcasts, to the user's conversations of interest only.               *)

Tell(status, overtaken) ==
    /\ told' = IF told = "lost" THEN "lost"
               ELSE IF overtaken \/ ~interest THEN "stale"
               ELSE status
    /\ UNCHANGED interest

AnnounceOnline(k) ==
    /\ At(k, "announce")
    /\ Tell("online", sock[k].overtaken)
    /\ Goto(k, "live")
    /\ UNCHANGED <<process, keys, blame>>

\* With the time the user was last seen.
AnnounceOffline(k) ==
    /\ At(k, "farewell")
    /\ Tell("gone", sock[k].overtaken)
    /\ sock' = [sock EXCEPT ![k] = Free]
    /\ UNCHANGED <<process, keys, blame>>

\* presence.update: the client's own word is broadcast as it is, "offline" too, but
\* never with the time the user was last seen.
Statuses == {"online", "offline", "away", "busy"}

Update(k) ==
    /\ At(k, "live")
    /\ \E status \in Statuses : Tell(status, FALSE)
    /\ UNCHANGED <<process, sock, keys, blame>>

\* Subscribing makes the conversation one of interest; unsubscribing on any
\* device, or a day, takes it out.
SetConversation(k) ==
    /\ At(k, "live") /\ ~interest
    /\ interest' = TRUE
    /\ UNCHANGED <<process, sock, keys, told, blame>>

DropConversation ==
    /\ interest
    /\ interest' = FALSE
    /\ UNCHANGED <<process, sock, keys, told, blame>>

-----------------------------------------------------------------------------
(* Closing it: the hub's unregister, then onClose, Service.Disconnect.     *)

Unregister(k) ==
    /\ At(k, "live")
    /\ Goto(k, "leaving")
    /\ UNCHANGED <<process, keys, peer, blame>>

\* A faulty variant: the last socket of an instance takes the whole hash away.
Left_DropHash(i, id) ==
    LET gone == conns[i] = {id} IN
    /\ conns' = [conns EXCEPT ![i] = @ \ {id}]
    /\ online' = IF gone THEN {} ELSE online
    /\ ttl' = [k \in Key |-> IF k \in {connsKey(i), onlineKey} /\ gone THEN 0 ELSE ttl[k]]

\* disconnectScript, on the keys.
Left(i, id) ==
    LET gone == conns[i] = {id} IN
    /\ conns' = [conns EXCEPT ![i] = @ \ {id}]
    /\ online' = IF gone THEN online \ {i} ELSE online
    /\ ttl' = [k \in Key |-> IF \/ k = connsKey(i) /\ gone
                                \/ k = onlineKey /\ online' = {}
                             THEN 0 ELSE ttl[k]]

\* A faulty variant: another instance's sockets are not looked at.
WentOffline_Here(i, id) == conns[i] = {id}

\* It removed the last id of the last instance.
WentOffline(i, id) == conns[i] = {id} /\ online \subseteq {i}

Disconnect(k) ==
    /\ At(k, "leaving")
    /\ Left(sock[k].at, sock[k].id)
    /\ IF WentOffline(sock[k].at, sock[k].id)
         THEN Moved(k, "farewell")
         ELSE sock' = [sock EXCEPT ![k] = Free]
    /\ UNCHANGED <<process, peer, blame>>

-----------------------------------------------------------------------------
(* The sweeper of each instance, once in every interval.                   *)

\* A faulty variant: it touches every user that it has ever seen.
Sweeps_All(i) == TRUE

\* Sweeper.Run reads the hub first, and touches later.
Sweeps(i) == InHub(i)

BeginSweep(i) ==
    /\ sweep[i] = "due"
    /\ sweep' = [sweep EXCEPT ![i] = IF Sweeps(i) THEN "hash" ELSE "done"]
    /\ UNCHANGED <<nextId, sock, keys, peer, blame>>

\* EXPIRE does nothing when the key is gone.
TouchOnline(i) ==
    /\ sweep[i] = "hash"
    /\ ttl' = IF online = {} THEN ttl ELSE [ttl EXCEPT ![onlineKey] = TTL]
    /\ sweep' = [sweep EXCEPT ![i] = "set"]
    /\ UNCHANGED <<nextId, sock, online, conns, peer, blame>>

TouchConns(i) ==
    /\ sweep[i] = "set"
    /\ ttl' = IF conns[i] = {} THEN ttl ELSE [ttl EXCEPT ![connsKey(i)] = TTL]
    /\ sweep' = [sweep EXCEPT ![i] = "done"]
    /\ UNCHANGED <<nextId, sock, online, conns, peer, blame>>

-----------------------------------------------------------------------------
(* Time.  A key touched in one interval is due in the next but one.        *)

Present(key) == IF key = onlineKey THEN online # {} ELSE conns[key.instance] # {}
Due(key) == Present(key) /\ ttl[key] = 0

\* No Redis call lasts an interval: the endpoint gives each 5 s.
Tick ==
    /\ \A i \in Instance : sweep[i] = "done"
    /\ \A k \in Slot : sock[k].step \in {"free", "live"}
    /\ \A key \in Key : ~Due(key)
    /\ ttl' = [key \in Key |-> IF Present(key) THEN ttl[key] - 1 ELSE 0]
    /\ sweep' = [i \in Instance |-> "due"]
    /\ UNCHANGED <<nextId, sock, online, conns, peer, blame>>

Expire(key) ==
    /\ Due(key)
    /\ IF key = onlineKey
         THEN online' = {} /\ UNCHANGED conns
         ELSE conns' = [conns EXCEPT ![key.instance] = {}] /\ UNCHANGED online
    /\ UNCHANGED <<process, sock, ttl, peer, blame>>

-----------------------------------------------------------------------------
(* Faults.  A Redis call that fails may have had its effect; the error is  *)
(* logged and swallowed.                                                   *)

Fault ==
    /\ faults < MaxFaults
    /\ faults' = faults + 1
    /\ told' = "lost"
    /\ UNCHANGED interest

CallFails == Fault /\ failed' = TRUE

ConnectFails(k) ==
    /\ At(k, "registered") /\ CallFails
    /\ Goto(k, "live")
    /\ \/ Joined(sock[k].at, sock[k].id)
       \/ UNCHANGED keys
    /\ UNCHANGED process

DisconnectFails(k) ==
    /\ At(k, "leaving") /\ CallFails
    /\ sock' = [sock EXCEPT ![k] = Free]
    /\ \/ Left(sock[k].at, sock[k].id)
       \/ UNCHANGED keys
    /\ UNCHANGED process

\* Touch returns at its first error; the sweeper tries again an interval later.
TouchFails(i) ==
    /\ sweep[i] \in {"hash", "set"} /\ CallFails
    /\ sweep' = [sweep EXCEPT ![i] = "done"]
    /\ UNCHANGED <<nextId, sock, keys>>

\* Reading the conversations or publishing fails: nobody is told.
BroadcastFails(k) ==
    /\ k \in Transitions /\ Fault
    /\ sock' = IF At(k, "announce") THEN [sock EXCEPT ![k].step = "live"]
                ELSE [sock EXCEPT ![k] = Free]
    /\ UNCHANGED <<process, keys, failed>>

\* The process ends with its sockets, in the middle of whatever they do (a crash,
\* or a shutdown that does not wait for onClose), and another takes its name; in
\* between, the instance is as one that has no socket of the user.
Crash(i) ==
    /\ Fault
    /\ sock' = [k \in Slot |-> IF sock[k] # Free /\ sock[k].at = i THEN Free ELSE sock[k]]
    /\ nextId' = [nextId EXCEPT ![i] = 1]
    /\ sweep' = [sweep EXCEPT ![i] = "done"]
    /\ UNCHANGED <<keys, failed>>

Endpoint(k) ==
    \/ \E i \in Instance : Open(k, i)
    \/ Connect(k) \/ AnnounceOnline(k)
    \/ Update(k) \/ SetConversation(k)
    \/ Unregister(k) \/ Disconnect(k) \/ AnnounceOffline(k)
    \/ ConnectFails(k) \/ DisconnectFails(k) \/ BroadcastFails(k)

Sweeper(i) == BeginSweep(i) \/ TouchOnline(i) \/ TouchConns(i)

Next ==
    \/ \E k \in Slot : Endpoint(k)
    \/ \E i \in Instance : Sweeper(i) \/ TouchFails(i) \/ Crash(i)
    \/ \E key \in Key : Expire(key)
    \/ DropConversation
    \/ Tick

Spec == Init /\ [][Next]_vars

\* Tickers and key expiry are driven by the clock; whether a client opens or
\* closes a socket is not.
FairSpec ==
    /\ Spec
    /\ \A i \in Instance : WF_vars(Sweeper(i))
    /\ \A key \in Key : WF_vars(Expire(key))
    /\ WF_vars(Tick)
=============================================================================
