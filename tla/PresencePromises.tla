-------------------------- MODULE PresencePromises --------------------------
(***************************************************************************)
(* What realtime/presence promises about a user's sockets, what Redis says *)
(* of them and what a peer is told.  How it comes to be is in Presence.    *)
(***************************************************************************)

CONSTANT Slot   \* sockets of the user open at a time

VARIABLES
    sock,      \* each socket: where it is in its life, on which instance, its id
    online,    \* fields of presence:v1:online
    conns,     \* members of presence:v1:conns, by instance
    \* history, read by the properties only:
    failed,    \* a Redis call has failed
    told       \* the status the peer was told last, "gone" for an offline that has the
               \* time the user was last seen; "stale" when that broadcast was overtaken
               \* or passed the peer by, "lost" since the first fault

Free == [step |-> "free"]

\* Sockets with a transition to broadcast.
Transitions == {k \in Slot : sock[k].step \in {"announce", "farewell"}}

\* A socket Redis has been told of, until it is told that it closed.
Connected == {k \in Slot : sock[k].step \in {"announce", "live", "leaving"}}

\* store.go:8-12: a disconnect on one instance cannot flip the user offline while
\* another still holds a live socket, nor can time or what a crashed process left
\* behind: unless a Redis call failed, every open socket is in Redis.
ShownWhileConnected ==
    ~failed => \A k \in Connected : /\ sock[k].at \in online
                                    /\ sock[k].id \in conns[sock[k].at]

\* service.go:60-86: with no fault, once the broadcasts are out, the peer was told
\* offline, and when the user was last seen, exactly when no socket is open, unless
\* the broadcast it got last was overtaken by a later transition or did not count it
\* among the interested.  A connected user is told offline only at a client's own
\* word (handler.go:323-326), which comes with no last_seen_at (service.go:107).
PeersAgree ==
    told \notin {"stale", "lost"} /\ Transitions = {} => (told = "gone" <=> Connected = {})

\* store.go:4-6: stale state heals after a crashed gateway: with no socket left,
\* the user goes offline, whatever failed or crashed.
GhostsExpire ==
    (\A k \in Slot : sock[k] = Free)
        ~> (online = {} \/ \E k \in Slot : sock[k] # Free)
=============================================================================
