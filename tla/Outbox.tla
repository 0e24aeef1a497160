------------------------------- MODULE Outbox -------------------------------
(***************************************************************************)
(* The durable half of realtime delivery: transactions append rows to the  *)
(* change_log outbox (chat/infra/postgres/change_log.go), every instance's *)
(* relay polls them past its own cursor and publishes them on one Redis    *)
(* channel (realtime/infra/relay.go), every instance's dispatcher receives *)
(* the channel, collapses duplicates by global_seq and keeps the rows of   *)
(* each conversation in a replay buffer for resuming clients               *)
(* (realtime/delivery/ws/dispatcher.go).                                   *)
(*                                                                         *)
(* global_seq is drawn when a row is inserted and the row is visible when  *)
(* its transaction commits, so rows may become visible out of order.       *)
(***************************************************************************)
EXTENDS Naturals, Sequences, FiniteSets

CONSTANTS
    Conv,        \* conversations
    NoConv,      \* conversation_id of a row that has none (user.updated)
    Writer,      \* transactions that append one row each
    Instance,    \* api-server processes
    BatchSize,   \* RelayConfig.BatchSize
    DedupeMax,   \* capacity of dedupeSet
    RingMax,     \* ReplayConfig.MaxEventsPerConversation
    MaxFaults    \* bound on failed calls, lost subscriptions and restarts

ASSUME NoConvAssumption == NoConv \notin Conv
ASSUME BatchAssumption == BatchSize \in Nat \ {0}
ASSUME DedupeAssumption == DedupeMax \in Nat \ {0}
ASSUME RingAssumption == RingMax \in Nat \ {0}
ASSUME FaultsAssumption == MaxFaults \in Nat

VARIABLES
    nextGlobal,  \* the shared global_seq sequence
    txn,         \* state of each writer's transaction
    row,         \* the row it inserted
    changeLog,   \* committed rows
    faults,
    relay,       \* "starting", "running" or, after a failed first read, "stopped"
    cursor,      \* Relay.cursor
    batch,       \* rows read by a poll and not yet published
    subscribed,  \* is the dispatcher's subscription up?
    inbox,       \* events on their way to the dispatcher
    seen,        \* dedupeSet.order
    ring,        \* replayBuffer.events
    \* history, read by the properties only:
    start,       \* where the relay's cursor started
    published,   \* the global_seqs the relay has published since
    late,        \* rows that became visible after the relay had read past them
    dispatched,  \* the global_seqs the dispatcher routed, in order
    lost         \* events the dispatcher did not get, or got before it restarted

writers == <<nextGlobal, txn, row, changeLog>>
relays == <<relay, cursor, batch, start, published>>
dispatchers == <<inbox, seen, ring, dispatched>>
vars == <<nextGlobal, txn, row, changeLog, faults, relay, cursor, batch, subscribed,
          inbox, seen, ring, start, published, late, dispatched, lost>>

\* Every instance has started before the first row; starting is met after a
\* restart.
Init ==
    /\ nextGlobal = 1
    /\ txn = [w \in Writer |-> "idle"]
    /\ row = [w \in Writer |-> [global |-> 0, conv |-> NoConv]]
    /\ changeLog = {}
    /\ faults = 0
    /\ relay = [i \in Instance |-> "running"]
    /\ cursor = [i \in Instance |-> 0]
    /\ batch = [i \in Instance |-> <<>>]
    /\ subscribed = [i \in Instance |-> TRUE]
    /\ inbox = [i \in Instance |-> <<>>]
    /\ seen = [i \in Instance |-> <<>>]
    /\ ring = [i \in Instance |-> [c \in Conv |-> <<>>]]
    /\ start = [i \in Instance |-> 0]
    /\ published = [i \in Instance |-> {}]
    /\ late = [i \in Instance |-> {}]
    /\ dispatched = [i \in Instance |-> <<>>]
    /\ lost = [i \in Instance |-> {}]

Elements(s) == {s[n] : n \in DOMAIN s}
Globals(rows) == {r.global : r \in rows}
Fault == faults < MaxFaults /\ faults' = faults + 1

-----------------------------------------------------------------------------
(***************************************************************************)
(* Writers: the INSERT into change_log draws nextval, the row is visible   *)
(* at COMMIT, a rollback leaves a gap.                                     *)
(***************************************************************************)
Insert(w) ==
    /\ txn[w] = "idle"
    /\ txn' = [txn EXCEPT ![w] = "open"]
    /\ \E c \in Conv \cup {NoConv} :
          row' = [row EXCEPT ![w] = [global |-> nextGlobal, conv |-> c]]
    /\ nextGlobal' = nextGlobal + 1
    /\ UNCHANGED <<changeLog, faults, relays, subscribed, dispatchers, late, lost>>

\* A relay that has read, or is publishing, a newer row will not read this one.
PassedBy(i, g) == cursor[i] > g \/ \E r \in Elements(batch[i]) : r.global > g

Commit(w) ==
    /\ txn[w] = "open"
    /\ txn' = [txn EXCEPT ![w] = "committed"]
    /\ changeLog' = changeLog \cup {row[w]}
    /\ late' = [i \in Instance |->
            IF PassedBy(i, row[w].global) THEN late[i] \cup {row[w].global} ELSE late[i]]
    /\ UNCHANGED <<nextGlobal, row, faults, relays, subscribed, dispatchers, lost>>

Rollback(w) ==
    /\ txn[w] = "open"
    /\ txn' = [txn EXCEPT ![w] = "rolledback"]
    /\ UNCHANGED <<nextGlobal, row, changeLog, faults, relays, subscribed,
                   dispatchers, late, lost>>

-----------------------------------------------------------------------------
(***************************************************************************)
(* Relay.Run.                                                              *)
(***************************************************************************)
Newest(rows) ==
    IF rows = {} THEN 0 ELSE CHOOSE g \in Globals(rows) : \A h \in Globals(rows) : h <= g

\* The cursor starts at the head; an error of that first read ends the relay for
\* the life of the process: nothing supervises it (app.go).
StartRelay(i) ==
    /\ relay[i] = "starting"
    /\ \/ /\ relay' = [relay EXCEPT ![i] = "running"]
          /\ cursor' = [cursor EXCEPT ![i] = Newest(changeLog)]
          /\ start' = [start EXCEPT ![i] = Newest(changeLog)]
       \/ /\ relay' = [relay EXCEPT ![i] = "stopped"]
          /\ UNCHANGED <<cursor, start>>
    /\ UNCHANGED <<writers, faults, batch, subscribed, dispatchers, published, late, lost>>

\* ListAfter: the visible rows past g in global order, at most BatchSize of them.
ListAfter(g) ==
    LET rows == {r \in changeLog : r.global > g}
        rank(r) == Cardinality({s \in rows : s.global <= r.global})
        size == IF Cardinality(rows) < BatchSize THEN Cardinality(rows) ELSE BatchSize
    IN  [n \in 1..size |-> CHOOSE r \in rows : rank(r) = n]

\* A faulty variant: rows wait until a batch is full.
Poll_FullBatches(i) ==
    /\ relay[i] = "running"
    /\ batch[i] = <<>>
    /\ Len(ListAfter(cursor[i])) = BatchSize
    /\ batch' = [batch EXCEPT ![i] = ListAfter(cursor[i])]
    /\ UNCHANGED <<writers, faults, relay, cursor, subscribed, dispatchers, start,
                   published, late, lost>>

\* A poll that finds nothing, or fails, changes nothing.
Poll(i) ==
    /\ relay[i] = "running"
    /\ batch[i] = <<>>
    /\ ListAfter(cursor[i]) # <<>>
    /\ batch' = [batch EXCEPT ![i] = ListAfter(cursor[i])]
    /\ UNCHANGED <<writers, faults, relay, cursor, subscribed, dispatchers, start,
                   published, late, lost>>

\* PUBLISH hands the event to every subscribed dispatcher and to no other.
Broadcast(r) ==
    /\ inbox' = [j \in Instance |->
                    IF subscribed[j] THEN Append(inbox[j], r) ELSE inbox[j]]
    /\ lost' = [j \in Instance |->
                    IF subscribed[j] THEN lost[j] ELSE lost[j] \cup {r.global}]

Publish(i) ==
    /\ batch[i] # <<>>
    /\ Broadcast(Head(batch[i]))
    /\ cursor' = [cursor EXCEPT ![i] = Head(batch[i]).global]
    /\ published' = [published EXCEPT ![i] = @ \cup {Head(batch[i]).global}]
    /\ batch' = [batch EXCEPT ![i] = Tail(@)]
    /\ UNCHANGED <<writers, faults, relay, subscribed, seen, ring, start, late, dispatched>>

\* A faulty variant: the cursor moves although the publish failed.
PublishFails_Advance(i) ==
    /\ batch[i] # <<>>
    /\ Fault
    /\ cursor' = [cursor EXCEPT ![i] = Head(batch[i]).global]
    /\ batch' = [batch EXCEPT ![i] = <<>>]
    /\ UNCHANGED <<writers, relay, subscribed, dispatchers, start, published, late, lost>>

\* An error of PUBLISH ends the pump, with or without the event delivered; the
\* next poll reads again from the last published row.
PublishFails(i) ==
    /\ batch[i] # <<>>
    /\ Fault
    /\ Broadcast(Head(batch[i])) \/ UNCHANGED <<inbox, lost>>
    /\ batch' = [batch EXCEPT ![i] = <<>>]
    /\ UNCHANGED <<writers, relay, cursor, subscribed, seen, ring, start, published,
                   late, dispatched>>

-----------------------------------------------------------------------------
(***************************************************************************)
(* Dispatcher.Run and dispatch.                                            *)
(***************************************************************************)
Subscribe(i) ==
    /\ ~subscribed[i]
    /\ subscribed' = [subscribed EXCEPT ![i] = TRUE]
    /\ UNCHANGED <<writers, faults, relays, dispatchers, late, lost>>

\* The subscription drops: what it had not delivered is gone.
Drop(i) ==
    /\ subscribed[i]
    /\ Fault
    /\ subscribed' = [subscribed EXCEPT ![i] = FALSE]
    /\ inbox' = [inbox EXCEPT ![i] = <<>>]
    /\ lost' = [lost EXCEPT ![i] = @ \cup Globals(Elements(inbox[i]))]
    /\ UNCHANGED <<writers, relays, seen, ring, late, dispatched>>

\* dedupeSet.add for a new global_seq: once full, the oldest is forgotten.
Remember_WhileRoom(s, g) ==  \* a faulty variant: a full set admits no more
    IF Len(s) < DedupeMax THEN Append(s, g) ELSE s
Remember(s, g) ==
    IF Len(s) < DedupeMax THEN Append(s, g) ELSE Tail(Append(s, g))

\* replayBuffer.append: the oldest n events have outlived the TTL; the ring is
\* pruned here and nowhere else, then cut to its capacity.
Kept(s, n) ==
    LET young == SubSeq(s, n + 1, Len(s)) IN
    IF Len(young) < RingMax THEN young
    ELSE SubSeq(young, Len(young) - RingMax + 2, Len(young))

Dispatch(i) ==
    /\ inbox[i] # <<>>
    /\ inbox' = [inbox EXCEPT ![i] = Tail(@)]
    /\ LET e == Head(inbox[i]) IN
       \/ /\ e.global \in Elements(seen[i])
          /\ UNCHANGED <<seen, ring, dispatched>>
       \/ /\ e.global \notin Elements(seen[i])
          /\ seen' = [seen EXCEPT ![i] = Remember(@, e.global)]
          /\ dispatched' = [dispatched EXCEPT ![i] = Append(@, e.global)]
          /\ \/ e.conv = NoConv /\ UNCHANGED ring
             \/ /\ e.conv \in Conv
                /\ \E n \in 0..Len(ring[i][e.conv]) :
                      ring' = [ring EXCEPT ![i][e.conv] = Append(Kept(@, n), e.global)]
    /\ UNCHANGED <<writers, faults, relays, subscribed, late, lost>>

\* A process restarts: everything it held is gone.
Restart(i) ==
    /\ Fault
    /\ relay' = [relay EXCEPT ![i] = "starting"]
    /\ cursor' = [cursor EXCEPT ![i] = 0]
    /\ batch' = [batch EXCEPT ![i] = <<>>]
    /\ subscribed' = [subscribed EXCEPT ![i] = FALSE]
    /\ inbox' = [inbox EXCEPT ![i] = <<>>]
    /\ seen' = [seen EXCEPT ![i] = <<>>]
    /\ ring' = [ring EXCEPT ![i] = [c \in Conv |-> <<>>]]
    /\ start' = [start EXCEPT ![i] = 0]
    /\ published' = [published EXCEPT ![i] = {}]
    /\ late' = [late EXCEPT ![i] = {}]
    /\ dispatched' = [dispatched EXCEPT ![i] = <<>>]
    /\ lost' = [lost EXCEPT ![i] =
                    @ \cup Globals(Elements(inbox[i])) \cup Elements(dispatched[i])]
    /\ UNCHANGED writers

Relaying(i) == StartRelay(i) \/ Poll(i) \/ Publish(i)
Dispatching(i) == Subscribe(i) \/ Dispatch(i)

Next ==
    \/ \E w \in Writer : Insert(w) \/ Commit(w) \/ Rollback(w)
    \/ \E i \in Instance :
          Relaying(i) \/ PublishFails(i) \/ Dispatching(i) \/ Drop(i) \/ Restart(i)

Spec == Init /\ [][Next]_vars

\* The relay's ticker fires, PUBLISH is retried by the next poll and the
\* supervisor restarts the dispatcher; nothing else is promised.
FairSpec ==
    Spec /\ \A i \in Instance : WF_vars(Relaying(i)) /\ WF_vars(Dispatching(i))

-----------------------------------------------------------------------------
(***************************************************************************)
(* Resume: what handleResume asks of the buffer for a client whose last    *)
(* global_seq is g.                                                        *)
(***************************************************************************)
CanReplay_Newest(i, g) ==  \* a faulty variant: compares with the newest event
    \E c \in Conv : ring[i][c] # <<>> /\ g <= ring[i][c][Len(ring[i][c])]
CanReplay(i, g) ==
    /\ \E c \in Conv : ring[i][c] # <<>>
    /\ \A c \in Conv : ring[i][c] # <<>> => g + 1 >= Head(ring[i][c])

ReplaySince(i, g) ==
    {h \in UNION {Elements(ring[i][c]) : c \in Conv} : h > g}

-----------------------------------------------------------------------------
(***************************************************************************)
(* Properties.                                                             *)
(***************************************************************************)
\* Failed polls and publishes cost a relay nothing: its cursor never passes a row
\* that it could read and has not published (relay.go:131-137).
NoReadableRowSkipped ==
    \A i \in Instance : relay[i] = "running" =>
        \A r \in changeLog :
            start[i] < r.global /\ r.global <= cursor[i]
                => r.global \in published[i] \cup late[i]

\* Every instance publishes every row, and republishes after an error; a
\* dispatcher routes an event twice only when DedupeMax others came between
\* (dispatcher.go:80-85, 311-325).
DuplicatesOnlyAfterEviction ==
    \A i \in Instance : \A m, n \in DOMAIN dispatched[i] :
        m < n /\ dispatched[i][m] = dispatched[i][n] => n - m > DedupeMax

Ascending(s) == \A m, n \in DOMAIN s : m < n => s[m] < s[n]

\* A client may hold the head it was told, or the global_seq of an event.
Cursors == {0} \cup Globals(changeLog)

\* When events arrived in order, a cursor CanReplay accepts is one from which no
\* event was expired or cut out of any conversation's ring (dispatcher.go:255-276).
AcceptedWindowIsWhole ==
    \A i \in Instance : Ascending(dispatched[i]) =>
        \A g \in Cursors : CanReplay(i, g) =>
            \A r \in changeLog :
                r.conv \in Conv /\ r.global > g /\ r.global \in Elements(dispatched[i])
                    => r.global \in ReplaySince(i, g)

\* A row some running relay can still reach comes to every dispatcher, which
\* misses it only when its subscription was down or it restarted
\* (relay.go:126-139, app.go supervise).
RowsReachDispatchers ==
    \A w \in Writer : \A i \in Instance :
        txn[w] = "committed" ~>
            \/ row[w].global \in Elements(dispatched[i]) \cup lost[i]
            \/ \A j \in Instance :
                  \/ relay[j] = "stopped"
                  \/ row[w].global <= start[j]
                  \/ row[w].global \in late[j]
=============================================================================
