------------------------------ MODULE Gateway -------------------------------
(***************************************************************************)
(* The realtime gateway of one api-server process                          *)
(* (realtime/delivery/ws): the endpoint that authenticates a socket and    *)
(* registers it, the hub that routes by conversation and by user, the read *)
(* and write pumps of each connection, the frames the read pump handles    *)
(* (subscribe, unsubscribe, resume and the calls that end in one ack), the *)
(* dispatcher's fan-out with its replay buffer, the force-closes and       *)
(* Shutdown.                                                               *)
(*                                                                         *)
(* Frames reach a connection from several goroutines: its own (endpoint,   *)
(* then read pump), the dispatcher and Shutdown.  sendEvent stamps the     *)
(* frame's seq under seqMu and puts the frame in the bounded send channel  *)
(* later, so each sender may hold a stamped frame.  What the dispatcher    *)
(* receives, and what it loses or receives again, is the module Outbox's.  *)
(***************************************************************************)
EXTENDS Naturals, Sequences, FiniteSets

CONSTANTS
    Conn,        \* sockets; each is accepted once
    Conv,        \* conversations
    NoConv,      \* conversation_id of an event that has none
    User,
    Audience,    \* what an event may be for: the subscribers of its conversation,
                 \* the users whose own sockets it goes to, or both
    BufferSize,  \* Config.SendBufferSize
    RingMax,     \* ReplayConfig.MaxEventsPerConversation
    MaxEvents,   \* bound on events
    MaxFrames,   \* bound on the frames one client sends
    MaxFaults    \* bound on peers that stall or leave and on forced closes

ASSUME NoConvAssumption == NoConv \notin Conv
ASSUME AudienceAssumption == Audience \subseteq [conv : Conv \cup {NoConv}, users : SUBSET User]
ASSUME BufferAssumption == BufferSize \in Nat \ {0}
ASSUME RingAssumption == RingMax \in Nat \ {0}
ASSUME BoundsAssumption == MaxEvents \in Nat /\ MaxFrames \in Nat /\ MaxFaults \in Nat

VARIABLES
    phase,       \* "out", "handshake", "registered", "running", "gone"
    user,        \* claims.UserID once authenticated
    sock,        \* the socket: "open", "stalled" (the peer stopped reading) or "closed"
    closing,     \* did closeWith run?
    conns, byUser, byConv,  \* Hub's registry
    subscribed,  \* Connection.subscribed
    seq,         \* Connection.seq
    queued,      \* frames in the send channel
    reader,      \* the read pump, or the endpoint's goroutine before Run
    cursor,      \* last_global_seq of the resume being handled
    replay,      \* what ReplaySince returned for it
    frames,      \* frames the client has sent
    writer,      \* the write pump
    held,        \* the frame each sender has stamped and not yet enqueued
    events,      \* conversation of every event dispatched, by global_seq
    audience,    \* where the last of them is still to go: a conversation, users
    targets,     \* the rest of the snapshot it is being delivered to
    ring,        \* replayBuffer.events
    stop,        \* where Shutdown is: "up", "announcing", "returned"
    snapshot,    \* the connections it found registered
    stopping,    \* those it has still to tell
    faults,
    \* history, read by the properties only:
    sent,        \* the seqs of the frames that went into the send channel
    newest,      \* the last event enqueued live for a connection, 0 before the first
    missed,      \* the first event that could not be, 0 if there is none
    owed         \* the events a subscriber is to get and has not got

hub == <<conns, byUser, byConv, subscribed>>
channel == <<seq, queued, held, sent, newest, missed>>
resume == <<cursor, replay>>
dispatcher == <<events, audience, targets, ring>>
shutdown == <<stop, stopping, snapshot, faults>>
vars == <<phase, user, sock, closing, hub, channel, owed, reader, resume, frames,
          writer, dispatcher, shutdown>>

Dispatcher == "dispatcher"
Stopper == "shutdown"
Sender == Conn \cup {Dispatcher, Stopper}

ASSUME SendersAssumption == Conn \cap {Dispatcher, Stopper} = {}

\* A frame delivers an event live, or is a reply or another frame of the
\* protocol.  A sender that has stamped no frame holds None.
Other == [kind |-> "other"]
None == [conn |-> "none"]

Nobody == [conv |-> NoConv, users |-> {}]

Init ==
    /\ phase = [c \in Conn |-> "out"]
    /\ user \in [Conn -> User]
    /\ sock = [c \in Conn |-> "open"]
    /\ closing = [c \in Conn |-> FALSE]
    /\ conns = {}
    /\ byUser = [u \in User |-> {}]
    /\ byConv = [v \in Conv |-> {}]
    /\ subscribed = [c \in Conn |-> {}]
    /\ seq = [c \in Conn |-> 0]
    /\ queued = [c \in Conn |-> 0]
    /\ sent = [c \in Conn |-> {}]
    /\ newest = [c \in Conn |-> 0]
    /\ reader = [c \in Conn |-> "none"]
    /\ cursor = [c \in Conn |-> 0]
    /\ replay = [c \in Conn |-> {}]
    /\ frames = [c \in Conn |-> 0]
    /\ writer = [c \in Conn |-> "none"]
    /\ held = [s \in Sender |-> None]
    /\ events = <<>>
    /\ audience = Nobody
    /\ targets = {}
    /\ ring = [v \in Conv |-> <<>>]
    /\ stop = "up"
    /\ stopping = {}
    /\ faults = 0
    /\ missed = [c \in Conn |-> 0]
    /\ owed = [c \in Conn |-> {}]
    /\ snapshot = {}

\* closeWith: once; the code it records is left out.
CloseWith(c) == closing' = [closing EXCEPT ![c] = TRUE]

-----------------------------------------------------------------------------
(* sendEvent.  Stamping takes the next seq; the frame of a connection that *)
(* is being closed goes no further.                                        *)

Live(f) == f.kind = "live"

Miss(c, f) ==
    missed' = IF Live(f) /\ missed[c] = 0 THEN [missed EXCEPT ![c] = f.event] ELSE missed

Stamp(s, c, f) ==
    /\ held[s] = None
    /\ seq' = [seq EXCEPT ![c] = @ + 1]
    /\ IF closing[c]
         THEN Miss(c, f) /\ UNCHANGED held
         ELSE /\ held' = [held EXCEPT ![s] = [conn |-> c, seq |-> seq[c] + 1, frame |-> f]]
              /\ UNCHANGED missed
    /\ UNCHANGED <<queued, sent, newest, owed>>

\* A frame that carries the events es goes into the send channel.
Put(c, seqs, es) ==
    /\ queued[c] < BufferSize
    /\ queued' = [queued EXCEPT ![c] = @ + 1]
    /\ sent' = [sent EXCEPT ![c] = @ \cup seqs]
    /\ owed' = [owed EXCEPT ![c] = @ \ es]
    /\ UNCHANGED <<closing, sock>>

\* A faulty variant: the frame is skipped and the consumer stays.
Overflow_SkipFrame(c) == queued[c] = BufferSize /\ UNCHANGED <<closing, sock, queued, sent, owed>>

\* The channel is full: the slow consumer is closed and its socket dropped.
Overflow(c) ==
    /\ queued[c] = BufferSize
    /\ CloseWith(c)
    /\ sock' = [sock EXCEPT ![c] = "closed"]
    /\ UNCHANGED <<queued, sent, owed>>

Abandon(c) == closing[c] /\ UNCHANGED <<closing, sock, queued, sent, owed>>

\* The rest of sendEvent.  A connection that is being closed may have been
\* asked to before or after the check of isClosing.
Enqueue(s) ==
    LET c == held[s].conn
        f == held[s].frame
    IN  /\ held[s] # None
        /\ held' = [held EXCEPT ![s] = None]
        /\ \/ /\ Put(c, {held[s].seq}, IF Live(f) THEN {f.event} ELSE {})
              /\ newest' = IF Live(f) THEN [newest EXCEPT ![c] = f.event] ELSE newest
              /\ UNCHANGED missed
           \/ (Overflow(c) \/ Abandon(c)) /\ Miss(c, f) /\ UNCHANGED newest
        /\ UNCHANGED <<phase, user, hub, seq, reader, resume, frames, writer, dispatcher,
                       shutdown>>

-----------------------------------------------------------------------------
(* The endpoint: ServeHTTP up to Run.                                      *)

Accept(c) ==
    /\ phase[c] = "out"
    /\ stop = "up"
    /\ phase' = [phase EXCEPT ![c] = "handshake"]
    /\ UNCHANGED <<user, sock, closing, hub, channel, owed, reader, resume, frames,
                   writer, dispatcher, shutdown>>

\* No hello in time, or a token that AuthenticateClaims does not accept.
Reject(c) ==
    /\ phase[c] = "handshake"
    /\ phase' = [phase EXCEPT ![c] = "gone"]
    /\ sock' = [sock EXCEPT ![c] = "closed"]
    /\ UNCHANGED <<user, closing, hub, channel, owed, reader, resume, frames, writer,
                   dispatcher, shutdown>>

\* hub.register; it does not look at Hub.closed.
Register(c) ==
    /\ phase[c] = "handshake"
    /\ phase' = [phase EXCEPT ![c] = "registered"]
    /\ conns' = conns \cup {c}
    /\ byUser' = [byUser EXCEPT ![user[c]] = @ \cup {c}]
    /\ byConv' = [v \in Conv |-> IF v \in subscribed[c] THEN byConv[v] \cup {c} ELSE byConv[v]]
    /\ reader' = [reader EXCEPT ![c] = "greeting"]
    /\ UNCHANGED <<user, sock, closing, subscribed, channel, owed, resume, frames, writer,
                   dispatcher, shutdown>>

\* hello_ack, and Run once it is in the channel (or dropped).
Greet(c) ==
    /\ reader[c] = "greeting"
    /\ Stamp(c, c, Other)
    /\ reader' = [reader EXCEPT ![c] = "greeted"]
    /\ UNCHANGED <<phase, user, sock, closing, hub, resume, frames, writer,
                   dispatcher, shutdown>>

\* The head of readPump's loop.
NextFrame(c) == IF closing[c] THEN "exited" ELSE "reading"

Run(c) ==
    /\ reader[c] = "greeted"
    /\ held[c] = None
    /\ phase' = [phase EXCEPT ![c] = "running"]
    /\ reader' = [reader EXCEPT ![c] = NextFrame(c)]
    /\ writer' = [writer EXCEPT ![c] = "running"]
    /\ UNCHANGED <<user, sock, closing, hub, channel, owed, resume, frames, dispatcher,
                   shutdown>>

\* A faulty variant: Run waits for the write pump alone.
PumpsDone_Writer(c) == writer[c] = "exited"

PumpsDone(c) == reader[c] = "exited" /\ writer[c] = "exited"

\* hub.unregister, close(done), CloseNow.
Unregister(c) ==
    /\ phase[c] = "running"
    /\ PumpsDone(c)
    /\ phase' = [phase EXCEPT ![c] = "gone"]
    /\ conns' = conns \ {c}
    /\ byUser' = [byUser EXCEPT ![user[c]] = @ \ {c}]
    /\ byConv' = [v \in Conv |-> IF v \in subscribed[c] THEN byConv[v] \ {c} ELSE byConv[v]]
    /\ sock' = [sock EXCEPT ![c] = "closed"]
    /\ UNCHANGED <<user, closing, subscribed, channel, owed, reader, resume, frames,
                   writer, dispatcher, shutdown>>

-----------------------------------------------------------------------------
(* The read pump: one frame at a time, handled to its end.                 *)

\* A frame the client sends; a pump whose socket is closed reads none.
Reads(c) ==
    /\ reader[c] = "reading"
    /\ sock[c] = "open"
    /\ frames[c] < MaxFrames
    /\ frames' = [frames EXCEPT ![c] = @ + 1]

\* A subscribe: the membership is looked up first, then the hub told.
HandleSubscribe(c) ==
    /\ Reads(c)
    /\ reader' = [reader EXCEPT ![c] = "admitting"]
    /\ UNCHANGED <<phase, user, sock, closing, hub, channel, owed, resume, writer,
                   dispatcher, shutdown>>

Subscribe(c, v) ==
    /\ reader[c] = "admitting"
    /\ subscribed' = [subscribed EXCEPT ![c] = @ \cup {v}]
    /\ byConv' = [byConv EXCEPT ![v] = @ \cup {c}]
    /\ reader' = [reader EXCEPT ![c] = "replying"]
    /\ UNCHANGED <<phase, user, sock, closing, conns, byUser, channel, owed, resume, frames,
                   writer, dispatcher, shutdown>>

HandleUnsubscribe(c, v) ==
    /\ Reads(c)
    /\ subscribed' = [subscribed EXCEPT ![c] = @ \ {v}]
    /\ byConv' = [byConv EXCEPT ![v] = @ \ {c}]
    /\ owed' = [owed EXCEPT ![c] = {e \in @ : events[e] # v}]
    /\ reader' = [reader EXCEPT ![c] = "replying"]
    /\ UNCHANGED <<phase, user, sock, closing, conns, byUser, channel, resume,
                   writer, dispatcher, shutdown>>

\* Every other frame that ends in one reply: the calls of the chat service, a
\* denied subscribe, a rate-limited frame, a ping.  With sustained abuse the
\* socket is closed after the reply.
HandleCall(c) ==
    /\ Reads(c)
    /\ reader' \in {[reader EXCEPT ![c] = "replying"], [reader EXCEPT ![c] = "refusing"]}
    /\ UNCHANGED <<phase, user, sock, closing, hub, channel, owed, resume, writer,
                   dispatcher, shutdown>>

\* A frame that cannot be decoded, is of an unknown type or has bad data.
HandleGarbage(c) ==
    /\ Reads(c)
    /\ CloseWith(c)
    /\ reader' = [reader EXCEPT ![c] = "exited"]
    /\ UNCHANGED <<phase, user, sock, hub, channel, owed, resume, writer, dispatcher,
                   shutdown>>

Reply(c) ==
    /\ reader[c] \in {"replying", "refusing"}
    /\ Stamp(c, c, Other)
    /\ reader' = [reader EXCEPT ![c] = IF @ = "replying" THEN "replied" ELSE "refused"]
    /\ UNCHANGED <<phase, user, sock, closing, hub, resume, frames, writer,
                   dispatcher, shutdown>>

Handled(c) ==
    /\ reader[c] \in {"replied", "refused"}
    /\ held[c] = None
    /\ IF reader[c] = "replied"
         THEN /\ reader' = [reader EXCEPT ![c] = NextFrame(c)]
              /\ UNCHANGED closing
         ELSE /\ reader' = [reader EXCEPT ![c] = "exited"]
              /\ CloseWith(c)
    /\ UNCHANGED <<phase, user, sock, hub, channel, owed, resume, frames, writer,
                   dispatcher, shutdown>>

\* Every ring still reaches back to the cursor, and there is a ring.
CanReplay(last) ==
    /\ \E v \in Conv : ring[v] # <<>>
    /\ \A v \in Conv : ring[v] = <<>> \/ last + 1 >= Head(ring[v])

Buffered == UNION {{ring[v][i] : i \in DOMAIN ring[v]} : v \in Conv}

\* A faulty variant: the event after the cursor is taken for the one at it.
Since_FromNext(last) == {e \in Buffered : e > last + 1}

Since(last) == {e \in Buffered : e > last}

\* A resume of the bound session: CanReplay, or resume_rejected.
HandleResume(c, last) ==
    /\ Reads(c)
    /\ IF CanReplay(last)
         THEN /\ reader' = [reader EXCEPT ![c] = "resuming"]
              /\ cursor' = [cursor EXCEPT ![c] = last]
              /\ owed' = [owed EXCEPT ![c] = @ \cup
                           {e \in DOMAIN events : e > last /\ events[e] \in subscribed[c]}]
         ELSE /\ reader' = [reader EXCEPT ![c] = "replying"]
              /\ UNCHANGED <<cursor, owed>>
    /\ UNCHANGED <<phase, user, sock, closing, hub, channel, replay, writer, dispatcher,
                   shutdown>>

\* ReplaySince, and headGlobalSeq after it.
ReadReplay(c) ==
    /\ reader[c] = "resuming"
    /\ replay' = [replay EXCEPT ![c] = Since(cursor[c])]
    /\ cursor' = [cursor EXCEPT ![c] = 0]
    /\ reader' = [reader EXCEPT ![c] = "replaying"]
    /\ UNCHANGED <<phase, user, sock, closing, hub, channel, owed, frames, writer,
                   dispatcher, shutdown>>

\* sendResumeAck holds seqMu from its first seq to the channel.
SendResumeAck(c) ==
    LET last == seq[c] + 1 + Cardinality(replay[c])
    IN  /\ reader[c] = "replaying"
        /\ seq' = [seq EXCEPT ![c] = last]
        /\ Put(c, seq[c] + 1 .. last, replay[c]) \/ Overflow(c) \/ Abandon(c)
        /\ reader' = [reader EXCEPT ![c] = "replied"]
        /\ replay' = [replay EXCEPT ![c] = {}]
        /\ UNCHANGED <<phase, user, hub, held, newest, missed, cursor, frames, writer,
                       dispatcher, shutdown>>

\* ws.Read fails: the peer left, or the socket was dropped or closed.
ReadFails(c) ==
    /\ reader[c] = "reading"
    /\ sock[c] = "closed"
    /\ CloseWith(c)
    /\ reader' = [reader EXCEPT ![c] = "exited"]
    /\ UNCHANGED <<phase, user, sock, hub, channel, owed, resume, frames, writer,
                   dispatcher, shutdown>>

-----------------------------------------------------------------------------
(* The write pump.  Draining is writing on until the channel is empty.      *)

Write(c) ==
    /\ writer[c] = "running"
    /\ sock[c] = "open"
    /\ queued[c] > 0
    /\ queued' = [queued EXCEPT ![c] = @ - 1]
    /\ UNCHANGED <<phase, user, sock, closing, hub, seq, held, sent, newest, missed, owed, reader,
                   resume, frames, writer, dispatcher, shutdown>>

\* A faulty variant: the pump returns and leaves the socket alone.
DropAfterWrite_No(c) == UNCHANGED sock

DropAfterWrite(c) == sock' = [sock EXCEPT ![c] = "closed"]

\* A write fails, or times out on a peer that reads nothing: the pump drops the
\* socket, without a closeWith of its own.
WriteFails(c) ==
    /\ writer[c] = "running"
    /\ sock[c] # "open"
    /\ queued[c] > 0
    /\ queued' = [queued EXCEPT ![c] = @ - 1]
    /\ DropAfterWrite(c)
    /\ writer' = [writer EXCEPT ![c] = "exited"]
    /\ UNCHANGED <<phase, user, closing, hub, seq, held, sent, newest, missed, owed, reader,
                   resume, frames, dispatcher, shutdown>>

\* A ping without its pong.
HeartbeatLost(c) ==
    /\ writer[c] = "running"
    /\ sock[c] # "open"
    /\ CloseWith(c)
    /\ sock' = [sock EXCEPT ![c] = "closed"]
    /\ writer' = [writer EXCEPT ![c] = "exited"]
    /\ UNCHANGED <<phase, user, hub, channel, owed, reader, resume, frames, dispatcher,
                   shutdown>>

\* A close was requested and the channel is empty: gracefulClose.
Close(c) ==
    /\ writer[c] = "running"
    /\ closing[c]
    /\ queued[c] = 0
    /\ sock' = [sock EXCEPT ![c] = "closed"]
    /\ writer' = [writer EXCEPT ![c] = "exited"]
    /\ UNCHANGED <<phase, user, closing, hub, channel, owed, reader, resume, frames,
                   dispatcher, shutdown>>

-----------------------------------------------------------------------------
(* The dispatcher: one event at a time.                                    *)

\* replayBuffer.append: what is left of a ring, the expired and the oldest
\* events gone.
Kept(r) == {SubSeq(r, i, Len(r)) : i \in {j \in 1 .. Len(r) + 1 : Len(r) + 1 - j < RingMax}}

\* Has the fan-out of the last event ended?
Idle == audience = Nobody /\ targets = {} /\ held[Dispatcher] = None

\* The event goes into the ring of its conversation before anyone gets it.
Dispatch(to) ==
    LET v == to.conv
        e == Len(events) + 1
    IN  /\ Idle
        /\ e <= MaxEvents
        /\ events' = Append(events, v)
        /\ audience' = to
        /\ IF v = NoConv
             THEN UNCHANGED <<ring, owed>>
             ELSE \E kept \in Kept(ring[v]) :
                    LET gone == {ring[v][i] : i \in 1 .. Len(ring[v]) - Len(kept)}
                    IN  /\ ring' = [ring EXCEPT ![v] = Append(kept, e)]
                        /\ owed' = [c \in Conn |->
                             (IF reader[c] = "resuming" THEN owed[c] \ gone ELSE owed[c])
                               \cup {e : w \in subscribed[c] \cap {v}}]
        /\ UNCHANGED <<phase, user, sock, closing, hub, channel, reader, resume, frames,
                       writer, targets, shutdown>>

\* DeliverToConversation's snapshot of the subscribers.
ToConversation ==
    /\ audience.conv # NoConv
    /\ targets' = byConv[audience.conv]
    /\ audience' = [audience EXCEPT !.conv = NoConv]
    /\ UNCHANGED <<phase, user, sock, closing, hub, channel, owed, reader, resume, frames, writer,
                   events, ring, shutdown>>

\* DeliverToUser, for the event types that go to the affected users as well.
ToUsers ==
    /\ audience.conv = NoConv
    /\ audience.users # {}
    /\ targets = {}
    /\ held[Dispatcher] = None
    /\ targets' = UNION {byUser[u] : u \in audience.users}
    /\ audience' = Nobody
    /\ UNCHANGED <<phase, user, sock, closing, hub, channel, owed, reader, resume, frames, writer,
                   events, ring, shutdown>>

Deliver(c) ==
    /\ c \in targets
    /\ targets' = targets \ {c}
    /\ Stamp(Dispatcher, c, [kind |-> "live", event |-> Len(events)])
    /\ UNCHANGED <<phase, user, sock, closing, hub, reader, resume, frames, writer, events,
                   audience, ring, shutdown>>

-----------------------------------------------------------------------------
(* Force-closes, the shutdown of the process and what peers do.            *)

Fault == faults < MaxFaults /\ faults' = faults + 1

\* CloseSession or CloseUser: the registered connections it finds.
ForceClose(cs) ==
    /\ Fault
    /\ closing' = [c \in Conn |-> closing[c] \/ c \in cs]
    /\ UNCHANGED <<phase, user, sock, hub, channel, owed, reader, resume, frames, writer,
                   dispatcher, stop, stopping, snapshot>>

\* httpserver.Shutdown lets no new socket in, without waiting for the hijacked
\* ones; hub.Shutdown then lists the connections.
BeginShutdown ==
    /\ stop = "up"
    /\ stop' = "announcing"
    /\ stopping' = conns
    /\ snapshot' = conns
    /\ UNCHANGED <<phase, user, sock, closing, hub, channel, owed, reader, resume, frames, writer,
                   dispatcher, faults>>

Announce(c) ==
    /\ stop = "announcing"
    /\ c \in stopping
    /\ Stamp(Stopper, c, Other)
    /\ stopping' = stopping \ {c}
    /\ UNCHANGED <<phase, user, sock, closing, hub, reader, resume, frames, writer,
                   dispatcher, stop, snapshot, faults>>

\* The sockets of the snapshot.
CloseNow == sock' = [c \in Conn |-> IF c \in snapshot THEN "closed" ELSE sock[c]]

\* The connections are done or the drain deadline has passed: the ones that are
\* not done are closed, all of the snapshot lose their sockets, Shutdown returns
\* and the process ends.
FinishShutdown ==
    /\ stop = "announcing"
    /\ stopping = {}
    /\ held[Stopper] = None
    /\ stop' = "returned"
    /\ closing' = [c \in Conn |-> closing[c] \/ (c \in snapshot /\ phase[c] # "gone")]
    /\ CloseNow
    /\ UNCHANGED <<phase, user, hub, channel, owed, reader, resume, frames, writer, dispatcher,
                   stopping, snapshot, faults>>

PeerStalls(c) ==
    /\ Fault
    /\ phase[c] \in {"registered", "running"}
    /\ sock[c] = "open"
    /\ sock' = [sock EXCEPT ![c] = "stalled"]
    /\ UNCHANGED <<phase, user, closing, hub, channel, owed, reader, resume, frames,
                   writer, dispatcher, stop, stopping, snapshot>>

PeerLeaves(c) ==
    /\ Fault
    /\ phase[c] \in {"registered", "running"}
    /\ sock[c] # "closed"
    /\ sock' = [sock EXCEPT ![c] = "closed"]
    /\ UNCHANGED <<phase, user, closing, hub, channel, owed, reader, resume, frames,
                   writer, dispatcher, stop, stopping, snapshot>>

-----------------------------------------------------------------------------
\* What each goroutine does by itself, until the process ends; clients, peers
\* and operators are not made to act.
Alive == stop # "returned"

Endpoint(c) == Reject(c) \/ Register(c) \/ Greet(c) \/ Run(c) \/ Unregister(c)
ReadPump(c) ==
    \/ \E v \in Conv : Subscribe(c, v)
    \/ Reply(c) \/ Handled(c)
    \/ ReadReplay(c) \/ SendResumeAck(c)
    \/ ReadFails(c)

\* The endpoint's goroutine waits for the read pump: one runs at a time.
Reading(c) == Alive /\ (Endpoint(c) \/ ReadPump(c) \/ Enqueue(c))
Writing(c) ==
    Alive /\ (Write(c) \/ WriteFails(c) \/ HeartbeatLost(c) \/ Close(c))
Dispatching ==
    Alive /\ (ToConversation \/ ToUsers \/ Enqueue(Dispatcher) \/ \E c \in Conn : Deliver(c))
ShuttingDown ==
    Alive /\ (FinishShutdown \/ Enqueue(Stopper) \/ \E c \in Conn : Announce(c))

Client(c) ==
    \/ HandleSubscribe(c)
    \/ \E v \in Conv : HandleUnsubscribe(c, v)
    \/ HandleCall(c)
    \/ HandleGarbage(c)
    \/ \E last \in 0 .. Len(events) : HandleResume(c, last)

Environment ==
    /\ Alive
    /\ \/ \E c \in Conn : Accept(c) \/ Client(c) \/ PeerStalls(c) \/ PeerLeaves(c)
       \/ \E to \in Audience : Dispatch(to)
       \/ \E cs \in SUBSET conns \ {{}} : ForceClose(cs)
       \/ BeginShutdown

Next ==
    \/ \E c \in Conn : Reading(c) \/ Writing(c)
    \/ Dispatching
    \/ ShuttingDown
    \/ Environment

Spec == Init /\ [][Next]_vars

\* All that teardown needs: the connections' own goroutines run.
FairSpec == Spec /\ \A c \in Conn : WF_vars(Reading(c)) /\ WF_vars(Writing(c))

-----------------------------------------------------------------------------
Holders(c) == {s \in Sender : held[s] # None /\ held[s].conn = c}
HeldSeqs(c) == {held[s].seq : s \in Holders(c)}

\* The registry never routes to a connection that is not there: a connection is
\* in an index exactly while it is registered and, by conversation, subscribed,
\* whatever subscribes, unsubscribes and teardowns interleave (hub.go).
RegistryAgrees ==
    /\ \A c \in Conn : c \in conns <=> phase[c] \in {"registered", "running"}
    /\ \A u \in User : byUser[u] = {c \in conns : user[c] = u}
    /\ \A v \in Conv : byConv[v] = {c \in conns : v \in subscribed[c]}

\* A seq that a client finds missing is still on its way or the socket is being
\* closed: as long as no close was requested, every seq stamped on a connection
\* went into its channel or is in the hands of one sender (connection.go:151-191).
MissingSeqsAreInFlight ==
    \A c \in Conn : ~closing[c] =>
        /\ sent[c] \cup HeldSeqs(c) = 1 .. seq[c]
        /\ sent[c] \cap HeldSeqs(c) = {}

\* A slow consumer loses a suffix of its live feed and nothing else: after an
\* event that could not be enqueued no newer one is, so the cursor a client
\* resumes from never passes an event it did not get; and an event is lost only
\* on a connection that is being closed (connection.go:179-190).
LiveFeedLosesASuffix ==
    \A c \in Conn : missed[c] # 0 => closing[c] /\ newest[c] <= missed[c]

\* Between two frames and with no fan-out under way a subscriber has everything:
\* the events since it subscribed and, if it then resumed and was accepted, all
\* after its cursor, replayed or live; except what a ring dropped between
\* CanReplay and ReplaySince (handler.go:233-238, dispatcher.go:103-109).
HandoverIsWhole ==
    \A c \in conns : reader[c] = "reading" /\ ~closing[c] /\ Idle => owed[c] = {}

\* A connection that was asked to close, whose peer left or whose peer stopped
\* reading is torn down and leaves the registry, unless the process ends first
\* (connection.go:99-117).
DoomedConnectionsEnd ==
    \A c \in Conn :
        (c \in conns /\ (closing[c] \/ sock[c] # "open")) ~> (phase[c] = "gone" \/ ~Alive)
=============================================================================
