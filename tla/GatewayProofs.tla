--------------------------- MODULE GatewayProofs ---------------------------
(***************************************************************************)
(* Proofs about Gateway for every set of connections, conversations and    *)
(* users, every buffer and ring size and every number of events, frames    *)
(* and faults.                                                             *)
(*                                                                         *)
(* GatewayInv adds to the properties what makes them inductive: a          *)
(* connection's goroutine is where its place in the registry allows        *)
(* (PhasesAgree); two senders never hold one seq (SeqsApart); the          *)
(* dispatcher alone holds live frames, one event at a time (FeedInOrder);  *)
(* a conversation's ring is a suffix of its events (RingsReach); and what  *)
(* a subscriber is owed is in the fan-out, in what a resume will read or   *)
(* in what it has read (OwedCovered).                                      *)
(***************************************************************************)
EXTENDS Gateway, SequenceTheorems, FiniteSetTheorems, TLAPS

Phases == {"out", "handshake", "registered", "running", "gone"}
Serving == {"reading", "admitting", "replying", "refusing", "replied", "refused",
            "resuming", "replaying"}
Readers == Serving \cup {"none", "greeting", "greeted", "exited"}
Frames == [kind : {"other"}] \cup [kind : {"live"}, event : Nat]
Stamped == [conn : Conn, seq : Nat, frame : Frames]
Due == [conv : Conv \cup {NoConv}, users : SUBSET User]

ConnTypes ==
    /\ phase \in [Conn -> Phases]
    /\ user \in [Conn -> User]
    /\ sock \in [Conn -> {"open", "stalled", "closed"}]
    /\ closing \in [Conn -> BOOLEAN]
    /\ reader \in [Conn -> Readers]
    /\ frames \in [Conn -> Nat]
    /\ writer \in [Conn -> {"none", "running", "exited"}]

HubTypes ==
    /\ conns \in SUBSET Conn
    /\ byUser \in [User -> SUBSET Conn]
    /\ byConv \in [Conv -> SUBSET Conn]
    /\ subscribed \in [Conn -> SUBSET Conv]

ChannelTypes ==
    /\ seq \in [Conn -> Nat]
    /\ queued \in [Conn -> Nat]
    /\ held \in [Sender -> Stamped \cup {None}]
    /\ sent \in [Conn -> SUBSET Nat]
    /\ newest \in [Conn -> Nat]
    /\ missed \in [Conn -> Nat]

ReplayTypes ==
    /\ cursor \in [Conn -> Nat]
    /\ replay \in [Conn -> SUBSET (1 .. Len(events))]
    /\ owed \in [Conn -> SUBSET (1 .. Len(events))]

DispatcherTypes ==
    /\ events \in Seq(Conv \cup {NoConv})
    /\ audience \in Due
    /\ targets \in SUBSET Conn
    /\ ring \in [Conv -> Seq(Nat)]

ShutdownTypes ==
    /\ stop \in {"up", "announcing", "returned"}
    /\ stopping \in SUBSET Conn
    /\ snapshot \in SUBSET Conn
    /\ faults \in Nat

GatewayTypes ==
    /\ ConnTypes /\ HubTypes /\ ChannelTypes
    /\ ReplayTypes /\ DispatcherTypes /\ ShutdownTypes

\* The endpoint's goroutine is no further than the connection.
PhasesAgree ==
    \A c \in Conn :
        /\ phase[c] \in {"out", "handshake"} =>
             reader[c] = "none" /\ subscribed[c] = {} /\ owed[c] = {}
        /\ reader[c] \in {"greeting", "greeted"} => phase[c] = "registered"
        /\ reader[c] \in Serving => phase[c] = "running"

\* Two frames of a connection have two seqs.
SeqsApart ==
    \A s \in Sender : held[s] # None =>
        /\ held[s].seq \in 1 .. seq[held[s].conn]
        /\ \A t \in Sender \ {s} :
             held[t] # None /\ held[t].conn = held[s].conn => held[t].seq # held[s].seq

\* The events are delivered one after the other, by the dispatcher alone.
FeedInOrder ==
    /\ \A s \in Sender : held[s] # None =>
         /\ Live(held[s].frame) <=> s = Dispatcher
         /\ s = Dispatcher =>
              held[s].frame.event = Len(events) /\ missed[held[s].conn] = 0
    /\ \A c \in Conn : newest[c] <= Len(events) /\ missed[c] <= Len(events)
    /\ audience.conv # NoConv =>
         /\ targets = {} /\ held[Dispatcher] = None
         /\ Len(events) > 0 /\ events[Len(events)] = audience.conv

\* The ring of a conversation holds all its events from the first it holds on.
ReachesBack(r, v, es) ==
    /\ \A i \in 1 .. Len(r) : r[i] \in 1 .. Len(es) /\ \A j \in 1 .. i - 1 : r[j] < r[i]
    /\ \A e \in 1 .. Len(es) : es[e] = v =>
         Len(r) > 0 /\ (r[1] <= e => \E i \in 1 .. Len(r) : r[i] = e)

RingsReach == \A v \in Conv : ReachesBack(ring[v], v, events)

\* The event that the fan-out has still to take to the connection.
InFanOut(c) ==
    \/ audience.conv # NoConv /\ c \in byConv[audience.conv]
    \/ c \in targets
    \/ held[Dispatcher] # None /\ held[Dispatcher].conn = c
LiveDue(c) == IF InFanOut(c) THEN {Len(events)} ELSE {}

\* What the resume in progress has still to send.
ReplayDue(c) ==
    CASE reader[c] = "resuming"  -> Since(cursor[c])
      [] reader[c] = "replaying" -> replay[c]
      [] OTHER                   -> {}

OwedCovered ==
    \A c \in conns : ~closing[c] => owed[c] \subseteq LiveDue(c) \cup ReplayDue(c)

-----------------------------------------------------------------------------
(* The types.                                                              *)

LEMMA StampedIsFrame == ASSUME NEW h \in Stamped PROVE h # None
<1>1. PICK c \in Conn, n \in Nat, f \in Frames : h = [conn |-> c, seq |-> n, frame |-> f]
    BY DEF Stamped
<1>2. "seq" \in DOMAIN h /\ "seq" \notin DOMAIN None
    BY <1>1 DEF None
<1>3. QED BY <1>2

\* What a sender holds is a frame of a connection.
LEMMA HeldFrame ==
    ASSUME GatewayTypes, NEW s \in Sender, held[s] # None
    PROVE  /\ held[s] \in Stamped /\ held[s].conn \in Conn /\ held[s].seq \in Nat
           /\ held[s].frame \in Frames
           /\ Live(held[s].frame) => held[s].frame.event \in Nat
    BY DEF GatewayTypes, ChannelTypes, Stamped, Frames, Live

LEMMA OtherFrame == Other \in Frames /\ ~Live(Other)
    BY DEF Other, Frames, Live

\* The channel after a stamp.
LEMMA StampTypes ==
    ASSUME GatewayTypes, NEW s \in Sender, NEW c \in Conn, NEW f \in Frames, Stamp(s, c, f)
    PROVE  ChannelTypes' /\ owed' = owed
<1>1. [conn |-> c, seq |-> seq[c] + 1, frame |-> f] \in Stamped
    BY DEF GatewayTypes, ChannelTypes, Stamped
<1>2. /\ seq' \in [Conn -> Nat]
      /\ UNCHANGED <<queued, sent, newest, owed>>
    BY DEF GatewayTypes, ChannelTypes, Stamp
<1>3. missed' \in [Conn -> Nat]
    BY DEF GatewayTypes, ChannelTypes, Stamp, Miss, Frames, Live
<1>4. held' \in [Sender -> Stamped \cup {None}]
    <2> DEFINE h == [conn |-> c, seq |-> seq[c] + 1, frame |-> f]
    <2>1. UNCHANGED held \/ held' = [held EXCEPT ![s] = h]
        BY DEF Stamp
    <2>2. h \in Stamped
        BY <1>1
    <2> HIDE DEF h
    <2>3. QED BY <2>1, <2>2 DEF GatewayTypes, ChannelTypes
<1>5. QED BY <1>2, <1>3, <1>4 DEF GatewayTypes, ChannelTypes

\* What each action does to the connections themselves.
LEMMA ConnTypesStep == ASSUME GatewayTypes, Next PROVE ConnTypes'
<1> ConnTypes BY DEF GatewayTypes
<1> USE DEF ConnTypes, Readers, Serving, Phases, CloseWith, NextFrame
<1>1. ASSUME NEW c \in Conn, Accept(c) \/ Reject(c) \/ Register(c) \/ Greet(c) PROVE ConnTypes'
    BY <1>1 DEF Accept, Reject, Register, Greet
<1>2. ASSUME NEW c \in Conn, Run(c) \/ Unregister(c) PROVE ConnTypes'
    BY <1>2 DEF Run, Unregister
<1>3. ASSUME NEW c \in Conn, NEW v \in Conv, Subscribe(c, v) \/ HandleUnsubscribe(c, v)
      PROVE  ConnTypes'
    BY <1>3 DEF Subscribe, HandleUnsubscribe, Reads
<1>4. ASSUME NEW c \in Conn, HandleSubscribe(c) \/ HandleCall(c) \/ HandleGarbage(c)
      PROVE  ConnTypes'
    <2>1. CASE HandleCall(c)
        BY <2>1 DEF HandleCall, Reads
    <2>2. CASE HandleSubscribe(c)
        BY <2>2 DEF HandleSubscribe, Reads
    <2>3. CASE HandleGarbage(c)
        BY <2>3 DEF HandleGarbage, Reads
    <2>4. QED BY <1>4, <2>1, <2>2, <2>3
<1>5. ASSUME NEW c \in Conn, Reply(c) \/ Handled(c) \/ ReadFails(c) \/ ReadReplay(c)
      PROVE  ConnTypes'
    BY <1>5 DEF Reply, Handled, ReadFails, ReadReplay
<1>6. ASSUME NEW c \in Conn, NEW last \in 0 .. Len(events), HandleResume(c, last)
      PROVE  ConnTypes'
    <2>1. /\ \/ reader' = [reader EXCEPT ![c] = "resuming"]
             \/ reader' = [reader EXCEPT ![c] = "replying"]
          /\ frames[c] \in Nat /\ frames' = [frames EXCEPT ![c] = frames[c] + 1]
          /\ UNCHANGED <<phase, user, sock, closing, writer>>
        BY <1>6 DEF HandleResume, Reads
    <2>2. reader' \in [Conn -> Readers]
        BY <2>1
    <2>3. frames' \in [Conn -> Nat]
        BY <2>1
    <2>4. QED BY <2>1, <2>2, <2>3
<1>7. ASSUME NEW c \in Conn, SendResumeAck(c) PROVE ConnTypes'
    BY <1>7 DEF SendResumeAck, Put, Overflow, Abandon
<1>8. ASSUME NEW c \in Conn, Write(c) \/ WriteFails(c) \/ HeartbeatLost(c) \/ Close(c)
      PROVE  ConnTypes'
    BY <1>8 DEF Write, WriteFails, DropAfterWrite, HeartbeatLost, Close
<1>9. ASSUME NEW s \in Sender, Enqueue(s) PROVE ConnTypes'
    BY <1>9 DEF Enqueue, Put, Overflow, Abandon
<1>10. ASSUME NEW c \in Conn, Deliver(c) \/ Announce(c) \/ PeerStalls(c) \/ PeerLeaves(c)
       PROVE  ConnTypes'
    BY <1>10 DEF Deliver, Announce, PeerStalls, PeerLeaves
<1>11. ASSUME NEW cs \in SUBSET conns, ForceClose(cs) PROVE ConnTypes'
    BY <1>11 DEF ForceClose
<1>12. CASE FinishShutdown
    BY <1>12 DEF FinishShutdown, CloseNow
<1>13. CASE ToConversation \/ ToUsers \/ BeginShutdown \/ \E to \in Audience : Dispatch(to)
    BY <1>13 DEF ToConversation, ToUsers, BeginShutdown, Dispatch
<1>14. QED
    BY <1>1, <1>2, <1>3, <1>4, <1>5, <1>6, <1>7, <1>8, <1>9, <1>10, <1>11, <1>12, <1>13
    DEF Next, Reading, Writing, Dispatching, ShuttingDown, Environment, Endpoint, ReadPump, Client, Sender

\* The actions that write the registry, and the connections' places in it.
LEMMA HubWriters ==
    ASSUME Next
    PROVE  \/ UNCHANGED <<phase, user, hub>>
           \/ \E c \in Conn :
                \/ Accept(c) \/ Reject(c) \/ Register(c) \/ Run(c) \/ Unregister(c)
                \/ \E v \in Conv : Subscribe(c, v) \/ HandleUnsubscribe(c, v)
<1>1. ASSUME NEW c \in Conn,
             \/ Greet(c) \/ Reply(c) \/ Handled(c) \/ ReadReplay(c) \/ SendResumeAck(c)
             \/ ReadFails(c)
      PROVE  UNCHANGED <<phase, user, hub>>
    BY <1>1 DEF Greet, Reply, Handled, ReadReplay, SendResumeAck, ReadFails
<1>2. ASSUME NEW c \in Conn,
             \/ HandleSubscribe(c) \/ HandleCall(c) \/ HandleGarbage(c)
             \/ \E last \in 0 .. Len(events) : HandleResume(c, last)
      PROVE  UNCHANGED <<phase, user, hub>>
    BY <1>2 DEF HandleSubscribe, HandleCall, HandleGarbage, HandleResume
<1>3. ASSUME NEW c \in Conn,
             \/ Write(c) \/ WriteFails(c) \/ HeartbeatLost(c) \/ Close(c)
             \/ Deliver(c) \/ Announce(c) \/ PeerStalls(c) \/ PeerLeaves(c)
      PROVE  UNCHANGED <<phase, user, hub>>
    BY <1>3 DEF Write, WriteFails, HeartbeatLost, Close, Deliver, Announce, PeerStalls, PeerLeaves
<1>4. ASSUME NEW s \in Sender, Enqueue(s) PROVE UNCHANGED <<phase, user, hub>>
    BY <1>4 DEF Enqueue
<1>5. ASSUME \/ ToConversation \/ ToUsers \/ BeginShutdown \/ FinishShutdown
             \/ \E to \in Audience : Dispatch(to)
             \/ \E cs \in SUBSET conns : ForceClose(cs)
      PROVE  UNCHANGED <<phase, user, hub>>
    BY <1>5 DEF ToConversation, ToUsers, BeginShutdown, FinishShutdown, Dispatch, ForceClose
<1>6. QED
    BY <1>1, <1>2, <1>3, <1>4, <1>5
    DEF Next, Reading, Writing, Dispatching, ShuttingDown, Environment, Endpoint, ReadPump, Client, Sender

LEMMA HubTypesStep == ASSUME GatewayTypes, Next PROVE HubTypes'
<1> ConnTypes /\ HubTypes BY DEF GatewayTypes
<1> USE DEF HubTypes
<1>1. CASE UNCHANGED <<phase, user, hub>>
    BY <1>1 DEF hub
<1>2. ASSUME NEW c \in Conn, Accept(c) \/ Reject(c) \/ Register(c) \/ Run(c) \/ Unregister(c)
      PROVE  HubTypes'
    BY <1>2 DEF ConnTypes, Accept, Reject, Register, Run, Unregister, hub
<1>3. ASSUME NEW c \in Conn, NEW v \in Conv, Subscribe(c, v) \/ HandleUnsubscribe(c, v)
      PROVE  HubTypes'
    BY <1>3 DEF Subscribe, HandleUnsubscribe
<1>4. QED BY <1>1, <1>2, <1>3, HubWriters

\* The actions that write the channels: who stamps, who enqueues, who writes out.
LEMMA ChannelWriters ==
    ASSUME Next
    PROVE  \/ UNCHANGED channel
           \/ \E c \in Conn : Stamp(c, c, Other) \/ Stamp(Stopper, c, Other) \/ Deliver(c)
           \/ \E s \in Sender : Enqueue(s)
           \/ \E c \in Conn : SendResumeAck(c) \/ Write(c) \/ WriteFails(c)
<1>1. ASSUME NEW c \in Conn, Greet(c) \/ Reply(c) PROVE Stamp(c, c, Other)
    BY <1>1 DEF Greet, Reply
<1>2. ASSUME NEW c \in Conn, Announce(c) PROVE Stamp(Stopper, c, Other)
    BY <1>2 DEF Announce
<1>3. ASSUME NEW c \in Conn,
             \/ Accept(c) \/ Reject(c) \/ Register(c) \/ Run(c) \/ Unregister(c)
             \/ \E v \in Conv : Subscribe(c, v) \/ HandleUnsubscribe(c, v)
             \/ Handled(c) \/ ReadReplay(c) \/ ReadFails(c)
      PROVE  UNCHANGED channel
    BY <1>3 DEF Accept, Reject, Register, Run, Unregister, Subscribe, HandleUnsubscribe, Handled,
       ReadReplay, ReadFails
<1>4. ASSUME NEW c \in Conn,
             \/ HandleSubscribe(c) \/ HandleCall(c) \/ HandleGarbage(c)
             \/ \E last \in 0 .. Len(events) : HandleResume(c, last)
             \/ HeartbeatLost(c) \/ Close(c) \/ PeerStalls(c) \/ PeerLeaves(c)
      PROVE  UNCHANGED channel
    BY <1>4 DEF HandleSubscribe, HandleCall, HandleGarbage, HandleResume, HeartbeatLost, Close,
       PeerStalls, PeerLeaves
<1>5. ASSUME \/ ToConversation \/ ToUsers \/ BeginShutdown \/ FinishShutdown
             \/ \E to \in Audience : Dispatch(to)
             \/ \E cs \in SUBSET conns : ForceClose(cs)
      PROVE  UNCHANGED channel
    BY <1>5 DEF ToConversation, ToUsers, BeginShutdown, FinishShutdown, Dispatch, ForceClose
<1>6. QED
    BY <1>1, <1>2, <1>3, <1>4, <1>5
    DEF Next, Reading, Writing, Dispatching, ShuttingDown, Environment, Endpoint, ReadPump, Client, Sender

\* The frame that Deliver stamps.
Newest == [kind |-> "live", event |-> Len(events)]

LEMMA DeliverStamps ==
    ASSUME DispatcherTypes, NEW c \in Conn, Deliver(c)
    PROVE  Stamp(Dispatcher, c, Newest) /\ Newest \in Frames /\ Live(Newest)
    BY DEF DispatcherTypes, Deliver, Newest, Frames, Live

LEMMA ChannelTypesStep == ASSUME GatewayTypes, Next PROVE ChannelTypes'
<1> ChannelTypes /\ DispatcherTypes /\ ReplayTypes /\ Conn \subseteq Sender
    BY DEF GatewayTypes, Sender
<1>1. CASE UNCHANGED channel
    BY <1>1 DEF ChannelTypes, channel
<1>2. ASSUME NEW c \in Conn, Stamp(c, c, Other) \/ Stamp(Stopper, c, Other) \/ Deliver(c)
      PROVE  ChannelTypes'
    BY <1>2, StampTypes, DeliverStamps, OtherFrame DEF Sender
<1>3. ASSUME NEW s \in Sender, Enqueue(s) PROVE ChannelTypes'
    BY <1>3, HeldFrame DEF ChannelTypes, Enqueue, Put, Overflow, Abandon, Miss
<1>4. ASSUME NEW c \in Conn, SendResumeAck(c) PROVE ChannelTypes'
    <2>1. Cardinality(replay[c]) \in Nat
        <3>1. IsFiniteSet(1 .. Len(events)) /\ replay[c] \subseteq 1 .. Len(events)
            BY FS_Interval DEF ReplayTypes, DispatcherTypes
        <3>2. QED BY <3>1, FS_Subset, FS_CardinalityType
    <2>2. UNCHANGED <<held, newest, missed>> /\ seq' \in [Conn -> Nat]
        BY <1>4, <2>1 DEF ChannelTypes, SendResumeAck
    <2>3. queued' \in [Conn -> Nat] /\ sent' \in [Conn -> SUBSET Nat]
        BY <1>4, <2>1 DEF ChannelTypes, SendResumeAck, Put, Overflow, Abandon
    <2>4. QED BY <2>2, <2>3 DEF ChannelTypes
<1>5. ASSUME NEW c \in Conn, Write(c) \/ WriteFails(c) PROVE ChannelTypes'
    BY <1>5 DEF ChannelTypes, Write, WriteFails
<1>6. QED BY <1>1, <1>2, <1>3, <1>4, <1>5, ChannelWriters
\* The actions that write the dispatcher's state.
LEMMA DispatcherWriters ==
    ASSUME Next
    PROVE  \/ UNCHANGED dispatcher
           \/ \E to \in Audience : Dispatch(to)
           \/ ToConversation \/ ToUsers
           \/ \E c \in Conn : Deliver(c)
<1>1. ASSUME NEW c \in Conn,
             \/ Accept(c) \/ Reject(c) \/ Register(c) \/ Greet(c) \/ Run(c) \/ Unregister(c)
             \/ \E v \in Conv : Subscribe(c, v) \/ HandleUnsubscribe(c, v)
             \/ Reply(c) \/ Handled(c) \/ ReadReplay(c) \/ SendResumeAck(c) \/ ReadFails(c)
      PROVE  UNCHANGED dispatcher
    BY <1>1 DEF Accept, Reject, Register, Greet, Run, Unregister, Subscribe, HandleUnsubscribe,
       Reply, Handled, ReadReplay, SendResumeAck, ReadFails
<1>2. ASSUME NEW c \in Conn,
             \/ HandleSubscribe(c) \/ HandleCall(c) \/ HandleGarbage(c)
             \/ \E last \in 0 .. Len(events) : HandleResume(c, last)
             \/ Write(c) \/ WriteFails(c) \/ HeartbeatLost(c) \/ Close(c)
             \/ Announce(c) \/ PeerStalls(c) \/ PeerLeaves(c)
      PROVE  UNCHANGED dispatcher
    BY <1>2 DEF HandleSubscribe, HandleCall, HandleGarbage, HandleResume, Write, WriteFails,
       HeartbeatLost, Close, Announce, PeerStalls, PeerLeaves
<1>3. ASSUME \/ \E s \in Sender : Enqueue(s)
             \/ BeginShutdown \/ FinishShutdown \/ \E cs \in SUBSET conns : ForceClose(cs)
      PROVE  UNCHANGED dispatcher
    BY <1>3 DEF Enqueue, BeginShutdown, FinishShutdown, ForceClose
<1>4. QED
    BY <1>1, <1>2, <1>3
    DEF Next, Reading, Writing, Dispatching, ShuttingDown, Environment, Endpoint, ReadPump, Client, Sender

\* A dispatched event is appended to the events and to what is kept of its ring.
LEMMA DispatchFacts ==
    ASSUME GatewayTypes, NEW to \in Audience, Dispatch(to)
    PROVE  LET e == Len(events) + 1 IN
           /\ Idle /\ audience' = to /\ UNCHANGED targets
           /\ to \in Due
           /\ events' = Append(events, to.conv)
           /\ Len(events') = e /\ events'[e] = to.conv
           /\ \A i \in 1 .. Len(events) : events'[i] = events[i]
           /\ events' \in Seq(Conv \cup {NoConv})
<1>1. to \in Due /\ to.conv \in Conv \cup {NoConv}
    BY AudienceAssumption DEF Due
<1>2. Idle /\ audience' = to /\ UNCHANGED targets /\ events' = Append(events, to.conv)
    BY DEF Dispatch
<1>3. QED
    BY <1>1, <1>2, AppendProperties DEF GatewayTypes, DispatcherTypes

\* What is kept of a ring is a suffix of it.
LEMMA KeptIsSuffix ==
    ASSUME NEW r \in Seq(Nat), NEW kept \in Kept(r)
    PROVE  \E i \in 1 .. Len(r) + 1 :
              /\ kept = SubSeq(r, i, Len(r)) /\ kept \in Seq(Nat)
              /\ Len(kept) = Len(r) + 1 - i
              /\ \A j \in 1 .. Len(kept) : kept[j] = r[i + j - 1]
<1>1. PICK i \in 1 .. Len(r) + 1 : kept = SubSeq(r, i, Len(r))
    BY DEF Kept
<1>2. /\ SubSeq(r, i, Len(r)) \in Seq(Nat)
      /\ Len(SubSeq(r, i, Len(r))) = IF i <= Len(r) THEN Len(r) - i + 1 ELSE 0
      /\ \A j \in 1 .. Len(r) - i + 1 : SubSeq(r, i, Len(r))[j] = r[i + j - 1]
    <2>1. \A j \in i .. Len(r) : r[j] \in Nat
        OBVIOUS
    <2>2. i \in Int /\ Len(r) \in Int
        OBVIOUS
    <2>3. QED BY <2>1, <2>2, SubSeqProperties
<1>3. Len(kept) = Len(r) + 1 - i
    BY <1>1, <1>2
<1>4. QED BY <1>1, <1>2, <1>3

LEMMA DispatcherTypesStep == ASSUME GatewayTypes, Next PROVE DispatcherTypes'
<1> DispatcherTypes /\ HubTypes BY DEF GatewayTypes
<1>1. CASE UNCHANGED dispatcher
    BY <1>1 DEF DispatcherTypes, dispatcher
<1>2. ASSUME NEW to \in Audience, Dispatch(to) PROVE DispatcherTypes'
    <2>1. ring' \in [Conv -> Seq(Nat)]
        <3>1. CASE to.conv = NoConv
            BY <1>2, <3>1 DEF Dispatch, DispatcherTypes
        <3>2. CASE to.conv # NoConv
            <4>1. PICK kept \in Kept(ring[to.conv]) :
                     ring' = [ring EXCEPT ![to.conv] = Append(kept, Len(events) + 1)]
                BY <1>2, <3>2 DEF Dispatch
            <4>2. to.conv \in Conv
                BY <1>2, <3>2, DispatchFacts DEF Due
            <4>3. kept \in Seq(Nat) /\ Len(events) + 1 \in Nat
                BY <4>2, KeptIsSuffix DEF DispatcherTypes
            <4>4. Append(kept, Len(events) + 1) \in Seq(Nat)
                BY <4>3, AppendProperties
            <4>5. QED BY <4>1, <4>4 DEF DispatcherTypes
        <3>3. QED BY <3>1, <3>2
    <2>2. QED BY <1>2, <2>1, DispatchFacts DEF DispatcherTypes
<1>3. CASE ToConversation \/ ToUsers
    <2>1. UNCHANGED <<events, ring>>
        BY <1>3 DEF ToConversation, ToUsers
    <2>2. audience' \in Due
        BY <1>3 DEF ToConversation, ToUsers, DispatcherTypes, Due, Nobody
    <2>3. targets' \in SUBSET Conn
        BY <1>3 DEF ToConversation, ToUsers, DispatcherTypes, Due, HubTypes
    <2>4. QED BY <2>1, <2>2, <2>3 DEF DispatcherTypes
<1>4. ASSUME NEW c \in Conn, Deliver(c) PROVE DispatcherTypes'
    BY <1>4 DEF Deliver, DispatcherTypes
<1>5. QED BY <1>1, <1>2, <1>3, <1>4, DispatcherWriters
\* The actions that write what subscribers are owed and what resumes hold.
LEMMA ReplayWriters ==
    ASSUME Next
    PROVE  \/ UNCHANGED <<resume, owed>>
           \/ \E to \in Audience : Dispatch(to)
           \/ \E s \in Sender : Enqueue(s)
           \/ \E c \in Conn :
                \/ \E v \in Conv : HandleUnsubscribe(c, v)
                \/ \E last \in 0 .. Len(events) : HandleResume(c, last)
                \/ ReadReplay(c) \/ SendResumeAck(c)
<1>1. ASSUME NEW c \in Conn,
             \/ Accept(c) \/ Reject(c) \/ Register(c) \/ Run(c) \/ Unregister(c)
             \/ \E v \in Conv : Subscribe(c, v)
             \/ Handled(c) \/ ReadFails(c)
             \/ HandleSubscribe(c) \/ HandleCall(c) \/ HandleGarbage(c)
      PROVE  UNCHANGED <<resume, owed>>
    BY <1>1 DEF Accept, Reject, Register, Run, Unregister, Subscribe, Handled, ReadFails,
       HandleSubscribe, HandleCall, HandleGarbage
<1>2. ASSUME NEW c \in Conn,
             \/ Write(c) \/ WriteFails(c) \/ HeartbeatLost(c) \/ Close(c)
             \/ PeerStalls(c) \/ PeerLeaves(c)
             \/ Greet(c) \/ Reply(c) \/ Deliver(c) \/ Announce(c)
      PROVE  UNCHANGED <<resume, owed>>
    BY <1>2 DEF Write, WriteFails, HeartbeatLost, Close, PeerStalls, PeerLeaves, Greet, Reply,
       Deliver, Announce, Stamp
<1>3. ASSUME \/ ToConversation \/ ToUsers \/ BeginShutdown \/ FinishShutdown
             \/ \E cs \in SUBSET conns : ForceClose(cs)
      PROVE  UNCHANGED <<resume, owed>>
    BY <1>3 DEF ToConversation, ToUsers, BeginShutdown, FinishShutdown, ForceClose
<1>4. QED
    BY <1>1, <1>2, <1>3
    DEF Next, Reading, Writing, Dispatching, ShuttingDown, Environment, Endpoint, ReadPump, Client, Sender

\* Only a dispatch adds an event.
LEMMA EventsGrow ==
    ASSUME GatewayTypes, Next
    PROVE  /\ Len(events) \in Nat /\ Len(events') \in Nat /\ Len(events) <= Len(events')
           /\ events' = events \/ \E to \in Audience : Dispatch(to)
<1>1. CASE UNCHANGED dispatcher
    BY <1>1 DEF GatewayTypes, DispatcherTypes, dispatcher
<1>2. CASE \E to \in Audience : Dispatch(to)
    BY <1>2, DispatchFacts DEF GatewayTypes, DispatcherTypes
<1>3. CASE ToConversation \/ ToUsers \/ \E c \in Conn : Deliver(c)
    BY <1>3 DEF GatewayTypes, DispatcherTypes, ToConversation, ToUsers, Deliver
<1>4. QED BY <1>1, <1>2, <1>3, DispatcherWriters

LEMMA BufferedEvents ==
    ASSUME GatewayTypes, RingsReach, NEW last \in Nat
    PROVE  Since(last) \subseteq 1 .. Len(events)
BY DEF GatewayTypes, DispatcherTypes, RingsReach, ReachesBack, Since, Buffered

LEMMA ReplayTypesStep == ASSUME GatewayTypes, RingsReach, Next PROVE ReplayTypes'
<1> ReplayTypes BY DEF GatewayTypes
<1>1. /\ Len(events) \in Nat /\ Len(events') \in Nat
      /\ 1 .. Len(events) \subseteq 1 .. Len(events')
    BY EventsGrow
<1>2. SUFFICES ASSUME ~\E to \in Audience : Dispatch(to), events' = events PROVE ReplayTypes'
    <2>1. ASSUME NEW to \in Audience, Dispatch(to) PROVE ReplayTypes'
        <3>1. UNCHANGED <<cursor, replay>>
            BY <2>1 DEF Dispatch, resume
        <3>2. owed' \in [Conn -> SUBSET (1 .. Len(events'))]
            <4>1. CASE to.conv = NoConv
                BY <1>1, <2>1, <4>1 DEF Dispatch, ReplayTypes
            <4>2. CASE to.conv # NoConv
                <5>1. Len(events) + 1 \in 1 .. Len(events')
                    BY <2>1, <1>1, DispatchFacts
                <5>2. PICK gone :
                        owed' = [c \in Conn |->
                             (IF reader[c] = "resuming" THEN owed[c] \ gone ELSE owed[c])
                               \cup {Len(events) + 1 : w \in subscribed[c] \cap {to.conv}}]
                    BY <2>1, <4>2 DEF Dispatch
                <5>3. QED BY <1>1, <5>1, <5>2 DEF ReplayTypes
            <4>3. QED BY <4>1, <4>2
        <3>3. QED BY <1>1, <3>1, <3>2 DEF ReplayTypes
    <2>2. QED BY <2>1, EventsGrow
<1>3. CASE UNCHANGED <<resume, owed>>
    BY <1>2, <1>3 DEF ReplayTypes, resume
<1>4. ASSUME NEW s \in Sender, Enqueue(s) PROVE ReplayTypes'
    BY <1>2, <1>4 DEF ReplayTypes, Enqueue, Put, Overflow, Abandon, resume
<1>5. ASSUME NEW c \in Conn, NEW v \in Conv, HandleUnsubscribe(c, v) PROVE ReplayTypes'
    BY <1>2, <1>5 DEF ReplayTypes, HandleUnsubscribe, resume
<1>6. ASSUME NEW c \in Conn, NEW last \in 0 .. Len(events), HandleResume(c, last)
      PROVE  ReplayTypes'
    <2>1. {e \in DOMAIN events : e > last /\ events[e] \in subscribed[c]} \subseteq 1 .. Len(events)
        BY DEF GatewayTypes, DispatcherTypes
    <2>2. owed' \in [Conn -> SUBSET (1 .. Len(events))]
        BY <1>6, <2>1 DEF ReplayTypes, HandleResume
    <2>3. cursor' \in [Conn -> Nat] /\ replay' = replay
        BY <1>6 DEF ReplayTypes, HandleResume
    <2>4. QED BY <1>2, <2>2, <2>3 DEF ReplayTypes
<1>7. ASSUME NEW c \in Conn, ReadReplay(c) PROVE ReplayTypes'
    <2>1. Since(cursor[c]) \subseteq 1 .. Len(events)
        BY BufferedEvents DEF ReplayTypes
    <2>2. QED BY <1>2, <1>7, <2>1 DEF ReplayTypes, ReadReplay
<1>8. ASSUME NEW c \in Conn, SendResumeAck(c) PROVE ReplayTypes'
    <2>1. owed' \in [Conn -> SUBSET (1 .. Len(events))]
        BY <1>8 DEF ReplayTypes, SendResumeAck, Put, Overflow, Abandon
    <2>2. QED BY <1>2, <1>8, <2>1 DEF ReplayTypes, SendResumeAck
<1>9. QED BY <1>2, <1>3, <1>4, <1>5, <1>6, <1>7, <1>8, ReplayWriters

LEMMA ShutdownWriters ==
    ASSUME Next
    PROVE  \/ UNCHANGED shutdown
           \/ \E cs \in SUBSET conns : ForceClose(cs)
           \/ BeginShutdown \/ FinishShutdown
           \/ \E c \in Conn : Announce(c) \/ PeerStalls(c) \/ PeerLeaves(c)
<1>1. ASSUME NEW c \in Conn,
             \/ Accept(c) \/ Reject(c) \/ Register(c) \/ Greet(c) \/ Run(c) \/ Unregister(c)
             \/ \E v \in Conv : Subscribe(c, v) \/ HandleUnsubscribe(c, v)
             \/ Reply(c) \/ Handled(c) \/ ReadReplay(c) \/ SendResumeAck(c) \/ ReadFails(c)
      PROVE  UNCHANGED shutdown
    BY <1>1 DEF Accept, Reject, Register, Greet, Run, Unregister, Subscribe, HandleUnsubscribe,
       Reply, Handled, ReadReplay, SendResumeAck, ReadFails
<1>2. ASSUME NEW c \in Conn,
             \/ HandleSubscribe(c) \/ HandleCall(c) \/ HandleGarbage(c)
             \/ \E last \in 0 .. Len(events) : HandleResume(c, last)
             \/ Write(c) \/ WriteFails(c) \/ HeartbeatLost(c) \/ Close(c) \/ Deliver(c)
      PROVE  UNCHANGED shutdown
    BY <1>2 DEF HandleSubscribe, HandleCall, HandleGarbage, HandleResume, Write, WriteFails,
       HeartbeatLost, Close, Deliver
<1>3. ASSUME \/ \E s \in Sender : Enqueue(s)
             \/ ToConversation \/ ToUsers \/ \E to \in Audience : Dispatch(to)
      PROVE  UNCHANGED shutdown
    BY <1>3 DEF Enqueue, ToConversation, ToUsers, Dispatch
<1>4. QED
    BY <1>1, <1>2, <1>3
    DEF Next, Reading, Writing, Dispatching, ShuttingDown, Environment, Endpoint, ReadPump, Client, Sender

LEMMA ShutdownTypesStep == ASSUME GatewayTypes, Next PROVE ShutdownTypes'
<1> ShutdownTypes /\ HubTypes BY DEF GatewayTypes
<1>1. CASE UNCHANGED shutdown
    BY <1>1 DEF ShutdownTypes, shutdown
<1>2. CASE \/ \E cs \in SUBSET conns : ForceClose(cs)
           \/ \E c \in Conn : PeerStalls(c) \/ PeerLeaves(c)
    BY <1>2 DEF ShutdownTypes, ForceClose, PeerStalls, PeerLeaves, Fault
<1>3. CASE BeginShutdown \/ FinishShutdown \/ \E c \in Conn : Announce(c)
    BY <1>3 DEF ShutdownTypes, HubTypes, BeginShutdown, FinishShutdown, Announce
<1>4. QED BY <1>1, <1>2, <1>3, ShutdownWriters

LEMMA TypesStep == ASSUME GatewayTypes, RingsReach, Next PROVE GatewayTypes'
BY ConnTypesStep, HubTypesStep, ChannelTypesStep, ReplayTypesStep, DispatcherTypesStep,
   ShutdownTypesStep DEF GatewayTypes
-----------------------------------------------------------------------------
(* The registry.                                                           *)

LEMMA PhasesStep == ASSUME GatewayTypes, PhasesAgree, Next PROVE PhasesAgree'
<1> ConnTypes /\ HubTypes /\ ReplayTypes BY DEF GatewayTypes
<1> USE DEF PhasesAgree, Serving, hub
<1>1. CASE UNCHANGED <<phase, reader, subscribed, owed>>
    BY <1>1
<1>2. ASSUME NEW c \in Conn, Accept(c) \/ Reject(c) \/ Register(c) \/ Unregister(c)
      PROVE  PhasesAgree'
    <2>1. UNCHANGED <<subscribed, owed>> /\ \A d \in Conn \ {c} : UNCHANGED <<phase[d], reader[d]>>
        BY <1>2 DEF ConnTypes, Accept, Reject, Register, Unregister
    <2>2. \/ /\ phase[c] = "out" /\ phase'[c] = "handshake" /\ reader'[c] = reader[c]
          \/ /\ phase[c] = "handshake" /\ phase'[c] = "gone" /\ reader'[c] = reader[c]
          \/ /\ phase[c] = "handshake" /\ phase'[c] = "registered" /\ reader'[c] = "greeting"
          \/ /\ phase'[c] = "gone" /\ reader'[c] = reader[c] /\ reader[c] = "exited"
        BY <1>2 DEF ConnTypes, Accept, Reject, Register, Unregister, PumpsDone
    <2>3. QED BY <2>1, <2>2
<1>3. ASSUME NEW c \in Conn, Greet(c) \/ Run(c) PROVE PhasesAgree'
    BY <1>3 DEF ConnTypes, Greet, Run, NextFrame, Stamp
<1>4. ASSUME NEW c \in Conn, NEW v \in Conv, Subscribe(c, v) \/ HandleUnsubscribe(c, v)
      PROVE  PhasesAgree'
    BY <1>4 DEF ConnTypes, ReplayTypes, HubTypes, Subscribe, HandleUnsubscribe, Reads
<1>5. ASSUME NEW c \in Conn, HandleSubscribe(c) \/ HandleGarbage(c) \/ HandleCall(c)
      PROVE  PhasesAgree'
    BY <1>5 DEF ConnTypes, HandleSubscribe, HandleGarbage, HandleCall, Reads
<1>6. ASSUME NEW c \in Conn, Reply(c) \/ Handled(c) \/ ReadReplay(c) \/ ReadFails(c)
      PROVE  PhasesAgree'
    BY <1>6 DEF ConnTypes, Reply, Handled, NextFrame, ReadReplay, ReadFails, Stamp
<1>7. ASSUME NEW c \in Conn, NEW last \in 0 .. Len(events), HandleResume(c, last)
      PROVE  PhasesAgree'
    BY <1>7 DEF ConnTypes, ReplayTypes, HandleResume, Reads
<1>8. ASSUME NEW c \in Conn, SendResumeAck(c) PROVE PhasesAgree'
    BY <1>8 DEF ConnTypes, ReplayTypes, SendResumeAck, Put, Overflow, Abandon
<1>9. ASSUME NEW s \in Sender, Enqueue(s) PROVE PhasesAgree'
    <2>1. UNCHANGED <<phase, reader, subscribed>>
        BY <1>9 DEF Enqueue
    <2>2. \A c \in Conn : owed'[c] \subseteq owed[c]
        BY <1>9 DEF ReplayTypes, Enqueue, Put, Overflow, Abandon
    <2>3. QED BY <2>1, <2>2
<1>10. ASSUME NEW to \in Audience, Dispatch(to) PROVE PhasesAgree'
    BY <1>10 DEF ReplayTypes, Dispatch
<1>11. CASE \/ ToConversation \/ ToUsers \/ BeginShutdown \/ FinishShutdown
            \/ \E cs \in SUBSET conns : ForceClose(cs)
            \/ \E c \in Conn :
                 \/ Write(c) \/ WriteFails(c) \/ HeartbeatLost(c) \/ Close(c)
                 \/ Deliver(c) \/ Announce(c) \/ PeerStalls(c) \/ PeerLeaves(c)
    <2>1. UNCHANGED <<phase, reader, subscribed, owed>>
        BY <1>11 DEF ToConversation, ToUsers, BeginShutdown, FinishShutdown, ForceClose, Write,
           WriteFails, HeartbeatLost, Close, Deliver, Announce, PeerStalls, PeerLeaves, Stamp
    <2>2. QED BY <2>1, <1>1
<1>12. QED
    BY <1>2, <1>3, <1>4, <1>5, <1>6, <1>7, <1>8, <1>9, <1>10, <1>11
    DEF Next, Reading, Writing, Dispatching, ShuttingDown, Environment, Endpoint, ReadPump, Client, Sender

LEMMA RegistryStep == ASSUME GatewayTypes, PhasesAgree, RegistryAgrees, Next PROVE RegistryAgrees'
<1> ConnTypes /\ HubTypes BY DEF GatewayTypes
<1> USE DEF RegistryAgrees
<1>1. CASE UNCHANGED <<phase, user, hub>>
    BY <1>1 DEF hub
<1>2. ASSUME NEW c \in Conn, Accept(c) \/ Reject(c) \/ Run(c) PROVE RegistryAgrees'
    BY <1>2 DEF ConnTypes, Accept, Reject, Run, PhasesAgree, hub
<1>3. ASSUME NEW c \in Conn, Register(c) PROVE RegistryAgrees'
    BY <1>3 DEF ConnTypes, HubTypes, Register
<1>4. ASSUME NEW c \in Conn, Unregister(c) PROVE RegistryAgrees'
    BY <1>4 DEF ConnTypes, HubTypes, Unregister
<1>5. ASSUME NEW c \in Conn, NEW v \in Conv, Subscribe(c, v) \/ HandleUnsubscribe(c, v)
      PROVE  RegistryAgrees'
    <2>1. phase[c] = "running" /\ c \in conns
        BY <1>5 DEF Subscribe, HandleUnsubscribe, Reads, PhasesAgree, Serving
    <2>2. QED BY <1>5, <2>1 DEF HubTypes, Subscribe, HandleUnsubscribe
<1>6. QED BY <1>1, <1>2, <1>3, <1>4, <1>5, HubWriters

-----------------------------------------------------------------------------
(* The channels.                                                           *)

\* Nothing takes a close back.
LEMMA ClosingStays ==
    ASSUME GatewayTypes, Next, NEW c \in Conn, closing[c]
    PROVE  closing'[c]
<1> ConnTypes BY DEF GatewayTypes
<1> USE DEF ConnTypes, CloseWith
<1>1. ASSUME NEW d \in Conn,
             \/ Accept(d) \/ Reject(d) \/ Register(d) \/ Greet(d) \/ Run(d) \/ Unregister(d)
             \/ \E v \in Conv : Subscribe(d, v) \/ HandleUnsubscribe(d, v)
             \/ Reply(d) \/ Handled(d) \/ ReadReplay(d) \/ ReadFails(d)
      PROVE  closing'[c]
    BY <1>1 DEF Accept, Reject, Register, Greet, Run, Unregister, Subscribe, HandleUnsubscribe,
       Reply, Handled, ReadReplay, ReadFails
<1>2. ASSUME NEW d \in Conn,
             \/ HandleSubscribe(d) \/ HandleCall(d) \/ HandleGarbage(d)
             \/ \E last \in 0 .. Len(events) : HandleResume(d, last)
             \/ Write(d) \/ WriteFails(d) \/ HeartbeatLost(d) \/ Close(d)
             \/ Deliver(d) \/ Announce(d) \/ PeerStalls(d) \/ PeerLeaves(d)
      PROVE  closing'[c]
    BY <1>2 DEF HandleSubscribe, HandleCall, HandleGarbage, HandleResume, Write, WriteFails,
       HeartbeatLost, Close, Deliver, Announce, PeerStalls, PeerLeaves
<1>3. ASSUME NEW d \in Conn, SendResumeAck(d) PROVE closing'[c]
    BY <1>3 DEF SendResumeAck, Put, Overflow, Abandon
<1>4. ASSUME NEW s \in Sender, Enqueue(s) PROVE closing'[c]
    BY <1>4 DEF Enqueue, Put, Overflow, Abandon
<1>5. CASE \/ ToConversation \/ ToUsers \/ BeginShutdown \/ FinishShutdown
           \/ \E to \in Audience : Dispatch(to)
           \/ \E cs \in SUBSET conns : ForceClose(cs)
    BY <1>5 DEF ToConversation, ToUsers, BeginShutdown, FinishShutdown, Dispatch, ForceClose
<1>6. QED
    BY <1>1, <1>2, <1>3, <1>4, <1>5
    DEF Next, Reading, Writing, Dispatching, ShuttingDown, Environment, Endpoint, ReadPump, Client, Sender
\* A stamp takes a new seq into one sender's hands.
LEMMA StampSeqs ==
    ASSUME GatewayTypes, SeqsApart, MissingSeqsAreInFlight,
           NEW s \in Sender, NEW c \in Conn, NEW f \in Frames, Stamp(s, c, f),
           \A d \in Conn : closing[d] => closing'[d]
    PROVE  (SeqsApart /\ MissingSeqsAreInFlight)'
<1> ChannelTypes BY DEF GatewayTypes
<1> DEFINE n == seq[c] + 1
           h == [conn |-> c, seq |-> n, frame |-> f]
<1>1. /\ held[s] = None /\ sent' = sent
      /\ seq' = [seq EXCEPT ![c] = n] /\ n \in Nat
      /\ IF closing[c] THEN UNCHANGED held ELSE held' = [held EXCEPT ![s] = h]
    BY DEF Stamp, ChannelTypes
<1>2. h \in Stamped /\ h # None /\ h.conn = c /\ h.seq = n
    <2>1. h \in Stamped
        BY <1>1 DEF Stamped
    <2>2. QED BY <2>1, StampedIsFrame
<1> HIDE DEF h
<1>3. \A d \in Conn : seq[d] \in Nat /\ seq'[d] \in Nat /\ (d # c => seq'[d] = seq[d])
    BY <1>1 DEF ChannelTypes
<1>4. seq'[c] = n
    BY <1>1 DEF ChannelTypes
<1>5. CASE closing[c]
    <2>1. UNCHANGED held
        BY <1>1, <1>5
    <2>2. SeqsApart'
        BY <1>1, <1>3, <1>4, <2>1, HeldFrame DEF SeqsApart
    <2>3. MissingSeqsAreInFlight'
        BY <1>1, <1>3, <1>5, <2>1 DEF MissingSeqsAreInFlight, HeldSeqs, Holders
    <2>4. QED BY <2>2, <2>3
<1>6. CASE ~closing[c]
    <2>1. /\ held'[s] = h
          /\ \A t \in Sender \ {s} : held'[t] = held[t]
        BY <1>1, <1>6 DEF ChannelTypes
    <2>2. ASSUME NEW t \in Sender, held'[t] # None
          PROVE  /\ held'[t].seq \in 1 .. seq'[held'[t].conn]
                 /\ t # s /\ held'[t].conn = c => held'[t].seq \in 1 .. seq[c]
        <3>1. CASE t = s
            BY <1>1, <1>2, <1>3, <1>4, <2>1, <3>1
        <3>2. CASE t # s
            BY <1>1, <1>3, <1>4, <2>1, <2>2, <3>2, HeldFrame DEF SeqsApart
        <3>3. QED BY <3>1, <3>2
    <2>3. SeqsApart'
        <3>1. ASSUME NEW t \in Sender, NEW p \in Sender \ {t}, held'[t] # None, held'[p] # None,
                     held'[p].conn = held'[t].conn
              PROVE  held'[p].seq # held'[t].seq
            <4>1. CASE t = s
                BY <1>1, <1>2, <1>3, <2>1, <2>2, <3>1, <4>1
            <4>2. CASE p = s
                BY <1>1, <1>2, <1>3, <2>1, <2>2, <3>1, <4>2
            <4>3. CASE t # s /\ p # s
                BY <2>1, <3>1, <4>3 DEF SeqsApart
            <4>4. QED BY <4>1, <4>2, <4>3
        <3>2. QED BY <2>2, <3>1 DEF SeqsApart
    <2>4. HeldSeqs(c)' = HeldSeqs(c) \cup {n}
        BY <1>1, <1>2, <2>1 DEF HeldSeqs, Holders
    <2>5. \A d \in Conn \ {c} : HeldSeqs(d)' = HeldSeqs(d)
        BY <1>1, <1>2, <2>1 DEF HeldSeqs, Holders
    <2>6. MissingSeqsAreInFlight'
        BY <1>1, <1>3, <1>4, <2>4, <2>5 DEF MissingSeqsAreInFlight
    <2>7. QED BY <2>3, <2>6
<1>7. QED BY <1>5, <1>6

\* An enqueue takes one seq from a sender's hands into the channel, unless the
\* connection is being closed.
LEMMA EnqueueSeqs ==
    ASSUME GatewayTypes, SeqsApart, MissingSeqsAreInFlight, NEW s \in Sender, Enqueue(s)
    PROVE  (SeqsApart /\ MissingSeqsAreInFlight)'
<1> ChannelTypes /\ ConnTypes BY DEF GatewayTypes
<1>1. PICK c \in Conn, n \in Nat : held[s] # None /\ c = held[s].conn /\ n = held[s].seq
    BY HeldFrame DEF Enqueue
<1>2. /\ n \in 1 .. seq[c]
      /\ \A t \in Sender \ {s} : held[t] # None /\ held[t].conn = c => held[t].seq # n
    BY <1>1 DEF SeqsApart
<1>3. held'[s] = None /\ \A t \in Sender \ {s} : held'[t] = held[t]
    BY DEF Enqueue, ChannelTypes
<1>4. UNCHANGED seq
    BY DEF Enqueue
<1>5. \/ sent' = [sent EXCEPT ![c] = @ \cup {n}] /\ UNCHANGED closing
      \/ sent' = sent /\ closing' = [closing EXCEPT ![c] = TRUE]
    BY <1>1 DEF Enqueue, Put, Overflow, Abandon, CloseWith, ConnTypes
<1>6. SeqsApart'
    BY <1>3, <1>4 DEF SeqsApart
<1>7. HeldSeqs(c)' = HeldSeqs(c) \ {n} /\ n \in HeldSeqs(c)
    BY <1>1, <1>2, <1>3 DEF HeldSeqs, Holders
<1>8. \A d \in Conn \ {c} : HeldSeqs(d)' = HeldSeqs(d)
    BY <1>1, <1>2, <1>3 DEF HeldSeqs, Holders
<1>9. MissingSeqsAreInFlight'
    <2>1. ASSUME NEW d \in Conn, ~closing'[d], d # c
          PROVE  (sent[d] \cup HeldSeqs(d) = 1 .. seq[d] /\ sent[d] \cap HeldSeqs(d) = {})'
        BY <1>2, <1>4, <1>5, <1>8, <2>1 DEF MissingSeqsAreInFlight, ConnTypes, ChannelTypes
    <2>2. ASSUME ~closing'[c]
          PROVE  (sent[c] \cup HeldSeqs(c) = 1 .. seq[c] /\ sent[c] \cap HeldSeqs(c) = {})'
        <3>1. ~closing[c] /\ sent'[c] = sent[c] \cup {n}
            BY <1>2, <1>5, <2>2 DEF ConnTypes, ChannelTypes
        <3>2. sent[c] \cup HeldSeqs(c) = 1 .. seq[c] /\ sent[c] \cap HeldSeqs(c) = {}
            BY <1>2, <3>1 DEF MissingSeqsAreInFlight
        <3>3. QED BY <1>4, <1>7, <3>1, <3>2
    <2>3. QED BY <2>1, <2>2 DEF MissingSeqsAreInFlight
<1>10. QED BY <1>6, <1>9

\* sendResumeAck's seqs go into the channel together.
LEMMA AckSeqs ==
    ASSUME GatewayTypes, SeqsApart, MissingSeqsAreInFlight, NEW c \in Conn, SendResumeAck(c)
    PROVE  (SeqsApart /\ MissingSeqsAreInFlight)'
<1> ChannelTypes /\ ConnTypes BY DEF GatewayTypes
<1> DEFINE last == seq[c] + 1 + Cardinality(replay[c])
<1>1. Cardinality(replay[c]) \in Nat
    <2>1. IsFiniteSet(1 .. Len(events)) /\ replay[c] \subseteq 1 .. Len(events)
        BY FS_Interval DEF GatewayTypes, ReplayTypes, DispatcherTypes
    <2>2. QED BY <2>1, FS_Subset, FS_CardinalityType
<1>2. /\ UNCHANGED held
      /\ seq' = [seq EXCEPT ![c] = last] /\ last \in Nat /\ seq[c] \in Nat /\ seq[c] < last
    BY <1>1 DEF SendResumeAck, ChannelTypes
<1>3. \/ sent' = [sent EXCEPT ![c] = @ \cup (seq[c] + 1 .. last)] /\ UNCHANGED closing
      \/ sent' = sent /\ closing' = [closing EXCEPT ![c] = TRUE]
    BY DEF SendResumeAck, Put, Overflow, Abandon, CloseWith, ConnTypes
<1> HIDE DEF last
<1>4. seq'[c] = last /\ \A d \in Conn \ {c} : seq'[d] = seq[d]
    BY <1>2 DEF ChannelTypes
<1>5. SeqsApart'
    <2>1. ASSUME NEW s \in Sender, held[s] # None
          PROVE  held[s].seq \in 1 .. seq'[held[s].conn]
        BY <1>2, <1>4, <2>1, HeldFrame DEF SeqsApart, ChannelTypes
    <2>2. QED BY <1>2, <2>1 DEF SeqsApart
<1>6. \A d \in Conn : HeldSeqs(d)' = HeldSeqs(d)
    BY <1>2 DEF HeldSeqs, Holders
<1>7. HeldSeqs(c) \subseteq 1 .. seq[c]
    BY DEF HeldSeqs, Holders, SeqsApart
<1>8. MissingSeqsAreInFlight'
    <2>1. ASSUME NEW d \in Conn, ~closing'[d], d # c
          PROVE  (sent[d] \cup HeldSeqs(d) = 1 .. seq[d] /\ sent[d] \cap HeldSeqs(d) = {})'
        BY <1>3, <1>4, <1>6, <2>1 DEF MissingSeqsAreInFlight, ConnTypes, ChannelTypes
    <2>2. ASSUME ~closing'[c]
          PROVE  (sent[c] \cup HeldSeqs(c) = 1 .. seq[c] /\ sent[c] \cap HeldSeqs(c) = {})'
        <3>1. ~closing[c] /\ sent'[c] = sent[c] \cup (seq[c] + 1 .. last)
            BY <1>3, <2>2 DEF ConnTypes, ChannelTypes
        <3>2. sent[c] \cup HeldSeqs(c) = 1 .. seq[c] /\ sent[c] \cap HeldSeqs(c) = {}
            BY <3>1 DEF MissingSeqsAreInFlight
        <3>3. 1 .. last = (1 .. seq[c]) \cup (seq[c] + 1 .. last)
            BY <1>2
        <3>4. (1 .. seq[c]) \cap (seq[c] + 1 .. last) = {}
            BY <1>2
        <3>5. QED BY <1>4, <1>6, <1>7, <3>1, <3>2, <3>3, <3>4
    <2>3. QED BY <2>1, <2>2 DEF MissingSeqsAreInFlight
<1>9. QED BY <1>5, <1>8

LEMMA SeqsStep ==
    ASSUME GatewayTypes, SeqsApart, MissingSeqsAreInFlight, Next
    PROVE  (SeqsApart /\ MissingSeqsAreInFlight)'
<1> DispatcherTypes BY DEF GatewayTypes
<1>1. \A d \in Conn : closing[d] => closing'[d]
    BY ClosingStays
<1>2. CASE UNCHANGED <<seq, held, sent>>
    BY <1>1, <1>2 DEF SeqsApart, MissingSeqsAreInFlight, HeldSeqs, Holders
<1>3. CASE UNCHANGED channel
    BY <1>2, <1>3 DEF channel
<1>4. ASSUME NEW c \in Conn, Stamp(c, c, Other) \/ Stamp(Stopper, c, Other) \/ Deliver(c)
      PROVE  (SeqsApart /\ MissingSeqsAreInFlight)'
    BY <1>1, <1>4, StampSeqs, DeliverStamps, OtherFrame DEF Sender
<1>5. ASSUME NEW c \in Conn, Write(c) \/ WriteFails(c)
      PROVE  (SeqsApart /\ MissingSeqsAreInFlight)'
    BY <1>2, <1>5 DEF Write, WriteFails
<1>6. QED BY <1>3, <1>4, <1>5, EnqueueSeqs, AckSeqs, ChannelWriters
-----------------------------------------------------------------------------
(* The live feed.                                                          *)

FeedInv == FeedInOrder /\ LiveFeedLosesASuffix

\* A frame of another sender than the dispatcher tells the feed nothing.
LEMMA OtherStampFeed ==
    ASSUME GatewayTypes, FeedInv, UNCHANGED dispatcher,
           NEW s \in Sender \ {Dispatcher}, NEW c \in Conn, Stamp(s, c, Other),
           \A d \in Conn : closing[d] => closing'[d]
    PROVE  FeedInv'
<1> ChannelTypes BY DEF GatewayTypes
<1> DEFINE h == [conn |-> c, seq |-> seq[c] + 1, frame |-> Other]
<1>1. h.frame = Other /\ ~Live(Other)
    BY OtherFrame
<1>2. /\ UNCHANGED <<newest, missed>>
      /\ held' = held \/ held' = [held EXCEPT ![s] = h]
    BY <1>1 DEF Stamp, Miss
<1> HIDE DEF h
<1>3. /\ held'[Dispatcher] = held[Dispatcher]
      /\ \A t \in Sender \ {s} : held'[t] = held[t]
      /\ held'[s] = held[s] \/ held'[s] = h
    BY <1>2 DEF ChannelTypes, Sender
<1>4. FeedInOrder'
    <2>1. ASSUME NEW t \in Sender, held'[t] # None
          PROVE  /\ Live(held'[t].frame) <=> t = Dispatcher
                 /\ t = Dispatcher =>
                      held'[t].frame.event = Len(events) /\ missed[held'[t].conn] = 0
        BY <1>1, <1>3, <2>1 DEF FeedInv, FeedInOrder
    <2>2. QED BY <1>2, <1>3, <2>1 DEF FeedInv, FeedInOrder, dispatcher
<1>5. LiveFeedLosesASuffix'
    BY <1>2 DEF FeedInv, LiveFeedLosesASuffix
<1>6. QED BY <1>4, <1>5 DEF FeedInv

LEMMA EnqueueFeed ==
    ASSUME GatewayTypes, FeedInv, NEW s \in Sender, Enqueue(s)
    PROVE  FeedInv'
<1> ChannelTypes /\ ConnTypes /\ DispatcherTypes BY DEF GatewayTypes
<1>1. PICK c \in Conn, f \in Frames :
         held[s] # None /\ c = held[s].conn /\ f = held[s].frame
    BY HeldFrame DEF Enqueue
<1>2. /\ UNCHANGED dispatcher
      /\ held'[s] = None /\ \A t \in Sender \ {s} : held'[t] = held[t]
    BY DEF Enqueue, ChannelTypes
<1>3. Len(events) \in Nat
    BY DEF DispatcherTypes
<1>4. CASE s # Dispatcher
    <2>1. ~Live(f)
        BY <1>1, <1>4 DEF FeedInv, FeedInOrder
    <2>2. /\ UNCHANGED <<newest, missed>>
          /\ \A d \in Conn : closing[d] => closing'[d]
        BY <1>1, <2>1 DEF Enqueue, Put, Overflow, Abandon, Miss, CloseWith, ConnTypes
    <2>3. held'[Dispatcher] = held[Dispatcher]
        BY <1>2, <1>4 DEF Sender
    <2>4. FeedInOrder'
        BY <1>2, <2>2, <2>3 DEF FeedInv, FeedInOrder, dispatcher
    <2>5. QED BY <2>2, <2>4 DEF FeedInv, LiveFeedLosesASuffix
<1>5. CASE s = Dispatcher
    <2>1. Live(f) /\ f.event = Len(events) /\ missed[c] = 0 /\ audience.conv = NoConv
        BY <1>1, <1>5 DEF FeedInv, FeedInOrder
    <2>2. \/ /\ newest' = [newest EXCEPT ![c] = Len(events)]
             /\ UNCHANGED <<missed, closing>>
          \/ /\ missed' = [missed EXCEPT ![c] = Len(events)]
             /\ UNCHANGED newest
             /\ closing' = [closing EXCEPT ![c] = TRUE]
        BY <1>1, <2>1 DEF Enqueue, Put, Overflow, Abandon, Miss, CloseWith, ConnTypes
    <2>3. \A d \in Conn :
             /\ d # c => UNCHANGED <<newest[d], missed[d], closing[d]>>
             /\ \/ newest'[c] = Len(events) /\ missed'[c] = 0
                \/ newest'[c] = newest[c] /\ missed'[c] = Len(events) /\ closing'[c]
        BY <2>1, <2>2 DEF ChannelTypes, ConnTypes
    <2>4. FeedInOrder'
        <3>1. held'[Dispatcher] = None
            BY <1>2, <1>5
        <3>2. \A t \in Sender : held'[t] # None => ~Live(held'[t].frame) /\ t # Dispatcher
            BY <1>2, <1>5 DEF FeedInv, FeedInOrder
        <3>3. \A d \in Conn : newest'[d] <= Len(events) /\ missed'[d] <= Len(events)
            BY <1>3, <2>3 DEF FeedInv, FeedInOrder
        <3>4. QED BY <1>2, <2>1, <3>1, <3>2, <3>3 DEF FeedInOrder, dispatcher
    <2>5. LiveFeedLosesASuffix'
        BY <1>3, <2>3 DEF FeedInv, FeedInOrder, LiveFeedLosesASuffix
    <2>6. QED BY <2>4, <2>5 DEF FeedInv
<1>6. QED BY <1>4, <1>5

LEMMA DeliverFeed ==
    ASSUME GatewayTypes, FeedInv, NEW c \in Conn, Deliver(c)
    PROVE  FeedInv'
<1> ChannelTypes /\ ConnTypes /\ DispatcherTypes BY DEF GatewayTypes
<1> DEFINE h == [conn |-> c, seq |-> seq[c] + 1, frame |-> Newest]
<1>1. /\ Stamp(Dispatcher, c, Newest) /\ Live(Newest) /\ Newest.event = Len(events)
      /\ Dispatcher \in Sender /\ Len(events) \in Nat
    BY DeliverStamps DEF Newest, Sender, DispatcherTypes
<1>2. UNCHANGED <<events, audience, closing, newest>> /\ audience.conv = NoConv
    BY DEF Deliver, Stamp, FeedInv, FeedInOrder
<1>3. h.frame = Newest /\ h.conn = c
    OBVIOUS
<1>4. /\ held[Dispatcher] = None
      /\ \/ /\ closing[c] /\ UNCHANGED held
            /\ missed' = IF missed[c] = 0 THEN [missed EXCEPT ![c] = Len(events)] ELSE missed
         \/ /\ ~closing[c] /\ held' = [held EXCEPT ![Dispatcher] = h]
            /\ UNCHANGED missed
    BY <1>1 DEF Stamp, Miss
<1> HIDE DEF h
<1>5. CASE closing[c]
    <2>1. UNCHANGED held /\ \A d \in Conn : missed'[d] = missed[d] \/ (d = c /\ missed'[d] = Len(events))
        BY <1>4, <1>5 DEF ChannelTypes
    <2>2. FeedInOrder'
        BY <1>1, <1>2, <1>4, <2>1 DEF FeedInv, FeedInOrder
    <2>3. LiveFeedLosesASuffix'
        BY <1>1, <1>2, <1>5, <2>1 DEF FeedInv, FeedInOrder, LiveFeedLosesASuffix
    <2>4. QED BY <2>2, <2>3 DEF FeedInv
<1>6. CASE ~closing[c]
    <2>1. /\ held'[Dispatcher] = h /\ \A t \in Sender \ {Dispatcher} : held'[t] = held[t]
          /\ UNCHANGED missed
        BY <1>1, <1>4, <1>6 DEF ChannelTypes
    <2>2. missed[c] = 0
        BY <1>6 DEF FeedInv, LiveFeedLosesASuffix
    <2>3. FeedInOrder'
        BY <1>1, <1>2, <1>3, <2>1, <2>2 DEF FeedInv, FeedInOrder
    <2>4. LiveFeedLosesASuffix'
        BY <1>2, <2>1 DEF FeedInv, LiveFeedLosesASuffix
    <2>5. QED BY <2>3, <2>4 DEF FeedInv
<1>7. QED BY <1>5, <1>6

LEMMA FeedStep == ASSUME GatewayTypes, FeedInv, Next PROVE FeedInv'
<1> ChannelTypes /\ ConnTypes /\ DispatcherTypes BY DEF GatewayTypes
<1>1. \A d \in Conn : closing[d] => closing'[d]
    BY ClosingStays
<1>2. ASSUME UNCHANGED <<held, newest, missed, dispatcher>> PROVE FeedInv'
    BY <1>1, <1>2 DEF FeedInv, FeedInOrder, LiveFeedLosesASuffix, dispatcher
<1>3. CASE UNCHANGED dispatcher
    <2>1. CASE UNCHANGED channel
        BY <1>2, <1>3, <2>1 DEF channel
    <2>2. ASSUME NEW c \in Conn, Stamp(c, c, Other) \/ Stamp(Stopper, c, Other) PROVE FeedInv'
        BY <1>1, <1>3, <2>2, OtherStampFeed, SendersAssumption DEF Sender, Dispatcher, Stopper
    <2>3. ASSUME NEW c \in Conn, SendResumeAck(c) \/ Write(c) \/ WriteFails(c) PROVE FeedInv'
        BY <1>2, <1>3, <2>3 DEF SendResumeAck, Write, WriteFails
    <2>4. QED BY <2>1, <2>2, <2>3, EnqueueFeed, DeliverFeed, ChannelWriters
<1>4. ASSUME NEW to \in Audience, Dispatch(to) PROVE FeedInv'
    <2>1. /\ UNCHANGED <<closing, held, newest, missed, targets>> /\ Idle
          /\ audience' = to /\ to.conv \in Conv \cup {NoConv}
          /\ Len(events') = Len(events) + 1 /\ events'[Len(events')] = to.conv
          /\ Len(events) \in Nat
        BY <1>4, DispatchFacts DEF Dispatch, channel, Due, DispatcherTypes
    <2>2. held[Dispatcher] = None /\ targets = {}
        BY <2>1 DEF Idle
    <2>3. FeedInOrder'
        BY <2>1, <2>2 DEF FeedInv, FeedInOrder, ChannelTypes
    <2>4. QED BY <2>1, <2>3 DEF FeedInv, LiveFeedLosesASuffix
<1>5. CASE ToConversation \/ ToUsers
    <2>1. /\ UNCHANGED <<closing, held, newest, missed, events>>
          /\ audience'.conv = NoConv
        BY <1>5 DEF ToConversation, ToUsers, channel, Nobody, DispatcherTypes, Due
    <2>2. QED BY <2>1 DEF FeedInv, FeedInOrder, LiveFeedLosesASuffix
<1>6. QED BY <1>3, <1>4, <1>5, DeliverFeed, DispatcherWriters
-----------------------------------------------------------------------------
(* The replay rings.                                                       *)

\* A dispatch puts the event into the ring of its conversation and drops the
\* first events of that ring, no others.
LEMMA RingAfterDispatch ==
    ASSUME GatewayTypes, NEW to \in Audience, Dispatch(to), to.conv # NoConv
    PROVE  LET v == to.conv
               r == ring[v]
               n == Len(r)
           IN  /\ v \in Conv
               /\ \A w \in Conv \ {v} : ring'[w] = ring[w]
               /\ \E i \in 1 .. n + 1 :
                    /\ Len(ring'[v]) = n + 2 - i
                    /\ \A j \in i .. n : ring'[v][j - i + 1] = r[j]
                    /\ ring'[v][n + 2 - i] = Len(events) + 1
                    /\ owed' = [c \in Conn |->
                         (IF reader[c] = "resuming"
                            THEN owed[c] \ {r[j] : j \in 1 .. i - 1} ELSE owed[c])
                           \cup {Len(events) + 1 : w \in subscribed[c] \cap {v}}]
<1> DispatcherTypes BY DEF GatewayTypes
<1> DEFINE v == to.conv
           r == ring[v]
           n == Len(r)
           e == Len(events) + 1
<1>1. v \in Conv /\ r \in Seq(Nat) /\ e \in Nat /\ n \in Nat
    BY DispatchFacts DEF Due, DispatcherTypes
<1>2. PICK kept \in Kept(r) :
         /\ ring' = [ring EXCEPT ![v] = Append(kept, e)]
         /\ owed' = [c \in Conn |->
              (IF reader[c] = "resuming"
                 THEN owed[c] \ {r[j] : j \in 1 .. n - Len(kept)} ELSE owed[c])
                \cup {e : w \in subscribed[c] \cap {v}}]
    BY DEF Dispatch
<1>3. PICK i \in 1 .. n + 1 :
         /\ kept \in Seq(Nat)
         /\ Len(kept) = n + 1 - i
         /\ \A j \in 1 .. Len(kept) : kept[j] = r[i + j - 1]
    BY <1>1, KeptIsSuffix
<1>4. /\ Len(Append(kept, e)) = n + 2 - i
      /\ \A j \in 1 .. n + 1 - i : Append(kept, e)[j] = kept[j]
      /\ Append(kept, e)[n + 2 - i] = e
    <2>1. /\ Len(Append(kept, e)) = Len(kept) + 1
          /\ \A j \in 1 .. Len(kept) : Append(kept, e)[j] = kept[j]
          /\ Append(kept, e)[Len(kept) + 1] = e
        <3>1. kept \in Seq(Nat) /\ e \in Nat
            BY <1>1, <1>3
        <3> HIDE DEF e
        <3>2. QED BY <3>1, AppendProperties
    <2>2. Len(kept) + 1 = n + 2 - i /\ Len(kept) = n + 1 - i
        BY <1>1, <1>3
    <2>3. QED BY <2>1, <2>2
<1>5. ring'[v] = Append(kept, e) /\ \A w \in Conv \ {v} : ring'[w] = ring[w]
    BY <1>1, <1>2 DEF DispatcherTypes
<1>6. \A j \in i .. n : ring'[v][j - i + 1] = r[j]
    <2>1. SUFFICES ASSUME NEW j \in i .. n PROVE ring'[v][j - i + 1] = r[j]
        OBVIOUS
    <2>2. j - i + 1 \in 1 .. n + 1 - i /\ i + (j - i + 1) - 1 = j
        BY <1>1
    <2>3. QED BY <1>3, <1>4, <1>5, <2>2
<1>7. n - Len(kept) = i - 1
    BY <1>1, <1>3
<1>8. QED BY <1>1, <1>2, <1>4, <1>5, <1>6, <1>7

LEMMA RingsStep == ASSUME GatewayTypes, RingsReach, Next PROVE RingsReach'
<1> DispatcherTypes BY DEF GatewayTypes
<1>1. CASE UNCHANGED <<ring, events>>
    BY <1>1 DEF RingsReach
<1>2. ASSUME NEW to \in Audience, Dispatch(to), NEW w \in Conv, w # to.conv
      PROVE  ReachesBack(ring'[w], w, events')
    <2>1. /\ Len(events) \in Nat
          /\ Len(events') = Len(events) + 1 /\ events'[Len(events) + 1] = to.conv
          /\ \A i \in 1 .. Len(events) : events'[i] = events[i]
        <3>1. Len(events) \in Nat
            BY DEF DispatcherTypes
        <3>2. QED BY <1>2, <3>1, DispatchFacts
    <2>2. ring'[w] = ring[w]
        <3>1. CASE to.conv = NoConv
            BY <1>2, <3>1 DEF Dispatch
        <3>2. CASE to.conv # NoConv
            BY <1>2, <3>2, RingAfterDispatch
        <3>3. QED BY <3>1, <3>2
    <2>3. ReachesBack(ring[w], w, events)
        BY DEF RingsReach
    <2>4. QED BY <1>2, <2>1, <2>2, <2>3 DEF ReachesBack
<1>3. ASSUME NEW to \in Audience, Dispatch(to), to.conv # NoConv
      PROVE  ReachesBack(ring'[to.conv], to.conv, events')
    <2> DEFINE v == to.conv
               e == Len(events) + 1
    <2>1. v \in Conv /\ ring[v] \in Seq(Nat) /\ Len(ring[v]) \in Nat
        BY <1>3, RingAfterDispatch DEF DispatcherTypes
    <2>2. /\ Len(events) \in Nat
          /\ Len(events') = e /\ events'[e] = v
          /\ \A i \in 1 .. Len(events) : events'[i] = events[i]
        BY <1>3, DispatchFacts DEF DispatcherTypes
    <2>0. PICK r \in Seq(Nat), n \in Nat : r = ring[v] /\ n = Len(ring[v])
        BY <2>1
    <2>3. PICK i \in 1 .. n + 1 :
             /\ Len(ring'[v]) = n + 2 - i
             /\ \A j \in i .. n : ring'[v][j - i + 1] = r[j]
             /\ ring'[v][n + 2 - i] = e
        BY <1>3, <2>0, RingAfterDispatch
    <2>4. ReachesBack(r, v, events) /\ n = Len(r)
        BY <2>0, <2>1 DEF RingsReach
    <2>5. /\ \A j \in 1 .. n : r[j] \in 1 .. Len(events) /\ \A k \in 1 .. j - 1 : r[k] < r[j]
          /\ \A x \in 1 .. Len(events) : events[x] = v =>
               n > 0 /\ (r[1] <= x => \E j \in 1 .. n : r[j] = x)
        BY <2>4 DEF ReachesBack
    <2>6. ASSUME NEW k \in 1 .. n + 1 - i
          PROVE  /\ k + i - 1 \in i .. n /\ k + i - 1 \in 1 .. n
                 /\ ring'[v][k] = r[k + i - 1]
        <3>1. k + i - 1 \in i .. n /\ k + i - 1 \in 1 .. n /\ (k + i - 1) - i + 1 = k
            BY <2>6
        <3>2. QED BY <2>3, <3>1
    <2>7. PICK s : s = ring'[v]
        OBVIOUS
    <2>8. PICK N \in Nat : N = Len(events) /\ e = N + 1
        BY <2>2
    <2> HIDE DEF e, v
    <2>9. ASSUME NEW k \in 1 .. n + 2 - i
          PROVE  s[k] \in 1 .. e /\ \A m \in 1 .. k - 1 : s[m] < s[k]
        <3>1. ASSUME NEW m \in 1 .. n + 1 - i PROVE s[m] \in 1 .. N
            BY <2>5, <2>6, <2>7, <2>8
        <3>2. CASE k = n + 2 - i
            <4>1. s[k] = e
                BY <2>3, <2>7, <3>2
            <4>2. ASSUME NEW m \in 1 .. k - 1 PROVE s[m] < s[k]
                <5>1. m \in 1 .. n + 1 - i
                    BY <3>2
                <5>2. QED BY <2>8, <3>1, <4>1, <5>1
            <4>3. QED BY <2>8, <4>1, <4>2
        <3>3. CASE k # n + 2 - i
            <4>1. k \in 1 .. n + 1 - i
                BY <3>3
            <4>2. s[k] \in 1 .. e
                BY <2>8, <3>1, <4>1
            <4>3. ASSUME NEW m \in 1 .. k - 1 PROVE s[m] < s[k]
                <5>1. m \in 1 .. n + 1 - i /\ m + i - 1 \in 1 .. (k + i - 1) - 1
                    BY <4>1
                <5>2. QED BY <2>5, <2>6, <2>7, <4>1, <5>1
            <4>4. QED BY <4>2, <4>3
        <3>4. QED BY <3>2, <3>3
    <2>10. ASSUME NEW x \in 1 .. e, events'[x] = v, s[1] <= x
           PROVE  \E k \in 1 .. n + 2 - i : s[k] = x
        <3>1. CASE x = e
            BY <2>3, <2>7, <3>1
        <3>2. CASE x # e
            <4>1. x \in 1 .. N /\ events[x] = v
                BY <2>2, <2>8, <2>10, <3>2
            <4>2. i <= n
                <5>1. SUFFICES ASSUME i = n + 1 PROVE FALSE
                    OBVIOUS
                <5>2. s[1] = e
                    BY <2>3, <2>7, <5>1
                <5>3. QED BY <2>8, <2>10, <4>1, <5>2
            <4>3. s[1] = r[i] /\ 1 \in 1 .. n /\ i \in 1 .. n
                <5>1. 1 \in 1 .. n + 1 - i /\ 1 + i - 1 = i
                    BY <4>2
                <5>2. QED BY <2>6, <2>7, <4>2, <5>1
            <4>4. r[1] <= r[i] /\ r[1] \in Nat /\ r[i] \in Nat
                BY <2>5, <4>3
            <4>5. PICK j \in 1 .. n : r[j] = x
                BY <2>5, <2>8, <2>10, <4>1, <4>3, <4>4
            <4>6. ~(j < i)
                BY <2>5, <2>10, <4>3, <4>4, <4>5
            <4>7. j - i + 1 \in 1 .. n + 2 - i /\ j \in i .. n
                BY <4>6
            <4>8. QED BY <2>3, <2>7, <4>5, <4>7
        <3>3. QED BY <3>1, <3>2
    <2>11. Len(s) = n + 2 - i /\ Len(s) > 0 /\ Len(events') = e
        BY <2>2, <2>3, <2>7
    <2>12. ReachesBack(s, v, events')
        BY <2>9, <2>10, <2>11 DEF ReachesBack
    <2>13. QED BY <2>7, <2>12 DEF v
<1>4. ASSUME NEW to \in Audience, Dispatch(to) PROVE RingsReach'
    <2>1. SUFFICES ASSUME NEW w \in Conv PROVE ReachesBack(ring'[w], w, events')
        BY DEF RingsReach
    <2>2. CASE w = to.conv
        BY <1>3, <1>4, <2>2, NoConvAssumption
    <2>3. CASE w # to.conv
        BY <1>2, <1>4, <2>3
    <2>4. QED BY <2>2, <2>3
<1>5. CASE UNCHANGED dispatcher \/ ToConversation \/ ToUsers \/ \E c \in Conn : Deliver(c)
    BY <1>1, <1>5 DEF dispatcher, ToConversation, ToUsers, Deliver
<1>6. QED BY <1>4, <1>5, DispatcherWriters
-----------------------------------------------------------------------------
(* What subscribers are owed.                                              *)

Resuming(c) == reader[c] \in {"resuming", "replaying"}

\* Nothing a subscriber may be owed is touched: no fan-out, ring or resume moves.
Quiet ==
    /\ UNCHANGED <<conns, byConv, owed, dispatcher, resume>>
    /\ held'[Dispatcher] = held[Dispatcher]
    /\ \A c \in Conn : reader'[c] = reader[c] \/ (~Resuming(c) /\ ~Resuming(c)')

LEMMA QuietOwed ==
    ASSUME GatewayTypes, OwedCovered, Quiet, \A d \in Conn : closing[d] => closing'[d]
    PROVE  OwedCovered'
<1> HubTypes BY DEF GatewayTypes
<1>1. ASSUME NEW c \in Conn PROVE LiveDue(c)' = LiveDue(c)
    BY DEF Quiet, LiveDue, InFanOut, dispatcher
<1>2. ASSUME NEW c \in Conn PROVE ReplayDue(c)' = ReplayDue(c)
    BY DEF Quiet, ReplayDue, Resuming, Since, Buffered, dispatcher, resume
<1>3. QED BY <1>1, <1>2 DEF OwedCovered, Quiet, HubTypes

\* The steps of a connection that are quiet.
LEMMA ConnQuiet ==
    ASSUME GatewayTypes, NEW c \in Conn,
           \/ Accept(c) \/ Reject(c) \/ Greet(c) \/ Run(c)
           \/ HandleSubscribe(c) \/ HandleCall(c) \/ HandleGarbage(c)
           \/ Reply(c) \/ Handled(c) \/ ReadFails(c)
    PROVE  Quiet
<1> ConnTypes /\ ChannelTypes BY DEF GatewayTypes
<1> USE DEF Quiet, Resuming, hub
<1>1. c # Dispatcher /\ c \in Sender /\ Dispatcher \in Sender
    BY SendersAssumption DEF Sender
<1>2. CASE Accept(c) \/ Reject(c) \/ Run(c)
    BY <1>2 DEF Accept, Reject, Run, NextFrame, ConnTypes, channel
<1>3. CASE Greet(c) \/ Reply(c)
    <2>1. Stamp(c, c, Other) /\ UNCHANGED <<conns, byConv, dispatcher, resume>>
        BY <1>3 DEF Greet, Reply
    <2>2. held'[Dispatcher] = held[Dispatcher] /\ UNCHANGED owed
        BY <1>1, <2>1 DEF Stamp, ChannelTypes
    <2>3. \A d \in Conn : reader'[d] = reader[d] \/ (~Resuming(d) /\ ~Resuming(d)')
        BY <1>3 DEF Greet, Reply, ConnTypes
    <2>4. QED BY <2>1, <2>2, <2>3
<1>4. CASE HandleSubscribe(c) \/ HandleGarbage(c) \/ HandleCall(c)
    BY <1>4 DEF HandleSubscribe, HandleGarbage, HandleCall, Reads, ConnTypes, channel
<1>5. CASE Handled(c) \/ ReadFails(c)
    BY <1>5 DEF Handled, NextFrame, ReadFails, ConnTypes, channel
<1>6. QED BY <1>2, <1>3, <1>4, <1>5

\* And those of the write pump, the peers and the operators.
LEMMA OtherQuiet ==
    ASSUME GatewayTypes,
           \/ BeginShutdown \/ FinishShutdown \/ \E cs \in SUBSET conns : ForceClose(cs)
           \/ \E c \in Conn :
                \/ Write(c) \/ WriteFails(c) \/ HeartbeatLost(c) \/ Close(c)
                \/ Announce(c) \/ PeerStalls(c) \/ PeerLeaves(c)
    PROVE  Quiet
<1> ConnTypes /\ ChannelTypes BY DEF GatewayTypes
<1> USE DEF Quiet, hub
<1>1. CASE BeginShutdown \/ FinishShutdown \/ \E cs \in SUBSET conns : ForceClose(cs)
    BY <1>1 DEF BeginShutdown, FinishShutdown, ForceClose, channel
<1>2. ASSUME NEW c \in Conn,
             \/ Write(c) \/ WriteFails(c) \/ HeartbeatLost(c) \/ Close(c)
             \/ PeerStalls(c) \/ PeerLeaves(c)
      PROVE  Quiet
    BY <1>2 DEF Write, WriteFails, HeartbeatLost, Close, PeerStalls, PeerLeaves, channel
<1>3. ASSUME NEW c \in Conn, Announce(c) PROVE Quiet
    <2>1. Stopper # Dispatcher /\ Stopper \in Sender /\ Dispatcher \in Sender
        BY DEF Stopper, Dispatcher, Sender
    <2>2. QED BY <1>3, <2>1 DEF Announce, Stamp, ChannelTypes
<1>4. QED BY <1>1, <1>2, <1>3

LEMMA HubOwed ==
    ASSUME GatewayTypes, PhasesAgree, FeedInOrder, OwedCovered,
           NEW c \in Conn,
           Register(c) \/ Unregister(c)
             \/ \E v \in Conv : Subscribe(c, v) \/ HandleUnsubscribe(c, v)
    PROVE  OwedCovered'
<1> HubTypes /\ ReplayTypes /\ ConnTypes /\ DispatcherTypes BY DEF GatewayTypes
<1>1. UNCHANGED <<closing, channel, resume, dispatcher>>
    BY DEF Register, Unregister, Subscribe, HandleUnsubscribe
<1>2. \A d \in Conn : reader'[d] = reader[d] \/ (~Resuming(d) /\ ~Resuming(d)')
    BY DEF Register, Unregister, Subscribe, HandleUnsubscribe, Reads, PhasesAgree, ConnTypes, Resuming
<1>3. \A d \in Conn : ReplayDue(d)' = ReplayDue(d)
    BY <1>1, <1>2 DEF ReplayDue, Resuming, Since, Buffered, dispatcher, resume
<1>4. CASE Register(c)
    <2>1. owed' = owed /\ owed[c] = {} /\ conns' = conns \cup {c}
        BY <1>4 DEF Register, PhasesAgree
    <2>2. \A v \in Conv : byConv[v] \subseteq byConv'[v]
        BY <1>4 DEF Register, HubTypes
    <2>3. \A d \in Conn : LiveDue(d) \subseteq LiveDue(d)'
        BY <1>1, <2>2 DEF LiveDue, InFanOut, dispatcher, channel, DispatcherTypes, Due
    <2>4. QED BY <1>1, <1>3, <2>1, <2>3 DEF OwedCovered, HubTypes
<1>5. CASE Unregister(c)
    <2>1. owed' = owed /\ conns' = conns \ {c}
        BY <1>5 DEF Unregister
    <2>2. \A v \in Conv : byConv[v] \ {c} \subseteq byConv'[v]
        BY <1>5 DEF Unregister, HubTypes
    <2>3. \A d \in Conn \ {c} : LiveDue(d) \subseteq LiveDue(d)'
        BY <1>1, <2>2 DEF LiveDue, InFanOut, dispatcher, channel, DispatcherTypes, Due
    <2>4. QED BY <1>1, <1>3, <2>1, <2>3 DEF OwedCovered, HubTypes
<1>6. ASSUME NEW v \in Conv, Subscribe(c, v) PROVE OwedCovered'
    <2>1. owed' = owed /\ conns' = conns
        BY <1>6 DEF Subscribe
    <2>2. \A w \in Conv : byConv[w] \subseteq byConv'[w]
        BY <1>6 DEF Subscribe, HubTypes
    <2>3. \A d \in Conn : LiveDue(d) \subseteq LiveDue(d)'
        BY <1>1, <2>2 DEF LiveDue, InFanOut, dispatcher, channel, DispatcherTypes, Due
    <2>4. QED BY <1>1, <1>3, <2>1, <2>3 DEF OwedCovered, HubTypes
<1>7. ASSUME NEW v \in Conv, HandleUnsubscribe(c, v) PROVE OwedCovered'
    <2>1. /\ conns' = conns
          /\ owed' = [owed EXCEPT ![c] = {e \in @ : events[e] # v}]
          /\ byConv' = [byConv EXCEPT ![v] = @ \ {c}]
          /\ reader[c] = "reading"
        BY <1>7 DEF HandleUnsubscribe, Reads
    <2>2. ASSUME NEW d \in conns, ~closing[d], d # c
          PROVE  owed'[d] \subseteq LiveDue(d)' \cup ReplayDue(d)'
        <3>1. owed'[d] = owed[d] /\ \A w \in Conv : d \in byConv[w] => d \in byConv'[w]
            BY <2>1, <2>2 DEF HubTypes, ReplayTypes
        <3>2. LiveDue(d) \subseteq LiveDue(d)'
            BY <1>1, <3>1 DEF LiveDue, InFanOut, dispatcher, channel, DispatcherTypes, Due
        <3>3. QED BY <1>3, <2>2, <3>1, <3>2 DEF OwedCovered, HubTypes
    <2>3. ASSUME c \in conns, ~closing[c], NEW e \in owed'[c]
          PROVE  e \in LiveDue(c)'
        <3>1. e \in owed[c] /\ events[e] # v
            BY <2>1, <2>3 DEF ReplayTypes
        <3>2. ReplayDue(c) = {}
            BY <2>1 DEF ReplayDue
        <3>3. e = Len(events) /\ InFanOut(c)
            BY <2>3, <3>1, <3>2 DEF OwedCovered, LiveDue
        <3>4. audience.conv # NoConv => audience.conv # v
            BY <3>1, <3>3 DEF FeedInOrder
        <3>5. InFanOut(c)'
            BY <1>1, <2>1, <3>3, <3>4 DEF InFanOut, HubTypes, dispatcher, channel, DispatcherTypes, Due
        <3>6. QED BY <1>1, <3>3, <3>5 DEF LiveDue, dispatcher
    <2>4. QED BY <1>1, <2>1, <2>2, <2>3 DEF OwedCovered
<1>8. QED BY <1>4, <1>5, <1>6, <1>7
\* The fan-out of an event loses no subscriber on the way.
LEMMA FanOutOwed ==
    ASSUME GatewayTypes, FeedInOrder, OwedCovered,
           ToConversation \/ ToUsers \/ \E c \in Conn : Deliver(c)
    PROVE  OwedCovered'
<1> HubTypes /\ ChannelTypes /\ DispatcherTypes BY DEF GatewayTypes
<1>1. UNCHANGED <<conns, closing, reader, resume, owed, events, ring>>
    BY DEF ToConversation, ToUsers, Deliver, Stamp, hub
<1>2. \A d \in Conn : ReplayDue(d)' = ReplayDue(d)
    BY <1>1 DEF ReplayDue, Since, Buffered, resume
<1>3. SUFFICES ASSUME NEW d \in Conn, ~closing[d], InFanOut(d) PROVE InFanOut(d)'
    BY <1>1, <1>2, <1>3 DEF OwedCovered, LiveDue, HubTypes
<1>4. CASE ToConversation
    BY <1>3, <1>4 DEF ToConversation, InFanOut, FeedInOrder
<1>5. CASE ToUsers
    BY <1>3, <1>5 DEF ToUsers, InFanOut
<1>6. ASSUME NEW c \in Conn, Deliver(c) PROVE InFanOut(d)'
    <2>1. /\ targets' = targets \ {c} /\ c \in targets /\ UNCHANGED audience
          /\ held[Dispatcher] = None /\ audience.conv = NoConv
        BY <1>6 DEF Deliver, Stamp, FeedInOrder
    <2>2. CASE d # c
        BY <1>3, <2>1, <2>2 DEF InFanOut
    <2>3. CASE d = c
        <3> DEFINE h == [conn |-> c, seq |-> seq[c] + 1, frame |-> Newest]
        <3>1. held' = [held EXCEPT ![Dispatcher] = h]
            BY <1>3, <1>6, <2>3, DeliverStamps DEF Stamp
        <3>2. h.conn = c /\ h \in Stamped
            BY DeliverStamps, <1>6 DEF Stamped, ChannelTypes
        <3>3. h # None
            BY <3>2, StampedIsFrame
        <3> HIDE DEF h
        <3>4. held'[Dispatcher] = h
            BY <3>1 DEF ChannelTypes, Sender
        <3>5. QED BY <2>3, <3>2, <3>3, <3>4 DEF InFanOut
    <2>4. QED BY <2>2, <2>3
<1>7. QED BY <1>4, <1>5, <1>6

LEMMA EnqueueOwed ==
    ASSUME GatewayTypes, FeedInOrder, OwedCovered, NEW s \in Sender, Enqueue(s)
    PROVE  OwedCovered'
<1> HubTypes /\ ChannelTypes /\ DispatcherTypes /\ ReplayTypes /\ ConnTypes BY DEF GatewayTypes
<1>1. /\ UNCHANGED <<conns, byConv, reader, resume, dispatcher>>
      /\ held'[s] = None /\ \A t \in Sender \ {s} : held'[t] = held[t]
    BY DEF Enqueue, hub, ChannelTypes
<1>2. PICK c \in Conn, f \in Frames :
         held[s] # None /\ c = held[s].conn /\ f = held[s].frame
    BY HeldFrame DEF Enqueue
<1>3. \/ /\ owed' = [owed EXCEPT ![c] = @ \ IF Live(f) THEN {f.event} ELSE {}]
         /\ UNCHANGED closing
      \/ /\ owed' = owed
         /\ closing' = [closing EXCEPT ![c] = TRUE]
    BY <1>2 DEF Enqueue, Put, Overflow, Abandon, CloseWith, ConnTypes
<1>4. \A d \in Conn : ReplayDue(d)' = ReplayDue(d)
    BY <1>1 DEF ReplayDue, Since, Buffered, resume, dispatcher
<1>5. CASE s # Dispatcher
    <2>1. ~Live(f) /\ held'[Dispatcher] = held[Dispatcher]
        BY <1>1, <1>2, <1>5 DEF FeedInOrder, Sender
    <2>2. \A d \in Conn : LiveDue(d)' = LiveDue(d)
        BY <1>1, <2>1 DEF LiveDue, InFanOut, dispatcher
    <2>3. \A d \in Conn : owed'[d] = owed[d] /\ (closing[d] => closing'[d])
        BY <1>3, <2>1 DEF ReplayTypes, ConnTypes
    <2>4. QED BY <1>1, <1>4, <2>2, <2>3 DEF OwedCovered, HubTypes
<1>6. CASE s = Dispatcher
    <2>1. Live(f) /\ f.event = Len(events)
        BY <1>2, <1>6 DEF FeedInOrder
    <2>2. ASSUME NEW d \in conns, ~closing'[d], d # c
          PROVE  owed'[d] \subseteq LiveDue(d)' \cup ReplayDue(d)'
        <3>1. owed'[d] = owed[d] /\ ~closing[d]
            BY <1>3, <2>2 DEF ReplayTypes, ConnTypes, HubTypes
        <3>2. LiveDue(d)' = LiveDue(d)
            BY <1>1, <1>2, <1>6, <2>2 DEF LiveDue, InFanOut, dispatcher
        <3>3. QED BY <1>4, <2>2, <3>1, <3>2 DEF OwedCovered, HubTypes
    <2>3. ASSUME c \in conns, ~closing'[c]
          PROVE  owed'[c] \subseteq ReplayDue(c)'
        <3>1. owed'[c] = owed[c] \ {Len(events)} /\ ~closing[c]
            BY <1>3, <2>1, <2>3 DEF ReplayTypes, ConnTypes
        <3>2. owed[c] \subseteq LiveDue(c) \cup ReplayDue(c)
            BY <2>3, <3>1 DEF OwedCovered
        <3>3. LiveDue(c) \subseteq {Len(events)}
            BY DEF LiveDue
        <3>4. QED BY <1>4, <3>1, <3>2, <3>3
    <2>4. QED BY <1>1, <2>2, <2>3 DEF OwedCovered
<1>7. QED BY <1>5, <1>6

LEMMA DispatchOwed ==
    ASSUME GatewayTypes, RegistryAgrees, OwedCovered, Next, NEW to \in Audience, Dispatch(to)
    PROVE  OwedCovered'
<1> HubTypes /\ DispatcherTypes /\ ReplayTypes BY DEF GatewayTypes
<1>1. /\ UNCHANGED <<conns, byConv, subscribed, closing, reader, cursor, replay>>
      /\ Idle /\ audience' = to /\ Len(events') = Len(events) + 1 /\ Len(events) \in Nat
    BY DispatchFacts DEF Dispatch, hub, resume, DispatcherTypes
<1>2. ASSUME NEW d \in conns, ~closing[d] PROVE owed[d] \subseteq ReplayDue(d)
    <2>1. LiveDue(d) = {}
        BY <1>1, NoConvAssumption DEF LiveDue, InFanOut, Idle, Nobody
    <2>2. QED BY <1>2, <2>1 DEF OwedCovered
<1>3. CASE to.conv = NoConv
    <2>1. UNCHANGED <<ring, owed>>
        BY <1>3 DEF Dispatch
    <2>2. \A d \in Conn : ReplayDue(d)' = ReplayDue(d)
        BY <1>1, <2>1 DEF ReplayDue, Since, Buffered
    <2>3. QED BY <1>1, <1>2, <2>1, <2>2 DEF OwedCovered, HubTypes
<1>4. CASE to.conv # NoConv
    <2> DEFINE v == to.conv
               n == Len(ring[v])
    <2>1. v \in Conv /\ \A w \in Conv \ {v} : ring'[w] = ring[w]
        BY <1>4, RingAfterDispatch
    <2>2. PICK i \in 1 .. n + 1 :
             /\ Len(ring'[v]) = n + 2 - i
             /\ \A j \in i .. n : ring'[v][j - i + 1] = ring[v][j]
             /\ owed' = [c \in Conn |->
                  (IF reader[c] = "resuming"
                     THEN owed[c] \ {ring[v][j] : j \in 1 .. i - 1} ELSE owed[c])
                    \cup {Len(events) + 1 : w \in subscribed[c] \cap {v}}]
        BY <1>4, RingAfterDispatch
    <2>3. n \in Nat /\ DOMAIN ring[v] = 1 .. n /\ DOMAIN ring'[v] = 1 .. n + 2 - i
        <3>1. ring[v] \in Seq(Nat) /\ ring'[v] \in Seq(Nat)
            BY <2>1, DispatcherTypesStep DEF DispatcherTypes
        <3>2. QED BY <2>2, <3>1
    <2>4. ASSUME NEW d \in conns, ~closing[d], NEW x \in owed'[d]
          PROVE  x \in LiveDue(d)' \cup ReplayDue(d)'
        <3>1. CASE x \notin owed[d]
            <4>1. x = Len(events) + 1 /\ v \in subscribed[d]
                BY <2>2, <2>4, <3>1 DEF HubTypes
            <4>2. InFanOut(d)'
                BY <1>1, <1>4, <2>1, <2>4, <4>1 DEF InFanOut, RegistryAgrees
            <4>3. QED BY <1>1, <4>1, <4>2 DEF LiveDue
        <3>2. CASE x \in owed[d] /\ reader[d] # "resuming"
            BY <1>1, <1>2, <2>4, <3>2 DEF ReplayDue
        <3>3. CASE x \in owed[d] /\ reader[d] = "resuming"
            <4>1. x \in Since(cursor[d])
                BY <1>2, <2>4, <3>3 DEF ReplayDue
            <4>2. x > cursor[d] /\ \E w \in Conv : \E j \in DOMAIN ring[w] : ring[w][j] = x
                BY <4>1 DEF Since, Buffered
            <4>3. PICK w \in Conv : \E j \in DOMAIN ring[w] : ring[w][j] = x
                BY <4>2
            <4> PICK j \in DOMAIN ring[w] : ring[w][j] = x
                BY <4>3
            <4>4. \E k \in DOMAIN ring'[w] : ring'[w][k] = x
                <5>1. CASE w # v
                    BY <2>1, <4>3, <5>1
                <5>2. CASE w = v
                    <6>1. x \notin {ring[v][k] : k \in 1 .. i - 1}
                        <7>1. x # Len(events) + 1
                            BY <3>3 DEF ReplayTypes, HubTypes
                        <7>2. QED BY <2>2, <2>4, <3>3, <7>1 DEF HubTypes
                    <6>2. j \in i .. n
                        BY <2>3, <4>3, <5>2, <6>1
                    <6>3. j - i + 1 \in 1 .. n + 2 - i /\ ring'[v][j - i + 1] = ring[v][j]
                        BY <2>2, <2>3, <6>2
                    <6>4. QED BY <2>3, <4>3, <5>2, <6>3
                <5>3. QED BY <5>1, <5>2
            <4>5. x \in Since(cursor[d])'
                BY <1>1, <4>2, <4>4 DEF Since, Buffered
            <4>6. QED BY <1>1, <3>3, <4>5 DEF ReplayDue
        <3>4. QED BY <3>1, <3>2, <3>3
    <2>5. QED BY <1>1, <2>4 DEF OwedCovered
<1>5. QED BY <1>3, <1>4

\* A resume takes over what the rings still hold, and sends all of it.
LEMMA ResumeOwed ==
    ASSUME GatewayTypes, RingsReach, OwedCovered, NEW c \in Conn,
           \/ \E last \in 0 .. Len(events) : HandleResume(c, last)
           \/ ReadReplay(c) \/ SendResumeAck(c),
           \A d \in Conn : closing[d] => closing'[d]
    PROVE  OwedCovered'
<1> HubTypes /\ DispatcherTypes /\ ReplayTypes /\ ConnTypes BY DEF GatewayTypes
<1>1. /\ UNCHANGED <<conns, byConv, dispatcher, held>>
      /\ \A d \in Conn \ {c} : UNCHANGED <<owed[d], reader[d], cursor[d], replay[d]>>
    BY DEF HandleResume, ReadReplay, SendResumeAck, Reads, Put, Overflow, Abandon, ReplayTypes,
       ConnTypes, hub, channel
<1>2. \A d \in Conn : LiveDue(d)' = LiveDue(d)
    BY <1>1 DEF LiveDue, InFanOut, dispatcher
<1>3. \A last \in Nat : Since(last)' = Since(last)
    BY <1>1 DEF Since, Buffered, dispatcher
<1>4. ASSUME NEW d \in conns, ~closing'[d], d # c
      PROVE  owed'[d] \subseteq LiveDue(d)' \cup ReplayDue(d)'
    BY <1>1, <1>2, <1>3, <1>4 DEF OwedCovered, ReplayDue, ReplayTypes, HubTypes
<1>5. ASSUME c \in conns, ~closing'[c], NEW e \in owed'[c]
      PROVE  e \in LiveDue(c)' \cup ReplayDue(c)'
    <2>1. owed[c] \subseteq LiveDue(c) \cup ReplayDue(c)
        BY <1>5 DEF OwedCovered
    <2>2. ASSUME NEW last \in 0 .. Len(events), HandleResume(c, last)
          PROVE  e \in LiveDue(c)' \cup ReplayDue(c)'
        <3>1. CASE ~CanReplay(last)
            BY <1>2, <1>5, <2>1, <2>2, <3>1 DEF HandleResume, Reads, ReplayDue, ConnTypes
        <3>2. CASE CanReplay(last) /\ e \in owed[c]
            BY <1>2, <2>1, <2>2, <3>2 DEF HandleResume, Reads, ReplayDue
        <3>3. CASE CanReplay(last) /\ e \notin owed[c]
            <4>1. /\ reader'[c] = "resuming" /\ cursor'[c] = last /\ last \in Nat
                  /\ e \in 1 .. Len(events) /\ e > last /\ events[e] \in Conv
                BY <1>5, <2>2, <3>3 DEF HandleResume, ReplayTypes, ConnTypes, HubTypes,
                   DispatcherTypes
            <4> DEFINE r == ring[events[e]]
            <4>2. ReachesBack(r, events[e], events) /\ r \in Seq(Nat)
                BY <4>1 DEF RingsReach, DispatcherTypes
            <4>3. Len(r) > 0 /\ (r[1] <= e => \E i \in 1 .. Len(r) : r[i] = e)
                BY <4>1, <4>2 DEF ReachesBack
            <4>4. r # <<>> /\ Head(r) = r[1] /\ r[1] \in Nat
                BY <4>2, <4>3
            <4>5. last + 1 >= r[1]
                BY <3>3, <4>1, <4>4 DEF CanReplay
            <4>6. \E i \in DOMAIN r : r[i] = e
                BY <4>1, <4>2, <4>3, <4>4, <4>5
            <4>7. e \in Since(last)
                BY <4>1, <4>6 DEF Since, Buffered
            <4>8. QED BY <1>3, <4>1, <4>7 DEF ReplayDue
        <3>4. QED BY <3>1, <3>2, <3>3
    <2>3. CASE ReadReplay(c)
        <3>1. owed' = owed /\ reader[c] = "resuming" /\ reader'[c] = "replaying"
            BY <2>3 DEF ReadReplay, ConnTypes
        <3>2. replay'[c] = Since(cursor[c])
            BY <2>3 DEF ReadReplay, ReplayTypes
        <3>3. QED BY <1>2, <1>5, <2>1, <3>1, <3>2 DEF ReplayDue
    <2>4. CASE SendResumeAck(c)
        <3>1. reader[c] = "replaying" /\ owed'[c] = owed[c] \ replay[c]
            BY <1>5, <2>4 DEF SendResumeAck, Put, Overflow, Abandon, CloseWith, ReplayTypes, ConnTypes
        <3>2. QED BY <1>2, <1>5, <2>1, <3>1 DEF ReplayDue
    <2>5. QED BY <2>2, <2>3, <2>4
<1>6. QED BY <1>1, <1>4, <1>5 DEF OwedCovered

LEMMA OwedStep ==
    ASSUME GatewayTypes, PhasesAgree, RegistryAgrees, FeedInOrder, RingsReach, OwedCovered, Next
    PROVE  OwedCovered'
<1>1. \A d \in Conn : closing[d] => closing'[d]
    BY ClosingStays
<1>2. CASE Quiet
    BY <1>1, <1>2, QuietOwed
<1>3. QED
    BY <1>1, <1>2, ConnQuiet, OtherQuiet, HubOwed, FanOutOwed, EnqueueOwed, DispatchOwed, ResumeOwed
    DEF Next, Reading, Writing, Dispatching, ShuttingDown, Environment, Endpoint, ReadPump, Client, Sender

-----------------------------------------------------------------------------
(* The invariant, and what it gives.                                       *)

GatewayInv ==
    /\ GatewayTypes
    /\ PhasesAgree
    /\ RegistryAgrees
    /\ SeqsApart
    /\ MissingSeqsAreInFlight
    /\ FeedInv
    /\ RingsReach
    /\ OwedCovered

LEMMA InvInit == ASSUME Init PROVE GatewayInv
<1> USE DEF Init
<1>1. GatewayTypes
    <2>1. ConnTypes /\ HubTypes
        BY DEF ConnTypes, HubTypes, Phases, Readers
    <2>2. ChannelTypes /\ ReplayTypes
        BY DEF ChannelTypes, ReplayTypes
    <2>3. DispatcherTypes /\ ShutdownTypes
        BY DEF DispatcherTypes, ShutdownTypes, Due, Nobody
    <2>4. QED BY <2>1, <2>2, <2>3 DEF GatewayTypes
<1>2. PhasesAgree /\ RegistryAgrees
    BY DEF PhasesAgree, RegistryAgrees, Serving
<1>3. SeqsApart /\ FeedInv
    BY DEF SeqsApart, FeedInv, FeedInOrder, LiveFeedLosesASuffix, Nobody, Sender
<1>4. MissingSeqsAreInFlight
    <2>1. \A c \in Conn : HeldSeqs(c) = {} /\ sent[c] = {} /\ seq[c] = 0
        BY DEF HeldSeqs, Holders
    <2>2. QED BY <2>1 DEF MissingSeqsAreInFlight
<1>5. RingsReach
    BY DEF RingsReach, ReachesBack
<1>6. OwedCovered
    BY DEF OwedCovered
<1>7. QED BY <1>1, <1>2, <1>3, <1>4, <1>5, <1>6 DEF GatewayInv

LEMMA InvStep == ASSUME GatewayInv, [Next]_vars PROVE GatewayInv'
<1>1. CASE Next
    BY <1>1, TypesStep, PhasesStep, RegistryStep, SeqsStep, FeedStep, RingsStep, OwedStep
    DEF GatewayInv, FeedInv
<1>2. CASE UNCHANGED vars
    <2> USE <1>2 DEF vars, hub, channel, resume, dispatcher, shutdown
    <2>1. GatewayTypes'
        BY DEF GatewayInv, GatewayTypes, ConnTypes, HubTypes, ChannelTypes, ReplayTypes,
           DispatcherTypes, ShutdownTypes
    <2>2. (PhasesAgree /\ RegistryAgrees /\ SeqsApart)'
        BY DEF GatewayInv, PhasesAgree, RegistryAgrees, SeqsApart
    <2>3. (MissingSeqsAreInFlight /\ FeedInv)'
        BY DEF GatewayInv, MissingSeqsAreInFlight, HeldSeqs, Holders, FeedInv, FeedInOrder,
           LiveFeedLosesASuffix
    <2>4. (RingsReach /\ OwedCovered)'
        BY DEF GatewayInv, RingsReach, OwedCovered, LiveDue, InFanOut, ReplayDue, Since, Buffered
    <2>5. QED BY <2>1, <2>2, <2>3, <2>4 DEF GatewayInv
<1>3. QED BY <1>1, <1>2

LEMMA InvHolds == Spec => []GatewayInv
BY InvInit, InvStep, PTL DEF Spec

\* What connections, hub, channels, dispatcher and Shutdown hold stays in its types;
\* so a frame's seq, an event and a cursor are counts, and a replay is finite
\* (connection.go, hub.go, dispatcher.go).
THEOREM GatewayTypesHold == Spec => []GatewayTypes
<1>1. GatewayInv => GatewayTypes
    BY DEF GatewayInv
<1>2. QED BY <1>1, InvHolds, PTL

\* The hub's three indexes hold exactly the registered connections, by user and by
\* what each subscribed to, however registrations, subscribes, unsubscribes and
\* teardowns of any number of connections interleave (hub.go:102-172).
THEOREM GatewayRegistryAgrees == Spec => []RegistryAgrees
<1>1. GatewayInv => RegistryAgrees
    BY DEF GatewayInv
<1>2. QED BY <1>1, InvHolds, PTL

\* sendEvent, called by any number of goroutines on one connection, leaves no gap
\* in the seqs but those in flight, until a close is requested.
THEOREM GatewayMissingSeqsAreInFlight == Spec => []MissingSeqsAreInFlight
<1>1. GatewayInv => MissingSeqsAreInFlight
    BY DEF GatewayInv
<1>2. QED BY <1>1, InvHolds, PTL

\* A full channel closes the slow consumer, so what it loses of the live feed is
\* the end of it, whatever the buffer's size.
THEOREM GatewayLiveFeedLosesASuffix == Spec => []LiveFeedLosesASuffix
<1>1. GatewayInv => LiveFeedLosesASuffix
    BY DEF GatewayInv, FeedInv
<1>2. QED BY <1>1, InvHolds, PTL

\* CanReplay, ReplaySince and the fan-out meet without a gap: a subscriber that is
\* between two frames has every event it is owed, whatever the size of the rings.
THEOREM GatewayHandoverIsWhole == Spec => []HandoverIsWhole
<1>1. ASSUME GatewayInv PROVE HandoverIsWhole
    <2>1. SUFFICES ASSUME NEW c \in conns, reader[c] = "reading", ~closing[c], Idle
                   PROVE  owed[c] = {}
        BY DEF HandoverIsWhole
    <2>2. LiveDue(c) = {}
        BY <2>1 DEF LiveDue, InFanOut, Idle, Nobody
    <2>3. ReplayDue(c) = {}
        BY <2>1 DEF ReplayDue
    <2>4. QED BY <1>1, <2>1, <2>2, <2>3 DEF GatewayInv, OwedCovered
<1>2. QED BY <1>1, InvHolds, PTL
=============================================================================
