---------------------------- MODULE MessageSend ----------------------------
(***************************************************************************)
(* The send path of the chat module: SendMessage / sendOnce                *)
(* (chat/application/send.go), the sequence allocator over Redis and       *)
(* PostgreSQL (chat/infra/postgres/sequence_source.go), and the inserts and *)
(* guarded updates of the send transaction (message_repo.go,               *)
(* conversation_repo.go, change_log.go).                                   *)
(*                                                                         *)
(* A request is one call of SendMessage that has passed validation and the *)
(* membership gate.  Each of its calls to Redis or PostgreSQL is a step of *)
(* its own, so requests interleave between any two of them.  A row written *)
(* by an open transaction is visible to the other requests only through    *)
(* the unique indexes and row locks that make them wait.                   *)
(***************************************************************************)
EXTENDS Naturals, FiniteSets

CONSTANTS
    Conv,            \* conversations
    Key,             \* (sender_id, client_msg_id) pairs
    ConvOf,          \* the conversation the message with that key was written for
    Req,             \* SendMessage calls; a client's retry is another call, same key
    MaxSendRetries,  \* send.go:17
    MaxFaults,       \* bound on Redis errors, Redis restarts and failed floor reads
    AofLag           \* TRUE: a restarted Redis may come back with an older counter

ASSUME ConvOfAssumption == ConvOf \in [Key -> Conv]
ASSUME RetriesAssumption == MaxSendRetries \in Nat \ {0}
ASSUME FaultsAssumption == MaxFaults \in Nat
ASSUME AofAssumption == AofLag \in BOOLEAN

VARIABLES
    counter,     \* Redis conv:{id}:seq; 0 stands for an absent key
    floor,       \* committed conversation_sequences.last_sequence
    lastSeq,     \* committed conversations.last_message_seq; 0 stands for NULL
    messages,    \* committed rows of messages
    changeLog,   \* committed message.created rows of change_log
    nextGlobal,  \* the shared global_seq sequence
    faults,
    pc,          \* where each request is
    key,         \* the key each request carries
    attempt,     \* iteration of the retry loop in SendMessage
    durable,     \* the floor read during a cold bootstrap
    seq,         \* the sequence allocated to the attempt (or found by the replay)
    global,      \* global_seq of the outbox row appended by the open transaction
    answer       \* what the caller was told

shared == <<counter, floor, lastSeq, messages, changeLog, nextGlobal>>
local == <<pc, key, attempt, durable, seq, global, answer>>
vars == <<counter, floor, lastSeq, messages, changeLog, nextGlobal, faults,
          pc, key, attempt, durable, seq, global, answer>>

Message == [key : Key, seq : Nat]
Change == [key : Key, seq : Nat, global : Nat]

Steps == {"idle", "exists", "floor", "setnx", "incr", "pg", "insert", "replay",
          "persist", "append", "commit", "reply", "done", "dead"}
Answers == {"none", "created", "replayed", "conflict"}

TypeOK ==
    /\ counter \in [Conv -> Nat]
    /\ floor \in [Conv -> Nat]
    /\ lastSeq \in [Conv -> Nat]
    /\ messages \subseteq Message
    /\ changeLog \subseteq Change
    /\ nextGlobal \in Nat
    /\ faults \in 0..MaxFaults
    /\ pc \in [Req -> Steps]
    /\ key \in [Req -> Key]
    /\ attempt \in [Req -> 1..MaxSendRetries]
    /\ durable \in [Req -> Nat]
    /\ seq \in [Req -> Nat]
    /\ global \in [Req -> Nat]
    /\ answer \in [Req -> Answers]

\* The key a request carries is chosen at the start; no step reads it before
\* Start, so every request may begin with any key.
Init ==
    /\ counter = [c \in Conv |-> 0]
    /\ floor = [c \in Conv |-> 0]
    /\ lastSeq = [c \in Conv |-> 0]
    /\ messages = {}
    /\ changeLog = {}
    /\ nextGlobal = 1
    /\ faults = 0
    /\ pc = [r \in Req |-> "idle"]
    /\ key \in [Req -> Key]
    /\ attempt = [r \in Req |-> 1]
    /\ durable = [r \in Req |-> 0]
    /\ seq = [r \in Req |-> 0]
    /\ global = [r \in Req |-> 0]
    /\ answer = [r \in Req |-> "none"]

Greatest(a, b) == IF a < b THEN b ELSE a

conv(r) == ConvOf[key[r]]
Goto(r, l) == pc' = [pc EXCEPT ![r] = l]

\* A call to Redis or a pool read fails; MaxFaults bounds how often.
Fault == faults < MaxFaults /\ faults' = faults + 1

-----------------------------------------------------------------------------
(***************************************************************************)
(* SendMessage: enter the retry loop.                                      *)
(***************************************************************************)
Start(r) ==
    /\ pc[r] = "idle"
    /\ Goto(r, "exists")
    /\ UNCHANGED <<shared, faults, key, attempt, durable, seq, global, answer>>

(***************************************************************************)
(* SequenceSource.Next: EXISTS, then for an absent key the durable floor   *)
(* and SET NX, then INCR; an error of EXISTS or INCR falls back to         *)
(* PostgreSQL, an error of the floor read or of SET NX is ignored.         *)
(***************************************************************************)
CheckCounter(r) ==
    /\ pc[r] = "exists"
    /\ \/ /\ Goto(r, IF counter[conv(r)] = 0 THEN "floor" ELSE "incr")
          /\ UNCHANGED faults
       \/ Fault /\ Goto(r, "pg")
    /\ UNCHANGED <<shared, key, attempt, durable, seq, global, answer>>

ReadFloor(r) ==
    /\ pc[r] = "floor"
    /\ \/ /\ durable' = [durable EXCEPT ![r] = floor[conv(r)]]
          /\ Goto(r, IF floor[conv(r)] > 0 THEN "setnx" ELSE "incr")
          /\ UNCHANGED faults
       \/ /\ Fault
          /\ Goto(r, "incr")
          /\ UNCHANGED durable
    /\ UNCHANGED <<shared, key, attempt, seq, global, answer>>

Bootstrap(r) ==
    /\ pc[r] = "setnx"
    /\ \/ /\ IF counter[conv(r)] = 0
             THEN counter' = [counter EXCEPT ![conv(r)] = durable[r]]
             ELSE UNCHANGED counter
          /\ UNCHANGED faults
       \/ Fault /\ UNCHANGED counter
    /\ durable' = [durable EXCEPT ![r] = 0]
    /\ Goto(r, "incr")
    /\ UNCHANGED <<floor, lastSeq, messages, changeLog, nextGlobal,
                   key, attempt, seq, global, answer>>

\* A faulty variant: the next number after the newest committed message.
Increment_FromMax(r) ==
    /\ pc[r] = "incr"
    /\ seq' = [seq EXCEPT ![r] = lastSeq[conv(r)] + 1]
    /\ Goto(r, "insert")
    /\ UNCHANGED <<shared, faults, key, attempt, durable, global, answer>>

Increment(r) ==
    /\ pc[r] = "incr"
    /\ \/ /\ counter' = [counter EXCEPT ![conv(r)] = @ + 1]
          /\ seq' = [seq EXCEPT ![r] = counter[conv(r)] + 1]
          /\ Goto(r, "insert")
          /\ UNCHANGED faults
       \/ /\ Fault
          /\ Goto(r, "pg")
          /\ UNCHANGED <<counter, seq>>
    /\ UNCHANGED <<floor, lastSeq, messages, changeLog, nextGlobal,
                   key, attempt, durable, global, answer>>

\* The transaction of q holds an inserted, uncommitted message row ...
Uncommitted(q) == pc[q] \in {"persist", "append", "commit"}
\* ... and, once Persist has run, the row lock on conversation_sequences.
HoldsFloorRow_NoRollback(q) ==  \* a faulty variant: a dead call keeps its lock
    pc[q] \in {"append", "commit"} \/ (pc[q] = "dead" /\ global[q] > 0)
HoldsFloorRow(q) == pc[q] \in {"append", "commit"}

FloorRowFree_NoLock(r) == TRUE  \* a faulty variant: Persist after the commit
FloorRowFree(r) ==
    \A q \in Req \ {r} : conv(q) = conv(r) => ~HoldsFloorRow(q)

\* nextFromPG: UPDATE ... last_sequence + 1 RETURNING, in its own transaction.
NextFromPG(r) ==
    /\ pc[r] = "pg"
    /\ FloorRowFree(r)
    /\ floor' = [floor EXCEPT ![conv(r)] = @ + 1]
    /\ seq' = [seq EXCEPT ![r] = floor[conv(r)] + 1]
    /\ Goto(r, "insert")
    /\ UNCHANGED <<counter, lastSeq, messages, changeLog, nextGlobal, faults,
                   key, attempt, durable, global, answer>>

-----------------------------------------------------------------------------
(***************************************************************************)
(* The INSERT of the send transaction.  The partial unique index on        *)
(* (sender_id, client_msg_id) is the ON CONFLICT arbiter: a committed row  *)
(* with the key collapses the insert, an uncommitted one makes it wait.    *)
(* The primary key (conversation_id, sequence) comes second.               *)
(***************************************************************************)
KeyTaken(k) == \E m \in messages : m.key = k
SlotTaken(c, s) == \E m \in messages : ConvOf[m.key] = c /\ m.seq = s

KeyPending_Unchecked(r) == FALSE  \* a faulty variant: SELECT before INSERT, no index
KeyPending(r) ==
    \E q \in Req \ {r} : Uncommitted(q) /\ key[q] = key[r]
SlotPending(r) ==
    \E q \in Req \ {r} : Uncommitted(q) /\ conv(q) = conv(r) /\ seq[q] = seq[r]

\* ON CONFLICT DO NOTHING: the caller goes on to re-select the original row.
InsertCollapsed(r) ==
    /\ pc[r] = "insert"
    /\ KeyTaken(key[r])
    /\ Goto(r, "replay")
    /\ UNCHANGED <<shared, faults, key, attempt, durable, seq, global, answer>>

\* A faulty variant: one attempt more than maxSendRetries.
InsertConflict_OneMore(r) ==
    /\ pc[r] = "insert"
    /\ ~KeyTaken(key[r]) /\ ~KeyPending(r)
    /\ SlotTaken(conv(r), seq[r])
    /\ attempt[r] <= MaxSendRetries
    /\ attempt' = [attempt EXCEPT ![r] = @ + 1]
    /\ Goto(r, "exists")
    /\ UNCHANGED <<shared, faults, key, durable, seq, global, answer>>

\* Primary-key violation: ErrSequenceConflict, rollback and next attempt; after
\* the last attempt the caller is told.
InsertConflict(r) ==
    /\ pc[r] = "insert"
    /\ ~KeyTaken(key[r]) /\ ~KeyPending(r)
    /\ SlotTaken(conv(r), seq[r])
    /\ \/ /\ attempt[r] < MaxSendRetries
          /\ attempt' = [attempt EXCEPT ![r] = @ + 1]
          /\ Goto(r, "exists")
          /\ UNCHANGED answer
       \/ /\ attempt[r] = MaxSendRetries
          /\ answer' = [answer EXCEPT ![r] = "conflict"]
          /\ Goto(r, "done")
          /\ UNCHANGED attempt
    /\ UNCHANGED <<shared, faults, key, durable, seq, global>>

InsertRow(r) ==
    /\ pc[r] = "insert"
    /\ ~KeyTaken(key[r]) /\ ~KeyPending(r)
    /\ ~SlotTaken(conv(r), seq[r]) /\ ~SlotPending(r)
    /\ Goto(r, "persist")
    /\ UNCHANGED <<shared, faults, key, attempt, durable, seq, global, answer>>

\* A faulty variant: the replay answers with the row it failed to insert.
Replay_OwnRow(r) ==
    /\ pc[r] = "replay"
    /\ answer' = [answer EXCEPT ![r] = "replayed"]
    /\ Goto(r, "done")
    /\ UNCHANGED <<shared, faults, key, attempt, durable, seq, global>>

\* replayOriginal: the arbiter made the insert wait for the winner, so the row
\* is committed when the transaction looks for it, and messages are only ever
\* tombstoned in place.
Replay(r) ==
    /\ pc[r] = "replay"
    /\ \E m \in messages :
          /\ m.key = key[r]
          /\ seq' = [seq EXCEPT ![r] = m.seq]
    /\ answer' = [answer EXCEPT ![r] = "replayed"]
    /\ Goto(r, "done")
    /\ UNCHANGED <<shared, faults, key, attempt, durable, global>>

\* Persist: UPDATE conversation_sequences takes the row lock; the new floor
\* is visible to others at Commit.
Persist(r) ==
    /\ pc[r] = "persist"
    /\ FloorRowFree(r)
    /\ Goto(r, "append")
    /\ UNCHANGED <<shared, faults, key, attempt, durable, seq, global, answer>>

\* BumpLastMessage, then the outbox row: nextval of the shared sequence is
\* drawn here, while the transaction holds the conversation's rows.
Append(r) ==
    /\ pc[r] = "append"
    /\ global' = [global EXCEPT ![r] = nextGlobal]
    /\ nextGlobal' = nextGlobal + 1
    /\ Goto(r, "commit")
    /\ UNCHANGED <<counter, floor, lastSeq, messages, changeLog, faults,
                   key, attempt, durable, seq, answer>>

\* The floor that Persist writes and the last_message_seq that
\* BumpLastMessage writes (its WHERE leaves a newer one alone).
PersistedFloor_LastWriter(c, s) == s  \* a faulty variant: no GREATEST
PersistedFloor(c, s) == Greatest(floor[c], s)
BumpedLast_LastWriter(c, s) == s  \* a faulty variant: no guard on last_message_seq
BumpedLast(c, s) == Greatest(lastSeq[c], s)

Commit(r) ==
    /\ pc[r] = "commit"
    /\ messages' = messages \cup {[key |-> key[r], seq |-> seq[r]]}
    /\ floor' = [floor EXCEPT ![conv(r)] = PersistedFloor(conv(r), seq[r])]
    /\ lastSeq' = [lastSeq EXCEPT ![conv(r)] = BumpedLast(conv(r), seq[r])]
    /\ changeLog' = changeLog \cup
          {[key |-> key[r], seq |-> seq[r], global |-> global[r]]}
    /\ Goto(r, "reply")
    /\ UNCHANGED <<counter, nextGlobal, faults,
                   key, attempt, durable, seq, global, answer>>

Reply(r) ==
    /\ pc[r] = "reply"
    /\ answer' = [answer EXCEPT ![r] = "created"]
    /\ Goto(r, "done")
    /\ UNCHANGED <<shared, faults, key, attempt, durable, seq, global>>

-----------------------------------------------------------------------------
\* A PostgreSQL error, a cancelled request context or a crash of the instance
\* ends the call; an open transaction is rolled back with it.
Die(r) ==
    /\ pc[r] \notin {"idle", "done", "dead"}
    /\ Goto(r, "dead")
    /\ UNCHANGED <<shared, faults, key, attempt, durable, seq, global, answer>>

\* Redis restarts or fails over: the counter is gone, or with AofLag it comes
\* back as the value of an earlier moment.
CounterSetBack(c) ==
    /\ Fault
    /\ \E v \in 0..counter[c] :
          /\ v < counter[c]
          /\ v = 0 \/ AofLag
          /\ counter' = [counter EXCEPT ![c] = v]
    /\ UNCHANGED <<floor, lastSeq, messages, changeLog, nextGlobal, local>>

Allocate(r) ==
    CheckCounter(r) \/ ReadFloor(r) \/ Bootstrap(r) \/ Increment(r) \/ NextFromPG(r)
Transact(r) ==
    \/ InsertCollapsed(r) \/ InsertConflict(r) \/ InsertRow(r) \/ Replay(r)
    \/ Persist(r) \/ Append(r) \/ Commit(r)
Serve(r) == Start(r) \/ Allocate(r) \/ Transact(r) \/ Reply(r)

\* Every call has ended: the only state in which nothing is left to do.
Finished ==
    /\ \A r \in Req : pc[r] \in {"done", "dead"}
    /\ UNCHANGED vars

Next ==
    \/ \E r \in Req : Serve(r) \/ Die(r)
    \/ \E c \in Conv : CounterSetBack(c)
    \/ Finished

Spec == Init /\ [][Next]_vars

\* The Go scheduler, PostgreSQL and Redis let a call that can take its next
\* step take it; faults, crashes and new calls are not promised.
FairSpec == Spec /\ \A r \in Req : WF_vars(Serve(r) /\ pc[r] # "idle")

-----------------------------------------------------------------------------
(***************************************************************************)
(* Properties.                                                             *)
(***************************************************************************)

SeqsOf(c) == {m.seq : m \in {n \in messages : ConvOf[n.key] = c}}

\* However many calls carry one (sender, client_msg_id), and wherever they die,
\* one row is committed for it, under a sequence of its own, and every call that
\* succeeds names that row (send.go:24-26, message_repo.go:32-38).
ExactlyOnce ==
    /\ \A m, n \in messages :
          (m.key = n.key \/ (ConvOf[m.key] = ConvOf[n.key] /\ m.seq = n.seq)) => m = n
    /\ \A r \in Req :
          answer[r] \in {"created", "replayed"}
              => [key |-> key[r], seq |-> seq[r]] \in messages

\* The durable floor never falls behind a committed message, in whatever order
\* the transactions commit and whatever the PostgreSQL fallback handed out: what
\* a cold start of the counter relies on (sequence_source.go:79-81).
FloorCoversMessages ==
    \A m \in messages : m.seq <= floor[ConvOf[m.key]]

\* The chat list shows the newest message of each conversation even when an
\* older sequence commits later (conversation_repo.go:116-120).  This is about the
\* sends: UpdateConversation, outside this module, writes the column from its read.
LastMessageIsNewest ==
    \A c \in Conv :
        /\ lastSeq[c] \in SeqsOf(c) \cup {0}
        /\ \A s \in SeqsOf(c) : s <= lastSeq[c]

\* The row lock that Persist takes before the outbox row draws its global_seq
\* makes the outbox of one conversation's messages commit in global order: no
\* committed message.created row of a conversation is newer than one still to be
\* committed, so a reader of that conversation's rows never passes one by
\* (send.go:126-140).
ConversationFeedInOrder ==
    \A r \in Req : pc[r] = "commit" =>
        \A e \in changeLog : ConvOf[e.key] = conv(r) => e.global < global[r]

\* INCR is atomic: without a fault of Redis or of the floor read no two calls
\* are given one sequence, so the retry loop is not entered a second time
\* (DATABASE.md 12, "distinct sequences").
RetriesOnlyAfterFaults ==
    faults = 0 => \A r \in Req : attempt[r] = 1

\* No call waits for ever on an index entry or a row lock of another: a call
\* that has entered the retry loop is answered or dies (send.go:56-67).
CallsEnd ==
    \A r \in Req : pc[r] = "exists" ~> pc[r] \in {"done", "dead"}

\* What a caller may rely on, as an abstract log of messages.
Log == INSTANCE MessageLog WITH
    log <- messages,
    wants <- key,
    outcome <- [r \in Req |->
        IF answer[r] \in {"created", "replayed"} THEN "ok"
        ELSE IF pc[r] \in {"done", "dead"} THEN "failed" ELSE "none"],
    got <- [r \in Req |-> IF answer[r] \in {"created", "replayed"} THEN seq[r] ELSE 0]

\* The send path implements MessageLog, with Redis losing its counters and
\* calls dying at any step (send.go:19-26).
ImplementsLog == Log!LogSpec
=============================================================================
