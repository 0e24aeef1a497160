# A verification model of the messaging server

TLA+ models of the Go server under `src/server`, the TLC runs that check them on small
instances, and TLAPS proofs of what holds for every instance. `PROJECT.json` maps every
definition to the source lines it translates, lists the runs, the mutants that show each
property can fail, the hazards and the theorems.

## The system

One Go process, `api-server`, run as several instances over one PostgreSQL and one Redis.
Requests are independent goroutines; nothing but PostgreSQL, Redis and
the per-process hub and buffers is shared. Transactions are READ COMMITTED; most services
read through the connection *pool* first and open a transaction only to write, so what
they decided on may be stale when they write it. That is where most hazards live.

| Component | State | Operations | Made correct by | Module |
| --- | --- | --- | --- | --- |
| Message send (`chat/application/send.go`, `sequence_source.go`) | `messages`, `conversation_sequences`, `conversations.last_message_*`, `change_log`, Redis counter | SendMessage with its retry loop, SequenceSource.Next and its PostgreSQL fallback | one row per (sender, client_msg_id), one sequence per row, floor and last message cover it, outbox in order | `MessageSend`, `MessageLog` |
| Membership, preferences, receipts (`members.go`, `prefs.go`, `receipts.go`) | `conversation_members`, `deleted_at`, receipt rows | MarkRead, SetMute/Pin/Archive, AddMembers, RemoveMember, ChangeMemberRole | cursors and checks hold, senders get their receipts, a group keeps its owner | `Membership` |
| Outbox relay and dispatcher (`relay.go`, `dispatcher.go`) | `change_log`, relay cursor, Redis channel, dedupe set, replay buffer | Relay.Run, Dispatcher.Run, CanReplay/ReplaySince | every row reaches every instance, duplicates collapse, a resume is whole | `Outbox` |
| Sessions and tokens (`login.go`, `refresh.go`, `sessions.go`, `authenticate.go`) | `user_sessions`, `users.token_version`, `account_state` | login, refresh, logouts, password and account flows as they end sessions, sweeps | a token is spent once, what is ended stays ended | `Sessions` |
| Account security flows (`account_security_flows.go`, `register.go`), login throttle | `users`, `user_credentials`, `auth_tokens`, one-time codes, failure counters | register, reset, password and identifier change, delete, restore, purge, login up to the session | tokens act once, a purge takes only what is past its grace period, a deleted account is left alone | `Account` |
| Realtime gateway (`hub.go`, `connection.go`, `handler.go`) | hub registry, subscriptions, send channels, per-connection seq, replay ring | register, deliver, subscribe, resume, force-close, shutdown | registry and connections agree, a slow consumer loses a suffix, a resume hands over without a gap, teardown ends | `Gateway` |
| Presence (`presence/*`) | Redis hash and sets with TTLs, conversations of interest | connect, disconnect, touch, sweep, broadcast | a user is online exactly while connected, peers agree, what a crash left expires | `Presence`, `PresencePromises` |
| Conversations (`create.go`, `update.go`) | `conversations`, direct pairs | create, update | one direct conversation per pair, the last message survives an update | `Chat`, `Idempotency` |
| Edits, deletes, reactions, history | `messages`, `message_edits`, `message_reactions` | edit, delete, react, poll | a tombstone is final, the outbox gives the rows, no body is lost | `Chat` |
| Idempotency middleware (`idem.go`) | Redis response and lock keys | Idempotency around a handler | one execution per key | `Idempotency` |
| WebSocket rate limits, id generator, HTTP delivery, password hashing, JWTs, wiring, migrations | - | - | sequential, cryptographic or storage layout | not modelled, or used where a module needs it |

Interactions: a send, a receipt, an edit or a member change appends a `change_log` row in its
own transaction; relays poll that table and publish on one Redis channel; every dispatcher
receives the channel and routes to the sockets of its instance through the hub; presence and
typing publish on the channel without the outbox. `sessions:revoke` is subscribed by every
instance, and nothing in `src` publishes on it. Authentication is one read of the user
and the session per request.

The paths above are under `src/server/internal/`.

## The modules

In all modules one PostgreSQL statement, Redis command or pool read is one action, so calls
interleave between any two of them. What an open transaction wrote is kept apart from the
committed tables, locks the rows it covers and becomes visible in a `Commit`. `Fail` (`Die` in
`MessageSend`, `Leave` and `Abort` in `Idempotency`) ends a call at any step and rolls back: a
refused check, a failed statement, a cancelled request and a crash look alike from outside.
Variables marked *history* are read by properties only. Definitions with a name like
`Holds_Grace`, marked "a faulty variant", are what the mutants put in place of a modelled
definition; no specification uses them.

**MessageSend** follows `SendMessage` through `SequenceSource.Next` (`CheckCounter`,
`ReadFloor`, `Bootstrap`, `Increment`, and `NextFromPG` after a Redis error), the insert
with its two unique indexes (`InsertRow`, `InsertCollapsed`, `InsertConflict`), `Replay`,
`Persist`, `Append`, `Commit` and `Reply`. `CounterSetBack` is Redis restarting without its
key or, with `AofLag`, failing over to an older counter. The membership gate, validation, the
message's content and the separate `messages_global_seq` that the insert also draws are
left out (`Chat` has the latter). **MessageLog** is what a caller may rely on: record at most
once per key, acknowledge only what is recorded. `MessageSend` refines it.

**Outbox** has writers that draw a `global_seq` at the insert and commit or roll back later,
and per instance a relay (`StartRelay`, `Poll`, `Publish`, `PublishFails`) and a dispatcher
(`Subscribe`, `Drop`, `Dispatch`). `Restart` loses all a process held. `late` is history: the
rows that became visible after a relay had read past them. Routing to sockets is the
gateway's.

**Gateway** takes over where the dispatcher hands an event to the hub. A socket goes through
`Accept`, `Register`, `Greet`, `Run` and `Unregister`; its read pump handles one frame at a
time (`HandleSubscribe`/`Subscribe`, `HandleUnsubscribe`, `HandleResume`, `ReadReplay`,
`SendResumeAck`, `HandleCall` for everything that ends in one reply, `HandleGarbage`); its write
pump is `Write`, `WriteFails`, `HeartbeatLost`, `Close`. `sendEvent` is two steps, `Stamp` under
`seqMu` and `Enqueue` after it, so the endpoint, the dispatcher (`Dispatch`, `ToConversation`,
`ToUsers`, `Deliver`) and `Shutdown` (`BeginShutdown`, `Announce`, `FinishShutdown`) may each hold
a stamped frame for one connection. The calls into the chat service, payloads, close codes and
rate limits are left out.

**Presence** has one user's sockets on several instances: the atomic scripts `Connect` and
`Disconnect`, the broadcasts that follow them as steps of their own, the sweeper's `BeginSweep`,
`TouchOnline`, `TouchConns`, and time in sweep intervals (`Tick`, `Expire`). A call to Redis may fail
with or without effect, a broadcast may fail, a process may crash and another take its name.
`PresencePromises` has the state that can be seen from outside, the sockets, the members in Redis
and what a peer was told, and the properties over it; `Presence` extends it with the keys' TTLs,
the sweeps and the actions.

**Chat** is one conversation: its settings row, one message of it with edits and reactions,
and sends. Each call reads through the pool (`Begin...`, `CountReactions`, `CountDistinct`), writes
under row locks (`ApplyEdit`, `ApplyTombstone`, `AddRow`, `DeleteRow`, `ApplyUpdate`, `Bump`), draws its
outbox row (`Append`) and commits. `Poll` is `ListMessages` after a cursor. How a send gets its
sequence belongs to `MessageSend`, who is a member to `Membership`.

**Membership** is one group: each call's `FindActive` is its `Begin...` action, the second
read `SelectCursors`, `LookUpTarget` or `LookUpMembers`, the write `UpdateCursors`, `UpdatePrefs`,
`UpdateRole`, `RemoveRow` with `CountActive`, or `Upsert`. Whole-row writes write the row
as it was *read*; MarkRead, RemoveRow and Upsert work on the newest version. Messages commit at
any moment and in any order (`Send`), and MarkRead may name any positive sequence, with a
message or without; whom it tells is read by a step of its own, `ListSenders`. How a message gets
its sequence belongs to `MessageSend`; `muted_until` and the membership events are left out.

**Sessions** is one account with its `user_sessions` rows by device. A token pair is named
by the call that issued it. Login is `BeginLogin`, `FindDevice` (a pool read), `UpdateDevice`
or `CreateDevice`; refresh `LockCurrent`, `ReadAccount`, `Rotate`, or `LockPrevious` for a
reuse; what ends sessions is `UpdateUser`, then `Scan` and `UpdateSessions`, the two halves
of an UPDATE of many rows that waits for locks and looks again. `Age` lets a row go unwritten
for as long as the sweeps wait, which is days, and so happens only between calls;
`ExpireIdle` and `Purge` then act at any moment. Credentials, codes, the throttle, suspended
accounts, device names and the audit log are left out: a check passes or ends the call.

**Account** is the other half of those flows: the rows of users, credentials and recovery
tokens, the one-time codes and the failure counters. Registration is `BeginRegister`,
`CheckFree`, `InsertUser`, `CommitRegister`; a token is issued by `IssueToken` and used by
`Consume`, `FindOwner` (a pool read inside the transaction) and the change itself; deletion,
restoration and purge are `MarkDeleted`, `FindDeleted`/`Restore` and `LockExpired`/`DeleteRows` with
their commits. Login runs up to the session: the lockout gate, the lookup, the check, the
counter. The gate is two reads of Redis, the counter in `BeginLogin` and its TTL in `AskTTL`, and the
counter may end (`FailuresExpire`) or come to its last half second (`FailuresEnding`) before, between
and after them. Phone and email, which are handled alike, are one identifier. The audit log and the
login history are written and never read by these flows.

**Idempotency** wraps the handler that creates conversations: `Get`, `Acquire` (SET NX with its
TTL), the handler's `Check`, `FindDirectPair`, `Create` and `ReadNames`, then `Store` and `Release`. The
lock expires whenever time wants it to (`LockExpires`). A client that leaves cancels all
further Redis and PostgreSQL calls, except a COMMIT already on its way.

## The runs

| Run | Instance | Shows |
| --- | --- | --- |
| `send` | 3 calls, 2 keys, 1 conversation, 2 attempts, 3 faults | exactly once, floor, last message, feed order, no retry without a fault, refinement of `MessageLog` |
| `send_live` | 2 calls, the same faults, fair | no call waits for ever |
| `outbox` | 2 writers, 2 instances, 1 fault, dedupe 1, ring 1, batch 2, fair | what a relay skips, when duplicates are routed, what a resume holds, rows arrive |
| `gateway` | 1 socket, 2 events, 2 client frames, channel 1, ring 1, 1 fault, fair | registry, seqs, slow consumers, resume hand-over, teardown ends, also while Shutdown runs |
| `presence` | 2 sockets, 2 instances, 2 ids, 1 fault, fair | online while connected, peers agree, ghosts expire |
| `chat` | 3 calls of all kinds, a sender and an admin, 2 emoji of which 1 may be used, pages of 1 | outbox against rows, lost bodies, the reaction limit, what an update undoes, what a poll misses |
| `membership` | 3 users, 3 calls of all kinds, 2 messages of 2 senders, sequences 1 and 3 named by requests | receipts, table checks, the owner |
| `cursor_regress` | 2 calls | **violated**: a preference write undoes a MarkRead |
| `tombstone` | 2 calls | **violated**: the last leaver leaves a live conversation |
| `sessions` | 2 devices, one new, 3 calls of all kinds | tokens spent once, dead tokens stay dead |
| `account` | 2 calls of all kinds, 1 account, 2 identifiers, 1 failure allowed | recovery tokens, lockout, purge, deleted accounts |
| `idem` | 3 requests of 2 users, 1 key | when a key is executed again, when a pair gets a second conversation |

Bounds, and why they are enough for what is asked. *Calls*: every hazard listed is a race of
two calls; the third lets a race happen against the outcome of another one (a retry after
a conflict, a refresh after two logins, an edit after two that overlapped). In `account` two
calls suffice since the account, its token and its state at the start stand for what earlier
calls left. *Conversations*: the rows, locks, counters and rings
of different conversations are disjoint, so one is enough; so are the slots of different
idempotency keys. *MaxFaults*, *MaxSendRetries*, *MaxFailures* and
the capacities are small so that the limit itself is reached. Three faults in `send` reach a
failed INCR, a lost counter and a failed floor read in one behaviour. Two rows in `outbox`
suffice for one to evict or overtake the other. In `gateway` connections share nothing but the
registry's sets, the ring and the goroutines that send, each of which is a sender of its own
with one socket too; two events make a ring overflow and a consumer slow, two frames are a
subscribe and a resume. Two sockets and two instances in `presence` cover same and different
instance; ids grow only by reconnecting. Two messages in `membership` give a receipt with
two senders, and the sequences that requests name, 1 and 3, a cursor that can move twice: onto a
message, and beyond the newest, before or after the messages below it commit. Symmetry is used over interchangeable calls,
requests and users, in safety runs only.

Deadlock is checked in `send` and `send_live`, whose `Finished` step marks the only
state that may stop. The other specifications run out of calls, rows, frames or faults and may
stop, so their configurations say `CHECK_DEADLOCK FALSE`.

Fairness. In `MessageSend` each call that has begun is weakly fair: a goroutine is scheduled
and PostgreSQL wakes lock waiters; that a call begins, a fault or a crash is not promised.
In `Outbox` a relay's loop and a dispatcher's are weakly fair: the ticker fires again after every
failed poll (`relay.go`), and `app.go` supervises the dispatcher. The relay is *not* supervised:
its first read of the head may fail and stop it for good, which `RowsReachDispatchers` allows
for. Writers need not commit. In `Gateway` only a connection's own two goroutines are fair; their
waits are bounded by deadlines on every read, write and ping (`connection.go`), and neither client,
peer, dispatcher nor operator has to act. In `Presence` the sweepers' tickers, key expiry and the
clock are fair; no client has to open or close a socket.

## Where the code and its words disagree

Two claims of comments are refuted by the code, each by a run and quoted in `PROJECT.json`
under `findings`: read cursors regress under whole-row updates (`cursor_regress`), and the last
leaver does not tombstone the conversation, since `CountActive` reads through the pool
(`tombstone`).

Other places where a comment promises more than the modelled code keeps; the properties
state what does hold:

- *Send, outbox.* After the PostgreSQL fallback the counter hands out a sequence that is
  taken (`sequence_source.go:19-22`); the primary key and the retry loop absorb it. A row that draws
  its `global_seq` first and commits late is published by no relay that had passed it
  (`late` in `Outbox`). `CanReplay` looks at the oldest event of each ring only, so a window in
  which events arrived out of order may have a hole.
- *Chat.* Overlapping edits keep one old body twice and lose the one between (API.md:812,
  migration 7:69). Two overlapping additions pass the limit of distinct reactions (API.md:830). A settings
  update takes the last message back (`conversation_repo.go:116-120`). A message that commits
  below a client's cursor is in no delta poll (`history.go:12-15`).
- *Receipts.* MarkRead takes a sequence beyond the newest message (`receipts.go:18-27`;
  `receipts_test.go:77` marks 5 of 3). A message that commits below such a cursor shows as
  read from the start and its sender is never told, nor is the sender of a message that commits after
  a MarkRead has listed the senders up to a later one (`early` in `Membership`).
- *Idempotency.* "Can never create duplicates" (`idem.go:15-18`) fails when the lock's 10 s end
  under a running handler, whose DEL then takes another request's lock; when a retry reads the
  cache before and takes the lock after the first execution; when the names are not read after
  the commit and the 5xx is not cached (`create.go:135-138`); and when the client leaves. Two creates
  that overlap give a pair two direct conversations (`create.go:34-35`).
- *Gateway.* A socket that registers after Shutdown listed the connections is closed by nothing but
  the end of the process (`hub.go:232-234`: Shutdown "returns after all connections are closed"). Sustained rate-limit abuse closes with
  4502 where `handler.go:150` and API.md:1341 say 4501.
- *Presence.* A client may say `offline` while its socket is open (`handler.go:323-326`), and its
  peers are told so (`service.go:99-108`), in a broadcast that unlike the one of a disconnect has no
  `last_seen_at`. It stands until the next transition or update, also when that client leaves and
  another device of the user stays. A sweep that fails may lose a user that is connected until it reconnects
  (`service.go:91`). The field of a crashed instance lives as long as another instance touches the
  hash, so the last disconnect is not taken for one and nobody is told. Unsubscribing on one
  device drops the interest of all of them.
- *Account.* `login.go:42-45` takes what is left of the lockout to be above zero exactly while the
  identifier is locked. It is a TTL in whole seconds, rounded, and 0 in the last half second: a login
  then passes the gate with the counter at its limit. `PurgeDeleted` fails as a whole when one account of its batch has written in a
  chat, since those rows refer to users without ON DELETE (`account_security_flows.go:448-453`
  promises hard deletion); neither it nor the session sweeps have a caller. A reset or change of
  the password of an account that has none reports success and writes no row. A password
  attempt on such an account is not counted as a failure. A deleted account holds its phone
  and email, which `identifierTaken` does not see: a registration takes the code and then fails.
- *Sessions.* Two logins that overlap on one device leave one of the pairs they return in no row.

## What is proved

Eight modules hold proofs: `MessageSendProofs`, `MembershipProofs`, `SessionsProofs`,
`AccountProofs`, `IdempotencyProofs`, `OutboxProofs`, `GatewayProofs` and `ChatProofs`. Those about
`Presence`, which shares the api-server instances with `Outbox`, are the last part of `OutboxProofs`:
the two specifications have names in common (`Init`, `Next`, `faults`), so it extends
`PresencePromises` for the state and the properties and instantiates `Presence` as `P`. The theorems hold for every number of calls, keys,
conversations, users, devices, identifiers, connections, sockets, instances, faults and retries and
every capacity, from the constants' named assumptions alone; those about `Presence` need none.

*MessageSend.* `TypeOK` is inductive. The others follow from an invariant on what each call
knows at its step: an open transaction's key and sequence differ from every other open
and committed one's (the unique indexes, stated as waiting), a call at `replay` or `reply` has its row
committed, the holder of the floor row is the only one of its conversation, and `global` is
below `nextGlobal` and above the committed rows of the conversation while the row is held.
`ExactlyOnce` alone is not inductive because it says nothing of uncommitted rows.
`RetriesOnlyAfterFaults` is a matter of numbers: before the first fault the counter is at or above
every committed sequence, and no two calls that were given one were given the same (`FaultFree`).
`SendImplementsLog` maps each step: `Commit` to Record, `Reply` and `Replay` to Acknowledge,
`Die` and the last `InsertConflict` to Fail, the rest to stuttering.

*Membership.* `ToldInv` carries "what the row's cursors claim has been told" through every
copy of the row that a call holds, committed or not: a stale copy written back claims no
more than was told when it was read. A message that commits after a MarkRead listed the senders
up to it or beyond is the exception, on the call's record while its transaction is open (`ahead`)
and from its commit on in `early`. `SoundInv` does the same for the table's checks.
`OwnerInv` carries "no call holds a writable copy that demotes the creator or adds it again".

*Sessions.* The tokens say little about committed rows alone, so the invariant says of each
row an open transaction holds that it is a copy of the committed one, working only if that
one does, or a fresh row with the token the call is about to hand out (`Rows`); that no two
transactions hold one row (`Apart`); that a committed row holds a token handed out for it and
no other (`Tokens`); and that what a call has to end is first among the rows it picked, then
among the rows it ended, then gone (`Ending`). `TokensSpentOnce` follows because a spent
token is in no row (`Spent`), `EndedTokensAreDead` from `Ending` and the bumped version,
`DeadTokensStayDead` because neither a commit nor a sweep revives a row with its old token.

*Account.* A call relies at its COMMIT on what it looked at steps before, so the invariant
says what its locks keep true meanwhile: the token it consumed is there, locked and unused
(`Consumed`); the accounts it purges are locked and past their grace period, and so are all tokens
of theirs (`Purging`); the account it changes is there (`Changing`). Locks are exclusive
(`Apart`), and what a call creates is not there before it ends (`Created`). With `UsesInv`, a live
token has changed nothing yet, this gives `TokensActOnce`. The pool read takes no lock: an account a
call has read may be deleted under it, and then the deletion is on the call's record
(`Reading`), which is what `DeletedChangeOnlyByOverlap` needs. `LoginInv` says of a login past the gate
that the counter is below the limit plus the failures it has met since, or else that it passed
in the last half second of the counter's life (`late`), which is not over yet, or has met a
failure, with which a new life began. `LockoutPassedOnlyAtItsEnd` follows; the other two
action properties follow from a list of who writes users and passwords at all (`Writers`).
`RowsAssumption` says that the absence of a row is not a row.

*Idempotency.* What a request looked at it may still rely on: its own lock unless one expired
on its slot (`LockInv`), an empty cache as far as the requests that had ended before it go (`QuietInv`),
a pair without a conversation as far as theirs go (`PairInv`). All three speak of requests that
ended before this one came, since those do not change any more (`PastInv`); of the ones that
overlap nothing can be said, which is why the properties do not.

*Outbox.* A `global_seq` belongs to one row, whether its transaction is open or committed
(`RowsApart`). A relay's batch is all that was visible between its cursor and the batch's last
row (`BatchIsWhole`): publishing it in order and moving the cursor only behind what was
published gives `NoReadableRowSkipped`. That the oldest `BatchSize` rows, listed in order, leave no
row out between them is a counting argument over ranks (`ListAfterIsWhole`). The dedupe set is what
was routed last (`SeenIsRecent`), which gives `DuplicatesOnlyAfterEviction`. If the events came in
order, a conversation's ring is the end of its events and whatever was cut off is older than
what the ring starts with (`RingsReach`); `AcceptedWindowIsWhole` follows because CanReplay refuses a
cursor older than the start of any ring.

*Gateway.* The invariant places a connection's goroutines by its phase in the registry
(`PhasesAgree`); no two senders hold one seq, and what they hold and what went into the channel make
up the stamped seqs (`SeqsApart`, `MissingSeqsAreInFlight`); only the dispatcher holds live frames, one
event at a time, so what it enqueues is newer than what it enqueued before and nothing follows
what was missed (`FeedInOrder`); a ring is a suffix of its conversation's events (`RingsReach`); and
what a subscriber is owed is with the fan-out under way, in the ring behind the cursor of its resume,
or among what the resume has read (`OwedCovered`), of which `HandoverIsWhole` is the case
that nothing is under way. `SendersAssumption` says that the dispatcher and the goroutine of Shutdown
are not connections.

*Chat.* All of it rests on what the row locks give: no two calls hold one row (`LocksApart`), what a
call holds follows from its kind and step (`CallsAreShaped`), and so what it has written is still the
newest row with its own change (`WritesAreCurrent`) and the number it drew is above every
event of that row (`EventsInOrder`). `FeedFollows` then says, event by event, what the newest of them
tells of the tables. The pool reads hold no lock, so of each value that an open call has read the
invariant says that it is still the table's or that a call it met has replaced it: the content an
edit read (`EditsSawContent`), the emoji an addition counted (`AddsLooked`), the last message and the
settings an update read (`UpdatesSawLast`, `UpdatesSawFields`). The overlap that each property allows
is the one that appears when such a call commits. A bump that writes nothing passed the row
without a lock; an update may take the last message back before that send commits, and then it
also met the newer message that made the bump needless (`LastFollows`). `EmojiAssumption`,
that emoji are finitely many, is there since the limit counts them; an emoji has at most 16 runes
(`reactions.go:175-184`). `log'` in `Commit` is written as a function over its new domain and not
with `:>` and `@@`, which the prover does not expand.

*Presence.* `ShownWhileConnected` alone is not inductive: it says nothing of time, and a key may
expire. As long as no Redis call has failed, the keys of a connected socket have time left, and the
full TTL once this interval's sweep of its instance is past them (`Fresh`): time moves on only when
every sweep is done, and a sweep that has seen no socket in the hub leaves out only one that is
leaving. A disconnect deletes the keys it empties, and it empties none that another socket is
in, as the ids of a process differ (`IdsApart`), also when a restarted one counts from one again, for
then none of its old sockets is left. `PeersAgree` needs the converse too: until the first fault Redis has
the connected sockets and no others (`Exact`), so nothing expires and both scripts are right about
the first and the last socket (`OnlineIsConnected`, `LastOneLeaves`). A connect that finds
nobody overtakes all farewells still to come, so one that is not overtaken says what is true
(`FarewellsTrue`); with nothing else to come, the peer was told the user is gone if and only if no socket is connected
(`PeerTold`). A client's own words do not disturb this, `offline` among them: they come from a
connected socket and never have the time the user was last seen. A crash
takes the sockets of an instance out of the hub and leaves them in Redis, which is why `Exact` ends
with the first fault and `Held` does not.

Model-checked only: the liveness properties (`CallsEnd`, `RowsReachDispatchers`,
`DoomedConnectionsEnd`, `GhostsExpire`); every invariant and action property of the passing runs is
stated by a theorem. Out of reach of the prover: liveness under fairness and ENABLED,
induction over recursive data (the library's induction theorems take an operator as a
parameter), and modules with RECURSIVE operators, of which there are none here. Least and
greatest elements come from the well-foundedness of `<` on the naturals (`HasLeast`,
`HasGreatest`), so no proof needs such an induction.

## Not modelled

- *Id generator*: one function under a mutex over the wall clock. What it promises, ids that
  differ, is an assumption of the other modules.
- *WebSocket rate limits*: token buckets owned by one goroutine each, refilled by the wall clock.
- *HTTP delivery*: decoding, validation, error mapping; sequential and without state.
  `Idempotency` has the one handler whose retries matter.
- *Password hashing, JWTs*: pure cryptographic functions; a check passes or it does not.
- *Typing and last-seen*: kept in Redis under a TTL and read back by no handler; any typist renews the
  one TTL of a conversation's hash.
- *Configuration, health, observability, migrations*: read once, or storage layout. The goroutines
  that `app.go` starts and supervises are in `Outbox`, `Gateway` and `Presence` as what may stop and what
  is fair; the indexes, keys, checks and defaults that code relies on are in the modules that need
  them.
- *Audit log, login history, device names*: written, never read by what is modelled.

## Plan

1. The composition of `Outbox` and `Gateway`: from a committed row to a client's resume cursor across
   an instance change.
2. The id generator, should the clock's steps back ever be in question.
