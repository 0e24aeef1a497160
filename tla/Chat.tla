-------------------------------- MODULE Chat --------------------------------
(***************************************************************************)
(* The rows of one conversation under concurrent calls of the chat service *)
(* (chat/application): one of its messages with its edit history and       *)
(* reactions, the conversation row that settings updates and sends both    *)
(* write, the messages that sends add, and a client that polls them.       *)
(*                                                                         *)
(* Every call reads and decides through the pool and then opens a READ     *)
(* COMMITTED transaction: what it writes is locked and unseen until        *)
(* Commit, and a statement that meets a locked row waits for it.  Its      *)
(* outbox row draws a global_seq while the lock is held.  The allocator    *)
(* and the retries of a send are the module MessageSend's, members are     *)
(* Membership's; here everyone is one.                                     *)
(***************************************************************************)
EXTENDS Naturals, FiniteSets

CONSTANTS
    Call,         \* calls in flight, one operation each
    User,
    Sender,       \* who sent the message
    Admins,       \* who may delete others' messages and change settings
    Emoji,
    MaxDistinct,  \* maxDistinctReactions
    Limit,        \* the page size of a poll
    Original,     \* the content, title and settings before any call
    Nobody        \* deleted_by of a message that is not deleted

ASSUME UsersAssumption == Sender \in User /\ Admins \subseteq User /\ Nobody \notin User
ASSUME OriginalAssumption == Original \notin Call
\* An emoji has at most 16 runes (reactions.go:175-184).
ASSUME EmojiAssumption == IsFiniteSet(Emoji)
ASSUME LimitsAssumption == MaxDistinct \in Nat /\ Limit \in Nat \ {0}

VARIABLES
    message,     \* the messages row: content, edit_count, deleted_by
    edits,       \* message_edits
    reactions,   \* message_reactions
    conv,        \* the conversations row: title, settings, last_message_seq
    sent,        \* the messages that sends have committed
    log,         \* change_log by global_seq: what edits, deletes, reactions and
                 \* updates appended
    nextGlobal,  \* change_log_global_seq
    nextSeq,     \* the conversation's sequence counter
    nextMessage, \* messages_global_seq
    cursor,      \* the polling client's after_global_seq
    got,         \* the messages it was given
    call,        \* what each call holds
    \* history, read by the properties only:
    met,         \* the calls that committed while this one was open
    late         \* messages that committed below the cursor

rows == <<message, edits, reactions, conv, sent, log>>
counters == <<nextGlobal, nextSeq, nextMessage>>
poller == <<cursor, got, late>>
vars == <<rows, counters, poller, call, met>>

\* Row locks and unique keys a transaction can hold.
Message == <<"message">>
Conversation == <<"conversation">>
Floor == <<"floor">>
Key(u, e) == <<u, e>>

\* The two settings patches an update can carry.
Fields == {"title", "settings"}

None == <<>>
Idle == [kind |-> "none", step |-> "idle", arg |-> None, seen |-> None, wrote |-> None,
         holds |-> {}, at |-> 0]

Emojis(rs) == {r[2] : r \in rs}

\* Any reactions that the limit allows.
Init ==
    /\ message = [content |-> Original, editCount |-> 0, deletedBy |-> Nobody]
    /\ edits = {}
    /\ reactions \in {rs \in SUBSET (User \X Emoji) : Cardinality(Emojis(rs)) <= MaxDistinct}
    /\ conv = [title |-> Original, settings |-> Original, last |-> 0]
    /\ sent = {}
    /\ log = <<>>
    /\ nextGlobal = 1
    /\ nextSeq = 1
    /\ nextMessage = 1
    /\ cursor = 0
    /\ got = {}
    /\ call = [c \in Call |-> Idle]
    /\ met = [c \in Call |-> {}]
    /\ late = {}

Deleted == message.deletedBy # Nobody

Open(c) == call[c].step \notin {"idle", "committed", "ended"}
Committed(c, kind) == call[c].kind = kind /\ call[c].step = "committed"

Locked(c, row) == \E d \in Call \ {c} : row \in call[d].holds

At(c, kind, step) == call[c].kind = kind /\ call[c].step = step

\* The call's pool reads let it go on to its transaction.
Begin(c, kind, step, arg, seen) ==
    /\ call[c].step = "idle"
    /\ call' = [call EXCEPT ![c].kind = kind, ![c].step = step, ![c].arg = arg, ![c].seen = seen]
    /\ UNCHANGED <<rows, counters, poller, met>>

Goto(c, step) ==
    /\ call' = [call EXCEPT ![c].step = step]
    /\ UNCHANGED <<rows, counters, poller, met>>

\* It returns without a commit: all it holds is let go.
End(c) ==
    /\ call' = [call EXCEPT ![c] = [Idle EXCEPT !.kind = call[c].kind, !.step = "ended"]]
    /\ UNCHANGED <<rows, counters, poller, met>>

\* A statement of the transaction wrote the row.
Write(c, row, new, step) ==
    /\ call' = [call EXCEPT ![c].step = step, ![c].wrote = new, ![c].holds = @ \cup {row}]
    /\ UNCHANGED <<rows, counters, poller, met>>

\* A failed statement, a cancelled request or a crash.
Fail(c) == Open(c) /\ End(c)

-----------------------------------------------------------------------------
(* Edits and deletes.                                                      *)

\* EditMessage reads the row; the edit window may have passed at any time.
BeginEdit(c, u) ==
    /\ u = Sender
    /\ ~Deleted
    /\ Begin(c, "edit", "write", u, message.content)

\* A faulty variant: the UPDATE trusts the earlier read.
Editable_Unguarded(row) == TRUE

\* WHERE deleted_at IS NULL, on the newest version of the row.
Editable(row) == row.deletedBy = Nobody

\* A faulty variant: edit_count is written as it was read.
EditedRow_LastWriter(c) == [message EXCEPT !.content = c, !.editCount = 1]

EditedRow(c) == [message EXCEPT !.content = c, !.editCount = @ + 1]

\* MessageRepo.Edit: the UPDATE, and the message_edits row beside it.
ApplyEdit(c) ==
    /\ At(c, "edit", "write")
    /\ ~Locked(c, Message)
    /\ IF Editable(message) THEN Write(c, Message, EditedRow(c), "append") ELSE End(c)

\* DeleteMessage of mode all.
BeginDelete(c, u) ==
    /\ u = Sender \/ u \in Admins
    /\ ~Deleted
    /\ Begin(c, "delete", "write", u, None)

ApplyTombstone(c) ==
    /\ At(c, "delete", "write")
    /\ ~Locked(c, Message)
    /\ IF Editable(message)
         THEN Write(c, Message, [message EXCEPT !.deletedBy = call[c].arg], "append")
         ELSE End(c)

-----------------------------------------------------------------------------
(* Reactions: the limit is looked at before the transaction.               *)

BeginReaction(c, kind, u, e) ==
    /\ ~Deleted
    /\ Begin(c, kind, IF kind = "add" THEN "count" ELSE "write", Key(u, e), None)

\* Count: an emoji that is there already never trips the limit.
CountReactions(c) ==
    /\ At(c, "add", "count")
    /\ Goto(c, IF call[c].arg[2] \in Emojis(reactions) THEN "write" ELSE "distinct")

\* A faulty variant: one emoji too many passes.
BelowLimit_OneMore == Cardinality(Emojis(reactions)) <= MaxDistinct

BelowLimit == Cardinality(Emojis(reactions)) < MaxDistinct

CountDistinct(c) ==
    /\ At(c, "add", "distinct")
    /\ IF BelowLimit THEN Goto(c, "write") ELSE End(c)

\* INSERT ... ON CONFLICT DO NOTHING waits for an uncommitted row with its key;
\* without a row of its own the call appends nothing.
AddRow(c) ==
    /\ At(c, "add", "write")
    /\ ~Locked(c, call[c].arg)
    /\ IF call[c].arg \in reactions THEN End(c) ELSE Write(c, call[c].arg, None, "append")

\* DELETE sees committed rows only and waits for one that is being deleted.
DeleteRow(c) ==
    /\ At(c, "remove", "write")
    /\ IF call[c].arg \in reactions
         THEN ~Locked(c, call[c].arg) /\ Write(c, call[c].arg, None, "append")
         ELSE End(c)

-----------------------------------------------------------------------------
(* The conversation row: UpdateConversation and SendMessage.               *)

\* FindByID and the role check.
BeginUpdate(c, u, field) ==
    /\ u \in Admins
    /\ Begin(c, "update", "write", field, conv)

\* Update writes every column as it was read, with the patch.
PatchedRow(c) == [call[c].seen EXCEPT ![call[c].arg] = c]

ApplyUpdate(c) ==
    /\ At(c, "update", "write")
    /\ ~Locked(c, Conversation)
    /\ Write(c, Conversation, PatchedRow(c), "append")

\* SequenceSource.Next.
BeginSend(c) ==
    /\ call[c].step = "idle"
    /\ nextSeq' = nextSeq + 1
    /\ call' = [call EXCEPT ![c].kind = "send", ![c].step = "insert", ![c].arg = nextSeq]
    /\ UNCHANGED <<rows, nextGlobal, nextMessage, poller, met>>

\* The INSERT draws the message's global_seq.
InsertMessage(c) ==
    /\ At(c, "send", "insert")
    /\ nextMessage' = nextMessage + 1
    /\ call' = [call EXCEPT ![c].step = "persist", ![c].at = nextMessage]
    /\ UNCHANGED <<rows, nextGlobal, nextSeq, poller, met>>

\* Persist keeps the conversation_sequences row until the end.
Persist(c) ==
    /\ At(c, "send", "persist")
    /\ ~Locked(c, Floor)
    /\ Write(c, Floor, None, "bump")

\* A faulty variant: the bump looks at nothing.
Bumped_Unguarded(seq) == [conv EXCEPT !.last = seq]

Bumped(seq) == IF conv.last < seq THEN [conv EXCEPT !.last = seq] ELSE conv

\* BumpLastMessage; a bump that changes nothing locks nothing.
Bump(c) ==
    /\ At(c, "send", "bump")
    /\ ~Locked(c, Conversation)
    /\ IF Bumped(call[c].arg) = conv
         THEN Goto(c, "commit")
         ELSE Write(c, Conversation, Bumped(call[c].arg), "commit")

-----------------------------------------------------------------------------
(* The outbox row, and the commit.                                         *)

Append(c) ==
    /\ call[c].step = "append"
    /\ nextGlobal' = nextGlobal + 1
    /\ call' = [call EXCEPT ![c].step = "commit", ![c].at = nextGlobal]
    /\ UNCHANGED <<rows, nextSeq, nextMessage, poller, met>>

\* What the outbox row tells.
Event(c) == [kind |-> call[c].kind, by |-> c, arg |-> call[c].arg, row |-> call[c].wrote]

CommitEdit(c) ==
    /\ At(c, "edit", "commit")
    /\ message' = call[c].wrote
    /\ edits' = edits \cup {[by |-> c, old |-> call[c].seen]}
    /\ UNCHANGED <<reactions, conv, sent, late>>

CommitDelete(c) ==
    /\ At(c, "delete", "commit")
    /\ message' = call[c].wrote
    /\ UNCHANGED <<edits, reactions, conv, sent, late>>

CommitReaction(c) ==
    /\ \/ At(c, "add", "commit") /\ reactions' = reactions \cup {call[c].arg}
       \/ At(c, "remove", "commit") /\ reactions' = reactions \ {call[c].arg}
    /\ UNCHANGED <<message, edits, conv, sent, late>>

CommitUpdate(c) ==
    /\ At(c, "update", "commit")
    /\ conv' = call[c].wrote
    /\ UNCHANGED <<message, edits, reactions, sent, late>>

CommitSend(c) ==
    /\ At(c, "send", "commit")
    /\ conv' = IF Conversation \in call[c].holds THEN call[c].wrote ELSE conv
    /\ sent' = sent \cup {[by |-> c, seq |-> call[c].arg, global |-> call[c].at]}
    /\ late' = IF call[c].at <= cursor THEN late \cup {c} ELSE late
    /\ UNCHANGED <<message, edits, reactions>>

Commit(c) ==
    /\ \/ CommitEdit(c) \/ CommitDelete(c) \/ CommitReaction(c)
       \/ CommitUpdate(c) \/ CommitSend(c)
    /\ log' = IF call[c].kind = "send" THEN log
              ELSE [n \in DOMAIN log \cup {call[c].at} |->
                      IF n = call[c].at THEN Event(c) ELSE log[n]]
    /\ call' = [call EXCEPT ![c].step = "committed", ![c].wrote = None, ![c].holds = {}]
    /\ met' = [d \in Call |-> IF Open(d) /\ d # c THEN met[d] \cup {c} ELSE met[d]]
    /\ UNCHANGED <<counters, cursor, got>>

-----------------------------------------------------------------------------
(* ListMessages as the delta poll of one client.                           *)

Newer == {m \in sent : m.global > cursor}

\* The oldest Limit messages after the cursor.
Page == {m \in Newer : Cardinality({n \in Newer : n.global < m.global}) < Limit}

\* A faulty variant: the cursor comes from the row that tells has_more, too.
LastOf_Lookahead(page) ==
    CHOOSE m \in Newer :
        \A n \in Newer :
            Cardinality({k \in Newer : k.global < n.global}) <= Limit => n.global <= m.global

LastOf(page) == CHOOSE m \in page : \A n \in page : n.global <= m.global

Poll ==
    /\ Newer # {}
    /\ got' = got \cup {m.by : m \in Page}
    /\ cursor' = LastOf(Page).global
    /\ UNCHANGED <<rows, counters, late, call, met>>

-----------------------------------------------------------------------------
Step(c) ==
    \/ \E u \in User : BeginEdit(c, u) \/ BeginDelete(c, u)
    \/ \E u \in User, e \in Emoji : \E kind \in {"add", "remove"} : BeginReaction(c, kind, u, e)
    \/ \E u \in User : \E field \in Fields : BeginUpdate(c, u, field)
    \/ BeginSend(c)
    \/ ApplyEdit(c) \/ ApplyTombstone(c)
    \/ CountReactions(c) \/ CountDistinct(c) \/ AddRow(c) \/ DeleteRow(c)
    \/ ApplyUpdate(c)
    \/ InsertMessage(c) \/ Persist(c) \/ Bump(c)
    \/ Append(c) \/ Commit(c) \/ Fail(c)

Next == Poll \/ \E c \in Call : Step(c)

Spec == Init /\ [][Next]_vars

-----------------------------------------------------------------------------
\* The global_seqs of the committed rows of these kinds, and the newest of them.
Events(kinds) == {n \in DOMAIN log : log[n].kind \in kinds}

Newest(es) == log[CHOOSE n \in es : \A m \in es : m <= n]

\* A client that applies the outbox rows in the order of their global_seq ends
\* with what the tables hold: the last edit's content, a tombstone once and
\* nothing after it, each user's reactions, the title and the settings.  Rows
\* may commit in any order (edit_delete.go:55-70, reactions.go:60-75,
\* update.go:75-92).
FeedGivesTheRows ==
    /\ Events({"edit"}) # {} => message.content = Newest(Events({"edit"})).by
    /\ Cardinality(Events({"delete"})) = (IF Deleted THEN 1 ELSE 0)
    /\ \A n \in Events({"delete"}) :
         log[n].arg = message.deletedBy /\ \A m \in Events({"edit"}) : m < n
    /\ \A k \in User \X Emoji :
         LET es == {n \in Events({"add", "remove"}) : log[n].arg = k}
         IN  es # {} => (k \in reactions <=> Newest(es).kind = "add")
    /\ Events({"update"}) # {} =>
         \A f \in Fields : conv[f] = Newest(Events({"update"})).row[f]

\* Edits are never destructive, as far as the code goes: edit_count counts the
\* rows of message_edits, and a body that is neither shown nor in the history
\* was committed while an edit that had read the one before it was open
\* (edit_delete.go:45, message_repo.go:136-160).
BodiesLostOnlyByOverlap ==
    /\ message.editCount = Cardinality(edits)
    /\ \A b \in {Original} \cup {e.by : e \in edits} :
         \/ b = message.content
         \/ \E e \in edits : e.old = b \/ b \in met[e.by]

\* More than MaxDistinct emoji on a message take two additions that overlapped:
\* one committed after the other had looked (reactions.go:35-47).
LimitPassedOnlyByOverlap ==
    Cardinality(Emojis(reactions)) > MaxDistinct =>
        \E c, d \in Call : Committed(c, "add") /\ Committed(d, "add") /\ d \in met[c]

\* The chat list hides a committed message, or forgets a title or settings that
\* were set and not set again, only through an update that was open when they (or a
\* newer message, which makes their bump write nothing) committed: Update writes all
\* columns as they were read, BumpLastMessage never takes the last message back
\* (conversation_repo.go:83-103, 116-132).
RowLosesOnlyWhatUpdatesMet ==
    /\ \A m \in sent :
         conv.last < m.seq =>
           \E u \in Call, n \in sent : Committed(u, "update") /\ n.by \in met[u] /\ m.seq <= n.seq
    /\ \A u \in Call : Committed(u, "update") =>
         \/ conv[call[u].arg] = u
         \/ \E v \in Call \ {u} :
              Committed(v, "update") /\ (call[v].arg = call[u].arg \/ u \in met[v])

\* A delta poll passes over a message only if it committed after the poll had
\* gone by: the message drew its global_seq at the INSERT (history.go:12-15,
\* message_repo.go:89-134).
PollsPassOnlyLateMessages ==
    \A m \in sent : m.global <= cursor => m.by \in got \cup late
=============================================================================
