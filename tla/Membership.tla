----------------------------- MODULE Membership -----------------------------
(***************************************************************************)
(* The rows of conversation_members of one conversation and the calls that *)
(* change them: MarkRead (chat/application/receipts.go), SetMute, SetPin   *)
(* and SetArchive (prefs.go), AddMembers, RemoveMember and                 *)
(* ChangeMemberRole (members.go), over chat/infra/postgres/                *)
(* membership_repo.go.                                                     *)
(*                                                                         *)
(* Every call reads through the pool first, decides on what it read, and   *)
(* then writes in a READ COMMITTED transaction, so what it read may be     *)
(* stale by the time it writes.  Each statement is a step; the row locks   *)
(* of an UPDATE or upsert are held until the commit.  Messages commit at   *)
(* any time and in any order of their sequences, and a MarkRead may name a *)
(* sequence that no message has yet.  The conversation.membership rows     *)
(* that the member calls append to the outbox carry no state back and are  *)
(* left out.                                                               *)
(***************************************************************************)
EXTENDS Naturals, FiniteSets

CONSTANTS
    User,
    Creator,      \* created the group, its first owner
    Joined,       \* the participants it was created with
    Call,         \* calls of the service
    Ops,          \* the operations those calls may be
    MaxSeq,       \* messages get the sequences 1..MaxSeq
    SenderOf,     \* sender of each message
    Named,        \* sequences that requests name: any positive number will do
    AnyoneCanAdd, \* Settings.AnyoneCanAdd
    MaxMembers    \* maxTotalMembers

Prefs == {"mute", "pin", "unpin", "archive", "unarchive"}
AllOps == Prefs \cup {"read", "role", "add", "remove"}

ASSUME CreatorAssumption == Creator \in User /\ Joined \subseteq User
ASSUME OpsAssumption == Ops \subseteq AllOps
ASSUME SeqAssumption == /\ MaxSeq \in Nat /\ SenderOf \in [1..MaxSeq -> User]
                        /\ Named \subseteq Nat \ {0}
ASSUME SettingsAssumption == AnyoneCanAdd \in BOOLEAN /\ MaxMembers \in Nat

VARIABLES
    members,     \* committed rows; a user without one has a row that has left
    tombstoned,  \* conversations.deleted_at is set
    sent,        \* sequences of the committed messages
    receipts,    \* committed receipt.read and receipt.delivered outbox rows
    pc,
    call,        \* what each call was asked
    mine,        \* the caller's row as FindActive returned it
    found,       \* the second row read: the target's, or MarkRead's SELECT
    adding,      \* addedIDs of AddMembers
    wrote,       \* rows written, and locked, by the open transaction
    pending,     \* receipts it appended
    closing,     \* it tombstoned the conversation
    ahead,       \* history: what the open transaction adds to early
    early,       \* history: <<u, s>> if a MarkRead of u's listed the senders up
                 \* to s, and committed, before message s had committed
    departed     \* history: the users who have left or been removed

tables == <<members, tombstoned, sent, receipts, early, departed>>
locals == <<call, mine, found, adding, wrote, pending, closing, ahead>>
vars == <<members, tombstoned, sent, receipts, pc, call, mine, found, adding, wrote,
          pending, closing, ahead, early, departed>>

Roles == {"member", "admin", "owner"}
Row == [left : BOOLEAN, role : Roles, read : Nat, delivered : Nat,
        pinned : BOOLEAN, archived : BOOLEAN]
Receipt == [kind : {"read", "delivered"}, user : User, upTo : Nat \ {0},
            to : (SUBSET User) \ {{}}]
Asked == [op : Ops \cup {"none"}, by : User, on : SUBSET User, role : Roles,
          read : Nat, delivered : Nat]

NewRow(role) == [left |-> FALSE, role |-> role, read |-> 0, delivered |-> 0,
                 pinned |-> FALSE, archived |-> FALSE]
NoRow == [NewRow("member") EXCEPT !.left = TRUE]
Asking(op, u) == [op |-> op, by |-> u, on |-> {}, role |-> "member",
                  read |-> 0, delivered |-> 0]
NoRows == [u \in {} |-> NoRow]

\* CreateConversation has committed a group.
Init ==
    /\ members = [u \in User |-> IF u = Creator THEN NewRow("owner")
                                 ELSE IF u \in Joined THEN NewRow("member") ELSE NoRow]
    /\ tombstoned = FALSE
    /\ sent = {}
    /\ receipts = {}
    /\ pc = [k \in Call |-> "idle"]
    /\ call = [k \in Call |-> Asking("none", Creator)]
    /\ mine = [k \in Call |-> NoRow]
    /\ found = [k \in Call |-> NoRow]
    /\ adding = [k \in Call |-> {}]
    /\ wrote = [k \in Call |-> NoRows]
    /\ pending = [k \in Call |-> {}]
    /\ closing = [k \in Call |-> FALSE]
    /\ ahead = [k \in Call |-> {}]
    /\ early = {}
    /\ departed = {}

Active(u) == ~members[u].left
Greatest(a, b) == IF a < b THEN b ELSE a
Goto(k, l) == pc' = [pc EXCEPT ![k] = l]

\* An UPDATE waits for the rows another transaction has written.
Unlocked(k, users) == \A j \in Call \ {k} : users \cap DOMAIN wrote[j] = {}

\* The call returns, its transaction committed or rolled back.
End(k) ==
    /\ Goto(k, "done")
    /\ call' = [call EXCEPT ![k] = Asking("none", Creator)]
    /\ mine' = [mine EXCEPT ![k] = NoRow]
    /\ found' = [found EXCEPT ![k] = NoRow]
    /\ adding' = [adding EXCEPT ![k] = {}]
    /\ wrote' = [wrote EXCEPT ![k] = NoRows]
    /\ pending' = [pending EXCEPT ![k] = {}]
    /\ closing' = [closing EXCEPT ![k] = FALSE]
    /\ ahead' = [ahead EXCEPT ![k] = {}]

-----------------------------------------------------------------------------
(***************************************************************************)
(* A send commits a message: its transaction took a sequence earlier, so   *)
(* another that took a later one may have committed, and its sender may    *)
(* have left.  A send does not write conversation_members.                 *)
(***************************************************************************)
Send(s) ==
    /\ s \notin sent
    /\ sent' = sent \cup {s}
    /\ UNCHANGED <<members, tombstoned, receipts, early, departed, pc, locals>>

-----------------------------------------------------------------------------
(***************************************************************************)
(* A call starts by reading the caller's own row with FindActive; one that *)
(* is refused here changes nothing and is not a step.  MarkRead does not   *)
(* look at the conversation, the others refuse a tombstoned one.           *)
(***************************************************************************)
Begin(k, asked, next) ==
    /\ pc[k] = "idle"
    /\ asked.op \in Ops
    /\ Active(asked.by)
    /\ call' = [call EXCEPT ![k] = asked]
    /\ mine' = [mine EXCEPT ![k] = members[asked.by]]
    /\ Goto(k, next)
    /\ UNCHANGED <<tables, found, adding, wrote, pending, closing, ahead>>

\* The request may leave out the delivered sequence (0); one up to the sequence
\* read would do as much.
BeginMarkRead(k) ==
    \E u \in User, s \in Named : \E d \in {0} \cup {n \in Named : n > s} :
        Begin(k, [Asking("read", u) EXCEPT !.read = s, !.delivered = d], "select")

BeginPrefs(k) ==
    /\ ~tombstoned
    /\ \E op \in Prefs, u \in User : Begin(k, Asking(op, u), "update")

BeginMembers(k) ==
    /\ ~tombstoned
    /\ \E u \in User :
          \/ \E t \in User : Begin(k, [Asking("remove", u) EXCEPT !.on = {t}], "look")
          \/ \E t \in User, role \in Roles :
                Begin(k, [Asking("role", u) EXCEPT !.on = {t}, !.role = role], "look")
          \/ \E users \in SUBSET User \ {{}} :
                Begin(k, [Asking("add", u) EXCEPT !.on = users], "look")

-----------------------------------------------------------------------------
(***************************************************************************)
(* MarkRead: SELECT of the old cursors, one UPDATE of both on the newest   *)
(* version of the row, SELECT of the senders to tell, then the receipts.   *)
(***************************************************************************)
SelectCursors(k) ==
    /\ pc[k] = "select"
    /\ Active(call[k].by)
    /\ found' = [found EXCEPT ![k] = members[call[k].by]]
    /\ Goto(k, "update")
    /\ UNCHANGED <<tables, call, mine, adding, wrote, pending, closing, ahead>>

Advance_DeliveredAlone(row, r, d) ==  \* a faulty variant: a read implies no delivery
    [row EXCEPT !.read = Greatest(@, r), !.delivered = Greatest(@, d)]
Advance(row, r, d) ==
    [row EXCEPT !.read = Greatest(@, r), !.delivered = Greatest(Greatest(@, r), d)]

UpdateCursors(k) ==
    /\ pc[k] = "update"
    /\ call[k].op = "read"
    /\ Unlocked(k, {call[k].by})
    /\ Active(call[k].by)
    /\ LET row == Advance(members[call[k].by], call[k].read, call[k].delivered)
       IN  wrote' = [wrote EXCEPT ![k] = [u \in {call[k].by} |-> row]]
    /\ Goto(k, "senders")
    /\ UNCHANGED <<tables, call, mine, found, adding, pending, closing, ahead>>

\* SenderIDsBetween: from < sequence <= to, of the messages committed so far.
SendersBetween_Open(from, to) ==  \* a faulty variant: from < sequence < to
    {SenderOf[s] : s \in {n \in sent : from < n /\ n < to}}
SendersBetween(from, to) ==
    {SenderOf[s] : s \in {n \in sent : from < n /\ n <= to}}

\* The receipts are decided on the caller's row as it was first read, mine, and
\* on whether the UPDATE moved the cursors since the SELECT, found.
ReadsOn(k, row) == row.read > found[k].read /\ call[k].read > mine[k].read

ReadReceipts_ToNobody(k, row) ==  \* a faulty variant: appended without looking for senders
    IF ReadsOn(k, row)
    THEN {[kind |-> "read", user |-> call[k].by, upTo |-> call[k].read,
           to |-> SendersBetween(mine[k].read, call[k].read)]}
    ELSE {}
ReadReceipts(k, row) ==
    LET senders == SendersBetween(mine[k].read, call[k].read)
    IN  IF ReadsOn(k, row) /\ senders # {}
        THEN {[kind |-> "read", user |-> call[k].by, upTo |-> call[k].read, to |-> senders]}
        ELSE {}

DeliveredReceipts(k, row) ==
    LET upTo == Greatest(mine[k].delivered, Greatest(call[k].delivered, call[k].read))
    IN  IF row.delivered > found[k].delivered /\ upTo > mine[k].delivered
        THEN {[kind |-> "delivered", user |-> call[k].by, upTo |-> upTo,
               to |-> {call[k].by}]}
        ELSE {}

\* The sequences the SELECT covers that no message has, as yet.
Ahead(k, row) ==
    IF ReadsOn(k, row)
    THEN {s \in 1..MaxSeq \ sent : mine[k].read < s /\ s <= call[k].read}
    ELSE {}

ListSenders(k) ==
    /\ pc[k] = "senders"
    /\ LET row == wrote[k][call[k].by] IN
          /\ pending' = [pending EXCEPT ![k] =
                            ReadReceipts(k, row) \cup DeliveredReceipts(k, row)]
          /\ ahead' = [ahead EXCEPT ![k] = {<<call[k].by, s>> : s \in Ahead(k, row)}]
    /\ Goto(k, "commit")
    /\ UNCHANGED <<tables, call, mine, found, adding, wrote, closing>>

-----------------------------------------------------------------------------
(***************************************************************************)
(* SetMute, SetPin and SetArchive write the row they read back, changed.   *)
(* muted_until is left out: nothing here reads it.                         *)
(***************************************************************************)
Changed(row, op) ==
    CASE op = "pin" -> [row EXCEPT !.pinned = TRUE, !.archived = FALSE]
      [] op = "unpin" -> [row EXCEPT !.pinned = FALSE]
      [] op = "archive" -> [row EXCEPT !.archived = TRUE, !.pinned = FALSE]
      [] op = "unarchive" -> [row EXCEPT !.archived = FALSE]
      [] op = "mute" -> row

UpdatePrefs(k) ==
    /\ pc[k] = "update"
    /\ call[k].op \in Prefs
    /\ Unlocked(k, {call[k].by})
    /\ wrote' = [wrote EXCEPT ![k] = [u \in {call[k].by} |-> Changed(mine[k], call[k].op)]]
    /\ Goto(k, "commit")
    /\ UNCHANGED <<tables, call, mine, found, adding, pending, closing, ahead>>

-----------------------------------------------------------------------------
(***************************************************************************)
(* ChangeMemberRole and RemoveMember read the target and check it against  *)
(* the caller as first read.                                               *)
(***************************************************************************)
AtLeastAdmin(role) == role \in {"admin", "owner"}

MayChangeRole_OwnerToo(caller, target, role) ==  \* a faulty variant: owners may be demoted
    /\ role = "owner" => caller = "owner"
    /\ AtLeastAdmin(caller)
    /\ target = "admin" => caller = "owner"
MayChangeRole(caller, target, role) ==
    /\ role = "owner" => caller = "owner"
    /\ AtLeastAdmin(caller)
    /\ target # "owner"
    /\ target = "admin" => caller = "owner"

MayRemove(caller, target) ==
    /\ target # "owner"
    /\ target = "admin" => caller = "owner"
    /\ AtLeastAdmin(caller)

LookUpTarget(k) ==
    /\ pc[k] = "look"
    /\ \E t \in call[k].on :
          /\ Active(t)
          /\ \/ call[k].op = "role" /\ MayChangeRole(mine[k].role, members[t].role, call[k].role)
             \/ /\ call[k].op = "remove"
                /\ t = call[k].by \/ MayRemove(mine[k].role, members[t].role)
          /\ found' = [found EXCEPT ![k] = members[t]]
    /\ Goto(k, "update")
    /\ UNCHANGED <<tables, call, mine, adding, wrote, pending, closing, ahead>>

\* ChangeMemberRole writes the whole row it read, with the new role.
UpdateRole(k) ==
    /\ pc[k] = "update"
    /\ call[k].op = "role"
    /\ Unlocked(k, call[k].on)
    /\ wrote' = [wrote EXCEPT ![k] =
                    [u \in call[k].on |-> [found[k] EXCEPT !.role = call[k].role]]]
    /\ Goto(k, "commit")
    /\ UNCHANGED <<tables, call, mine, found, adding, pending, closing, ahead>>

\* Remove sets left_at of the newest version of the row, if it has not left.
RemoveRow(k) ==
    /\ pc[k] = "update"
    /\ call[k].op = "remove"
    /\ Unlocked(k, call[k].on)
    /\ wrote' = [wrote EXCEPT ![k] =
                    [u \in {t \in call[k].on : Active(t)} |-> [members[u] EXCEPT !.left = TRUE]]]
    /\ Goto(k, "count")
    /\ UNCHANGED <<tables, call, mine, found, adding, pending, closing, ahead>>

\* CountActive goes through the pool, so it does not see the transaction's own
\* removal; Tombstone when it counts none.
CountActive(k) ==
    /\ pc[k] = "count"
    /\ closing' = [closing EXCEPT ![k] = \A u \in User : ~Active(u)]
    /\ Goto(k, "commit")
    /\ UNCHANGED <<tables, call, mine, found, adding, wrote, pending, ahead>>

-----------------------------------------------------------------------------
(***************************************************************************)
(* AddMembers: the candidates and the cap are decided on a pool read, then *)
(* the rows are upserted; every id names a live account.                   *)
(***************************************************************************)
Candidates(k) == {u \in call[k].on : u # call[k].by /\ ~Active(u)}

LookUpMembers(k) ==
    /\ pc[k] = "look"
    /\ call[k].op = "add"
    /\ AtLeastAdmin(mine[k].role) \/ AnyoneCanAdd
    /\ Candidates(k) # {}
    /\ Cardinality({u \in User : Active(u)}) + Cardinality(Candidates(k)) <= MaxMembers
    /\ adding' = [adding EXCEPT ![k] = Candidates(k)]
    /\ Goto(k, "update")
    /\ UNCHANGED <<tables, call, mine, found, wrote, pending, closing, ahead>>

\* ON CONFLICT: an earlier row keeps its cursors and preferences.
Upsert(k) ==
    /\ pc[k] = "update"
    /\ call[k].op = "add"
    /\ Unlocked(k, adding[k])
    /\ wrote' = [wrote EXCEPT ![k] =
                    [u \in adding[k] |-> [members[u] EXCEPT !.left = FALSE, !.role = "member"]]]
    /\ Goto(k, "commit")
    /\ UNCHANGED <<tables, call, mine, found, adding, pending, closing, ahead>>

-----------------------------------------------------------------------------
Commit(k) ==
    /\ pc[k] = "commit"
    /\ members' = [u \in User |-> IF u \in DOMAIN wrote[k] THEN wrote[k][u] ELSE members[u]]
    /\ tombstoned' = (tombstoned \/ closing[k])
    /\ UNCHANGED sent
    /\ receipts' = receipts \cup pending[k]
    /\ early' = early \cup ahead[k]
    /\ departed' = departed \cup {u \in DOMAIN wrote[k] : wrote[k][u].left}
    /\ End(k)

\* A check refuses the call, a statement fails, the request is cancelled or the
\* process dies; MarkRead of a member who has left also ends here, without an
\* effect, whatever it answers.
Fail(k) ==
    /\ pc[k] \notin {"idle", "done"}
    /\ End(k)
    /\ UNCHANGED tables

Next ==
    \/ \E s \in 1..MaxSeq : Send(s)
    \/ \E k \in Call :
          \/ BeginMarkRead(k) \/ BeginPrefs(k) \/ BeginMembers(k)
          \/ SelectCursors(k) \/ UpdateCursors(k) \/ ListSenders(k) \/ UpdatePrefs(k)
          \/ LookUpTarget(k) \/ UpdateRole(k) \/ RemoveRow(k) \/ CountActive(k)
          \/ LookUpMembers(k) \/ Upsert(k)
          \/ Commit(k) \/ Fail(k)

Spec == Init /\ [][Next]_vars

-----------------------------------------------------------------------------
(***************************************************************************)
(* Properties.                                                             *)
(***************************************************************************)
Steps == {"idle", "select", "look", "update", "senders", "count", "commit", "done"}

TypeOK ==
    /\ members \in [User -> Row]
    /\ tombstoned \in BOOLEAN
    /\ sent \subseteq 1..MaxSeq
    /\ receipts \subseteq Receipt
    /\ pc \in [Call -> Steps]
    /\ call \in [Call -> Asked]
    /\ mine \in [Call -> Row]
    /\ found \in [Call -> Row]
    /\ adding \in [Call -> SUBSET User]
    /\ DOMAIN wrote = Call
    /\ \A k \in Call : DOMAIN wrote[k] \subseteq User /\ wrote[k] \in [DOMAIN wrote[k] -> Row]
    /\ pending \in [Call -> SUBSET Receipt]
    /\ closing \in [Call -> BOOLEAN]
    /\ ahead \in [Call -> SUBSET (User \X (1..MaxSeq))]
    /\ early \subseteq User \X (1..MaxSeq)
    /\ departed \subseteq User

\* What a row's cursors claim has been told: the sender of each message up to the
\* read cursor, that it was read up to there or further, unless the message came
\* later than a call that looked for it; and the reader's other devices, how far
\* it was delivered.
Told(told, unfound, u, row) ==
    /\ \A s \in 1..MaxSeq : s <= row.read =>
          \/ <<u, s>> \in unfound
          \/ \E e \in told :
                e.kind = "read" /\ e.user = u /\ s <= e.upTo /\ SenderOf[s] \in e.to
    /\ row.delivered > 0 => \E e \in told :
          e.kind = "delivered" /\ e.user = u /\ row.delivered <= e.upTo

\* MarkRead decides its receipts on a cursor read before its transaction, and a
\* stale preference or role write may move the cursors back in between.  Still the
\* only sender of a message that shows as read who is left without the receipt is
\* one whose message committed after a MarkRead of the reader's had listed the
\* senders up to its sequence: it named a sequence ahead of the newest message, or
\* a later message overtook this one (receipts.go:18-27, 36-84,
\* membership_repo.go:173-201).
ReceiptsReachSenders == \A u \in User : Told(receipts, early, u, members[u])

\* No interleaving of whole-row writes and cursor updates trips a CHECK of the
\* table (migration 000006:53-55), so none of these calls fails on one.
ConstraintsHold ==
    \A u \in User :
        /\ members[u].read <= members[u].delivered
        /\ ~(members[u].pinned /\ members[u].archived)

\* A group does not lose its creator as owner, whatever role changes race, until
\* the creator leaves (members.go:287-289, 221-230).
CreatorStaysOwner ==
    Creator \notin departed => Active(Creator) /\ members[Creator].role = "owner"

\* membership_repo.go:169-171: "MarkRead advances the caller's read cursor(s)
\* monotonically via GREATEST (API.md 10.1/10.3): cursors can only advance, never
\* regress."
CursorsNeverRegress ==
    [][\A u \in User :
          /\ members[u].read <= members'[u].read
          /\ members[u].delivered <= members'[u].delivered]_vars

\* members.go:195-198: "When the last member leaves, the conversation is
\* tombstoned (kept for history)."
LastLeaverTombstones ==
    (\A u \in User : ~Active(u)) => tombstoned
=============================================================================
