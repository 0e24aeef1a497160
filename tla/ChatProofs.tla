----------------------------- MODULE ChatProofs -----------------------------
(***************************************************************************)
(* Proofs about Chat for every set of calls, users and emoji, every limit  *)
(* on reactions and every page size.                                       *)
(*                                                                         *)
(* ChatInv adds to the properties what makes them inductive: what a call   *)
(* holds follows from its kind and step (CallsAreShaped), and no two calls *)
(* hold one row (LocksApart); so what a call has written is still the      *)
(* table's newest row with its own change (WritesAreCurrent) and its       *)
(* outbox row is the row's newest (EventsInOrder), of which the feed's     *)
(* newest event is a summary (FeedFollows).  A value that an open call has *)
(* read is the table's, or a call that it met has replaced it: the         *)
(* content (EditsSawContent), the emoji (AddsLooked), the conversation's   *)
(* last message (UpdatesSawLast) and its title and settings                *)
(* (UpdatesSawFields).                                                     *)
(***************************************************************************)
EXTENDS Chat, FiniteSetTheorems, WellFoundedInduction, TLAPS

Bodies == {Original} \cup Call
MessageRow == [content : Bodies, editCount : Nat, deletedBy : {Nobody} \cup User]
ConvRow == [title : Bodies, settings : Bodies, last : Nat]
Keys == User \X Emoji
LockableRows == {Message, Conversation, Floor} \cup Keys

Kinds == {"none", "edit", "delete", "add", "remove", "update", "send"}
Steps == {"idle", "count", "distinct", "write", "append", "insert", "persist", "bump",
          "commit", "committed", "ended"}
CallRecord == [kind : Kinds, step : Steps,
               arg : {None} \cup User \cup Keys \cup Fields \cup Nat,
               seen : {None} \cup Bodies \cup ConvRow,
               wrote : {None} \cup MessageRow \cup ConvRow,
               holds : SUBSET LockableRows, at : Nat]

SentMessage == [by : Call, seq : Nat \ {0}, global : Nat]
Edit == [by : Call, old : Bodies]

RowTypes ==
    /\ message \in MessageRow
    /\ edits \in SUBSET Edit /\ IsFiniteSet(edits)
    /\ reactions \in SUBSET Keys
    /\ conv \in ConvRow
    /\ sent \in SUBSET SentMessage /\ IsFiniteSet(sent)

OtherTypes ==
    /\ nextGlobal \in Nat /\ nextSeq \in Nat \ {0} /\ nextMessage \in Nat
    /\ cursor \in Nat /\ got \in SUBSET Call /\ late \in SUBSET Call
    /\ met \in [Call -> SUBSET Call]

ChatTypes == RowTypes /\ OtherTypes /\ call \in [Call -> CallRecord]

Written(c) == call[c].step \in {"append", "commit"}

\* The rows that a call holds.
HeldRows(c) ==
    CASE call[c].kind \in {"edit", "delete"} -> IF Written(c) THEN {Message} ELSE {}
      [] call[c].kind \in {"add", "remove"} -> IF Written(c) THEN {call[c].arg} ELSE {}
      [] call[c].kind = "update" -> IF Written(c) THEN {Conversation} ELSE {}
      [] call[c].kind = "send" /\ call[c].step = "bump" -> {Floor}
      [] call[c].kind = "send" /\ call[c].step = "commit" ->
            {Floor} \cup (call[c].holds \cap {Conversation})
      [] OTHER -> {}

StepsOf(kind) ==
    CASE kind \in {"edit", "delete", "remove", "update"} ->
            {"write", "append", "commit", "committed", "ended"}
      [] kind = "add" -> {"count", "distinct", "write", "append", "commit", "committed", "ended"}
      [] kind = "send" -> {"insert", "persist", "bump", "commit", "committed", "ended"}
      [] OTHER -> {"idle"}

Begun(c) == call[c].step \notin {"idle", "ended"}

CallsAreShaped ==
    \A c \in Call :
        /\ call[c].step \in StepsOf(call[c].kind)
        /\ call[c].holds = HeldRows(c)
        /\ Begun(c) =>
             CASE call[c].kind \in {"edit", "delete"} -> call[c].arg \in User
               [] call[c].kind \in {"add", "remove"} -> call[c].arg \in Keys
               [] call[c].kind = "update" -> call[c].arg \in Fields
               [] call[c].kind = "send" -> call[c].arg \in Nat \ {0}
        /\ Begun(c) /\ call[c].kind = "edit" => call[c].seen \in Bodies
        /\ Begun(c) /\ call[c].kind = "update" => call[c].seen \in ConvRow

LocksApart == \A c, d \in Call : c # d => call[c].holds \cap call[d].holds = {}

WritesAreCurrent ==
    \A c \in Call :
        /\ call[c].kind = "edit" /\ Written(c) => call[c].wrote = EditedRow(c) /\ ~Deleted
        /\ call[c].kind = "delete" /\ Written(c) =>
             call[c].wrote = [message EXCEPT !.deletedBy = call[c].arg] /\ ~Deleted
        /\ call[c].kind = "update" /\ Written(c) => call[c].wrote = PatchedRow(c)
        /\ call[c].kind = "send" /\ call[c].step = "commit" /\ Conversation \in call[c].holds =>
             conv.last < call[c].arg /\ call[c].wrote = [conv EXCEPT !.last = call[c].arg]

\* The calls that write one row, and their outbox rows.
SameRow(kind, arg, other, otherArg) ==
    \/ kind \in {"edit", "delete"} /\ other \in {"edit", "delete"}
    \/ kind \in {"add", "remove"} /\ other \in {"add", "remove"} /\ arg = otherArg
    \/ kind = "update" /\ other = "update"

Logging(c) == call[c].kind # "send" /\ call[c].step = "commit"

EventsInOrder ==
    /\ DOMAIN log \subseteq 0 .. nextGlobal - 1
    /\ \A n \in DOMAIN log :
         /\ log[n].kind \in {"edit", "delete", "add", "remove", "update"}
         /\ log[n].kind \in {"add", "remove"} => log[n].arg \in Keys
    /\ \A c \in Call : Logging(c) =>
         /\ call[c].at < nextGlobal /\ call[c].at \notin DOMAIN log
         /\ \A d \in Call \ {c} : Logging(d) => call[d].at # call[c].at
         /\ \A n \in DOMAIN log :
              SameRow(call[c].kind, call[c].arg, log[n].kind, log[n].arg) => n < call[c].at

\* The newest event of a set.
Last(n, es) == n \in es /\ \A m \in es : m <= n

ReactionEvents(k) == {n \in Events({"add", "remove"}) : log[n].arg = k}

FeedFollows ==
    /\ \A n \in DOMAIN log : Last(n, Events({"edit"})) => message.content = log[n].by
    /\ IF Deleted
         THEN \E n \in DOMAIN log :
                /\ Events({"delete"}) = {n} /\ log[n].arg = message.deletedBy
                /\ \A m \in Events({"edit"}) : m < n
         ELSE Events({"delete"}) = {}
    /\ \A k \in Keys : \A n \in DOMAIN log :
         Last(n, ReactionEvents(k)) => (k \in reactions <=> log[n].kind = "add")
    /\ \A n \in DOMAIN log : Last(n, Events({"update"})) =>
         \A f \in Fields : conv[f] = log[n].row[f]

\* What an edit saw is what the message shows, unless an edit came between.
EditsAreCounted ==
    /\ message.editCount = Cardinality(edits)
    /\ \A e \in edits : Committed(e.by, "edit")
EditsSawContent ==
    \A c \in Call : call[c].kind = "edit" /\ Open(c) =>
        call[c].seen = message.content \/ message.content \in met[c]

\* Two additions that overlapped have committed.
AddsOverlapped ==
    \E c, d \in Call : Committed(c, "add") /\ Committed(d, "add") /\ d \in met[c]
LimitPassed == Cardinality(Emojis(reactions)) <= MaxDistinct \/ AddsOverlapped
AddsLooked ==
    \A c \in Call :
        call[c].kind = "add" /\ call[c].step \in {"write", "append", "commit"} =>
            \/ \E d \in met[c] : Committed(d, "add")
            \/ AddsOverlapped
            \/ Cardinality(Emojis(reactions) \cup {call[c].arg[2]}) <= MaxDistinct

\* A message up to s is hidden by an update that met it or a newer one.
MetSince(u, s) == \E n \in sent : n.by \in met[u] /\ s <= n.seq
Excused(s) == \E u \in Call : Committed(u, "update") /\ MetSince(u, s)

LastIsSent(row) == row.last = 0 \/ \E m \in sent : m.seq = row.last

LastFollows ==
    /\ LastIsSent(conv)
    /\ \A m \in sent : m.seq <= conv.last \/ Excused(m.seq)
    /\ \A c \in Call :
         call[c].kind = "send" /\ call[c].step = "commit" /\ Conversation \notin call[c].holds =>
            call[c].arg <= conv.last \/ Excused(call[c].arg)

UpdatesSawLast ==
    \A u \in Call : call[u].kind = "update" /\ Open(u) =>
        /\ LastIsSent(call[u].seen)
        /\ \A m \in sent :
             m.seq <= call[u].seen.last \/ MetSince(u, m.seq) \/ Excused(m.seq)

\* A later update has set the same column, or overwrote it with an older value.
Superseded(u) ==
    \E v \in Call \ {u} :
        Committed(v, "update") /\ (call[v].arg = call[u].arg \/ u \in met[v])

FieldsFollow == \A u \in Call : Committed(u, "update") => conv[call[u].arg] = u \/ Superseded(u)

UpdatesSawFields ==
    \A w, u \in Call :
        call[w].kind = "update" /\ Open(w) /\ Committed(u, "update") =>
            call[w].seen[call[u].arg] = u \/ u \in met[w] \/ Superseded(u)

GlobalsAreDrawn == \A m \in sent : m.global < nextMessage
SendsAreDrawn ==
    \A c \in Call : call[c].kind = "send" /\ call[c].step \in {"persist", "bump", "commit"} =>
        call[c].at < nextMessage

ChatInv ==
    /\ ChatTypes
    /\ CallsAreShaped
    /\ LocksApart
    /\ WritesAreCurrent
    /\ EventsInOrder
    /\ FeedFollows
    /\ EditsAreCounted
    /\ EditsSawContent
    /\ BodiesLostOnlyByOverlap
    /\ LimitPassed
    /\ AddsLooked
    /\ LastFollows
    /\ UpdatesSawLast
    /\ FieldsFollow
    /\ UpdatesSawFields
    /\ GlobalsAreDrawn
    /\ SendsAreDrawn
    /\ PollsPassOnlyLateMessages

-----------------------------------------------------------------------------
(* Least and greatest numbers of a set.                                    *)

Less == {p \in Nat \X Nat : p[1] < p[2]}

LEMMA LessIsWellFounded == IsWellFoundedOn(Less, Nat)
BY NatLessThanWellFounded DEF OpToRel, Less

LEMMA HasLeast == ASSUME NEW T \in SUBSET Nat, T # {} PROVE \E x \in T : \A y \in T : x <= y
<1>1. PICK x \in T : \A y \in T : <<y, x>> \notin Less
    BY LessIsWellFounded, WFMin
<1>2. ASSUME NEW y \in T, y < x PROVE FALSE
    <2>1. <<y, x>> \in Nat \X Nat /\ <<y, x>>[1] = y /\ <<y, x>>[2] = x
        OBVIOUS
    <2>2. <<y, x>> \in Less
        BY <1>2, <2>1 DEF Less
    <2>3. QED BY <1>1, <2>2
<1>3. QED BY <1>2

\* The least bound of a set is in it.
LEMMA HasGreatest ==
    ASSUME NEW T \in SUBSET Nat, T # {}, NEW b \in Nat, \A y \in T : y <= b
    PROVE  \E x \in T : \A y \in T : y <= x
<1> DEFINE U == {k \in Nat : \A y \in T : y <= k}
<1>1. PICK k \in U : \A j \in U : k <= j
    <2>1. U \in SUBSET Nat /\ b \in U /\ U # {}
        OBVIOUS
    <2> HIDE DEF U
    <2>2. QED BY <2>1, HasLeast
<1>2. k \in T
    <2>1. SUFFICES ASSUME k \notin T PROVE FALSE
        OBVIOUS
    <2>2. \A y \in T : y <= k - 1
        BY <2>1
    <2>3. k - 1 \in Nat
        <3>1. PICK y \in T : TRUE
            OBVIOUS
        <3>2. y \in Nat /\ y <= k - 1
            BY <2>2
        <3>3. QED BY <3>2
    <2>4. k - 1 \in U
        BY <2>2, <2>3
    <2>5. QED BY <1>1, <2>4
<1>3. QED BY <1>1, <1>2

-----------------------------------------------------------------------------
(* What a step of a call does.                                             *)

\* The row locks are apart from each other and from the reactions' keys.
LEMMA RowsDiffer ==
    /\ Message # Conversation /\ Message # Floor /\ Conversation # Floor
    /\ Message \notin Keys /\ Conversation \notin Keys /\ Floor \notin Keys
<1>1. Message # Conversation /\ Message # Floor /\ Conversation # Floor
    BY DEF Message, Conversation, Floor
<1>2. \A u, e, x : <<u, e>> # <<x>>
    OBVIOUS
<1>3. QED BY <1>1, <1>2 DEF Message, Conversation, Floor, Keys

\* It changes nothing that others see.
Private(c) ==
    /\ \A d \in Call \ {c} : call'[d] = call[d]
    /\ UNCHANGED <<rows, poller, met>>

Starts(c) ==
    /\ Private(c) /\ UNCHANGED <<nextGlobal, nextMessage>>
    /\ call[c].step = "idle" /\ call'[c].holds = call[c].holds
    /\ \/ call'[c].kind = "edit" /\ call'[c].step = "write" /\ call'[c].arg \in User
          /\ call'[c].seen = message.content
       \/ call'[c].kind = "delete" /\ call'[c].step = "write" /\ call'[c].arg \in User
       \/ call'[c].kind = "add" /\ call'[c].step = "count" /\ call'[c].arg \in Keys
       \/ call'[c].kind = "remove" /\ call'[c].step = "write" /\ call'[c].arg \in Keys
       \/ call'[c].kind = "update" /\ call'[c].step = "write" /\ call'[c].arg \in Fields
          /\ call'[c].seen = conv
       \/ call'[c].kind = "send" /\ call'[c].step = "insert" /\ call'[c].arg \in Nat \ {0}

Advances(c, kind, from, to) ==
    /\ call[c].kind = kind /\ call[c].step = from
    /\ call'[c].kind = kind /\ call'[c].step = to
    /\ call'[c].arg = call[c].arg /\ call'[c].seen = call[c].seen

Passes(c) ==
    /\ Private(c) /\ nextGlobal' = nextGlobal
    /\ call'[c].holds = call[c].holds /\ call'[c].wrote = call[c].wrote
    /\ \/ Advances(c, "add", "count", "write") /\ call[c].arg[2] \in Emojis(reactions)
          /\ nextMessage' = nextMessage
       \/ Advances(c, "add", "count", "distinct") /\ nextMessage' = nextMessage
       \/ Advances(c, "add", "distinct", "write") /\ BelowLimit /\ nextMessage' = nextMessage
       \/ Advances(c, "send", "insert", "persist")
          /\ nextMessage' = nextMessage + 1 /\ call'[c].at = nextMessage
       \/ Advances(c, "send", "bump", "commit") /\ Bumped(call[c].arg) = conv
          /\ nextMessage' = nextMessage /\ call'[c].at = call[c].at

Ends(c) ==
    /\ Private(c) /\ UNCHANGED <<nextGlobal, nextMessage>>
    /\ Open(c) /\ call'[c].kind = call[c].kind /\ call'[c].step = "ended"
    /\ call'[c].holds = {}

Takes(c, row) ==
    /\ Private(c) /\ UNCHANGED <<nextGlobal, nextMessage>>
    /\ ~Locked(c, row) /\ call'[c].holds = call[c].holds \cup {row} /\ call'[c].at = call[c].at
    /\ \/ Advances(c, "edit", "write", "append") /\ row = Message /\ ~Deleted
          /\ call'[c].wrote = EditedRow(c)
       \/ Advances(c, "delete", "write", "append") /\ row = Message /\ ~Deleted
          /\ call'[c].wrote = [message EXCEPT !.deletedBy = call[c].arg]
       \/ Advances(c, "add", "write", "append") /\ row = call[c].arg
       \/ Advances(c, "remove", "write", "append") /\ row = call[c].arg
       \/ Advances(c, "update", "write", "append") /\ row = Conversation
          /\ call'[c].wrote = PatchedRow(c)
       \/ Advances(c, "send", "persist", "bump") /\ row = Floor
       \/ Advances(c, "send", "bump", "commit") /\ row = Conversation
          /\ conv.last < call[c].arg /\ call'[c].wrote = [conv EXCEPT !.last = call[c].arg]

Appends(c) ==
    /\ Private(c) /\ UNCHANGED nextMessage
    /\ nextGlobal' = nextGlobal + 1 /\ call'[c].at = nextGlobal
    /\ Advances(c, call[c].kind, "append", "commit")
    /\ call'[c].wrote = call[c].wrote /\ call'[c].holds = call[c].holds

LEMMA BeginEffect ==
    ASSUME ChatTypes, NEW c \in Call, NEW kind \in Kinds, NEW step \in Steps,
           NEW arg \in {None} \cup User \cup Keys \cup Fields \cup Nat,
           NEW seen \in {None} \cup Bodies \cup ConvRow,
           Begin(c, kind, step, arg, seen)
    PROVE  /\ call' \in [Call -> CallRecord]
           /\ Private(c) /\ UNCHANGED <<nextGlobal, nextMessage>>
           /\ call[c].step = "idle" /\ call'[c].holds = call[c].holds
           /\ call'[c].kind = kind /\ call'[c].step = step
           /\ call'[c].arg = arg /\ call'[c].seen = seen
<1>1. call \in [Call -> CallRecord]
    BY DEF ChatTypes
<1>2. call' = [call EXCEPT ![c].kind = kind, ![c].step = step, ![c].arg = arg, ![c].seen = seen]
    BY DEF Begin
<1> DEFINE r == [call[c] EXCEPT !.kind = kind, !.step = step, !.arg = arg, !.seen = seen]
<1>3. call' = [call EXCEPT ![c] = r]
    BY <1>1, <1>2
<1>4. call[c] \in CallRecord
    BY <1>1
<1>5. r \in CallRecord
    BY <1>4 DEF CallRecord
<1>6. /\ r.kind = kind /\ r.step = step /\ r.arg = arg /\ r.seen = seen
      /\ r.holds = call[c].holds
    BY <1>4 DEF CallRecord
<1> HIDE DEF r
<1>7. /\ call' \in [Call -> CallRecord] /\ call'[c] = r
      /\ \A d \in Call \ {c} : call'[d] = call[d]
    BY <1>1, <1>3, <1>5
<1>8. QED BY <1>6, <1>7 DEF Begin, Private, counters

LEMMA GotoEffect ==
    ASSUME ChatTypes, NEW c \in Call, NEW step \in Steps, Goto(c, step)
    PROVE  /\ call' \in [Call -> CallRecord]
           /\ Private(c) /\ UNCHANGED <<nextGlobal, nextMessage>>
           /\ call'[c].kind = call[c].kind /\ call'[c].step = step
           /\ call'[c].arg = call[c].arg /\ call'[c].seen = call[c].seen
           /\ call'[c].wrote = call[c].wrote
           /\ call'[c].holds = call[c].holds /\ call'[c].at = call[c].at
<1>1. call \in [Call -> CallRecord] /\ call' = [call EXCEPT ![c].step = step]
    BY DEF ChatTypes, Goto
<1>2. QED BY <1>1 DEF Goto, CallRecord, Private, counters

LEMMA EndEffect ==
    ASSUME ChatTypes, NEW c \in Call, Open(c), End(c)
    PROVE  call' \in [Call -> CallRecord] /\ Ends(c)
<1>1. call \in [Call -> CallRecord]
      /\ call' = [call EXCEPT ![c] = [Idle EXCEPT !.kind = call[c].kind, !.step = "ended"]]
    BY DEF ChatTypes, End
<1> DEFINE r == [Idle EXCEPT !.kind = call[c].kind, !.step = "ended"]
<1>2. Idle \in CallRecord /\ call[c].kind \in Kinds /\ Idle.holds = {}
    BY <1>1 DEF Idle, CallRecord, Kinds, Steps
<1>3. r \in CallRecord /\ r.kind = call[c].kind /\ r.step = "ended" /\ r.holds = {}
    BY <1>2 DEF CallRecord, Steps
<1>4. call' = [call EXCEPT ![c] = r]
    BY <1>1
<1> HIDE DEF r
<1>5. /\ call' \in [Call -> CallRecord] /\ call'[c] = r
      /\ \A d \in Call \ {c} : call'[d] = call[d]
    BY <1>1, <1>3, <1>4
<1>6. QED BY <1>3, <1>5 DEF End, Ends, Private, counters

LEMMA WriteEffect ==
    ASSUME ChatTypes, NEW c \in Call, NEW row \in LockableRows,
           NEW new \in {None} \cup MessageRow \cup ConvRow, NEW step \in Steps,
           Write(c, row, new, step)
    PROVE  /\ call' \in [Call -> CallRecord]
           /\ Private(c) /\ UNCHANGED <<nextGlobal, nextMessage>>
           /\ call'[c].kind = call[c].kind /\ call'[c].step = step
           /\ call'[c].arg = call[c].arg /\ call'[c].seen = call[c].seen
           /\ call'[c].wrote = new
           /\ call'[c].holds = call[c].holds \cup {row} /\ call'[c].at = call[c].at
<1>1. call \in [Call -> CallRecord]
      /\ call' = [call EXCEPT ![c].step = step, ![c].wrote = new, ![c].holds = @ \cup {row}]
    BY DEF ChatTypes, Write
<1> DEFINE r == [call[c] EXCEPT !.step = step, !.wrote = new, !.holds = @ \cup {row}]
<1>2. call' = [call EXCEPT ![c] = r] /\ call[c] \in CallRecord
    BY <1>1
<1>3. r \in CallRecord
    BY <1>2 DEF CallRecord
<1>4. /\ r.kind = call[c].kind /\ r.step = step /\ r.arg = call[c].arg /\ r.seen = call[c].seen
      /\ r.wrote = new /\ r.holds = call[c].holds \cup {row} /\ r.at = call[c].at
    BY <1>2 DEF CallRecord
<1> HIDE DEF r
<1>5. /\ call' \in [Call -> CallRecord] /\ call'[c] = r
      /\ \A d \in Call \ {c} : call'[d] = call[d]
    BY <1>1, <1>2, <1>3
<1>6. QED BY <1>4, <1>5 DEF Write, Private, counters

LEMMA AppendEffect ==
    ASSUME ChatTypes, NEW c \in Call, Append(c)
    PROVE  call' \in [Call -> CallRecord] /\ Appends(c)
<1>1. call \in [Call -> CallRecord] /\ nextGlobal \in Nat
      /\ call' = [call EXCEPT ![c].step = "commit", ![c].at = nextGlobal]
    BY DEF ChatTypes, OtherTypes, Append
<1> DEFINE r == [call[c] EXCEPT !.step = "commit", !.at = nextGlobal]
<1>2. call' = [call EXCEPT ![c] = r] /\ call[c] \in CallRecord
    BY <1>1
<1>3. r \in CallRecord
    BY <1>1, <1>2 DEF CallRecord, Steps
<1>4. /\ r.kind = call[c].kind /\ r.step = "commit" /\ r.arg = call[c].arg
      /\ r.seen = call[c].seen /\ r.wrote = call[c].wrote /\ r.holds = call[c].holds
      /\ r.at = nextGlobal
    BY <1>2 DEF CallRecord
<1> HIDE DEF r
<1>5. /\ call' \in [Call -> CallRecord] /\ call'[c] = r
      /\ \A d \in Call \ {c} : call'[d] = call[d]
    BY <1>1, <1>2, <1>3
<1>6. QED BY <1>4, <1>5 DEF Append, Appends, Advances, Private

\* What the statements write.
LEMMA RowsWritten ==
    ASSUME ChatTypes
    PROVE  /\ \A c \in Call : EditedRow(c) \in MessageRow
           /\ \A u \in User : [message EXCEPT !.deletedBy = u] \in MessageRow
           /\ \A n \in Nat : [conv EXCEPT !.last = n] \in ConvRow
<1> message \in MessageRow /\ conv \in ConvRow
    BY DEF ChatTypes, RowTypes
<1>1. \A c \in Call : EditedRow(c) \in MessageRow
    <2>1. SUFFICES ASSUME NEW c \in Call PROVE EditedRow(c) \in MessageRow
        OBVIOUS
    <2>2. c \in Bodies /\ message.editCount + 1 \in Nat
        BY DEF MessageRow, Bodies
    <2>3. [message EXCEPT !.content = c, !.editCount = message.editCount + 1] \in MessageRow
        BY <2>2 DEF MessageRow
    <2>4. EditedRow(c) = [message EXCEPT !.content = c, !.editCount = message.editCount + 1]
        BY DEF EditedRow
    <2>5. QED BY <2>3, <2>4
<1>2. \A u \in User : [message EXCEPT !.deletedBy = u] \in MessageRow
    BY DEF MessageRow
<1>3. \A n \in Nat : [conv EXCEPT !.last = n] \in ConvRow
    BY DEF ConvRow
<1>4. QED BY <1>1, <1>2, <1>3

\* A patch sets its column and leaves the others as they were read.
LEMMA PatchedFields ==
    ASSUME NEW c \in Call, call[c].seen \in ConvRow, call[c].arg \in Fields
    PROVE  /\ PatchedRow(c) \in ConvRow
           /\ PatchedRow(c)[call[c].arg] = c
           /\ PatchedRow(c).last = call[c].seen.last
           /\ \A f \in Fields \ {call[c].arg} : PatchedRow(c)[f] = call[c].seen[f]
<1> DEFINE r == call[c].seen
<1>1. r \in ConvRow /\ c \in Bodies
    BY DEF Bodies
<1>2. CASE call[c].arg = "title"
    <2>1. PatchedRow(c) = [r EXCEPT !.title = c]
        BY <1>2 DEF PatchedRow
    <2> HIDE DEF r
    <2>2. /\ [r EXCEPT !.title = c] \in ConvRow
          /\ [r EXCEPT !.title = c].title = c /\ [r EXCEPT !.title = c].last = r.last
          /\ [r EXCEPT !.title = c].settings = r.settings
        BY <1>1 DEF ConvRow
    <2>3. QED BY <1>2, <2>1, <2>2 DEF Fields, r
<1>3. CASE call[c].arg = "settings"
    <2>1. PatchedRow(c) = [r EXCEPT !.settings = c]
        BY <1>3 DEF PatchedRow
    <2> HIDE DEF r
    <2>2. /\ [r EXCEPT !.settings = c] \in ConvRow
          /\ [r EXCEPT !.settings = c].settings = c /\ [r EXCEPT !.settings = c].last = r.last
          /\ [r EXCEPT !.settings = c].title = r.title
        BY <1>1 DEF ConvRow
    <2>3. QED BY <1>3, <2>1, <2>2 DEF Fields, r
<1>4. QED BY <1>2, <1>3 DEF Fields

LEMMA NamesOfRows ==
    /\ Message \in LockableRows /\ Conversation \in LockableRows /\ Floor \in LockableRows
    /\ \A k \in Keys : k \in LockableRows
BY DEF LockableRows

LEMMA StartCases ==
    ASSUME ChatTypes, NEW c \in Call,
           \/ \E u \in User : BeginEdit(c, u) \/ BeginDelete(c, u)
           \/ \E u \in User, e \in Emoji : \E kind \in {"add", "remove"} : BeginReaction(c, kind, u, e)
           \/ \E u \in User : \E field \in Fields : BeginUpdate(c, u, field)
           \/ BeginSend(c)
    PROVE  call' \in [Call -> CallRecord] /\ Starts(c)
<1> USE DEF Kinds, Steps
<1>1. message.content \in Bodies /\ conv \in ConvRow
    BY DEF ChatTypes, RowTypes, MessageRow
<1>2. ASSUME NEW u \in User, BeginEdit(c, u) PROVE call' \in [Call -> CallRecord] /\ Starts(c)
    BY <1>1, <1>2, BeginEffect DEF BeginEdit, Starts
<1>3. ASSUME NEW u \in User, BeginDelete(c, u) PROVE call' \in [Call -> CallRecord] /\ Starts(c)
    BY <1>3, BeginEffect DEF BeginDelete, Starts
<1>4. ASSUME NEW u \in User, NEW e \in Emoji, NEW kind \in {"add", "remove"},
             BeginReaction(c, kind, u, e)
      PROVE  call' \in [Call -> CallRecord] /\ Starts(c)
    <2>1. Key(u, e) \in Keys
        BY DEF Key, Keys
    <2>2. CASE kind = "add"
        BY <1>4, <2>1, <2>2, BeginEffect DEF BeginReaction, Starts
    <2>3. CASE kind = "remove"
        BY <1>4, <2>1, <2>3, BeginEffect DEF BeginReaction, Starts
    <2>4. QED BY <2>2, <2>3
<1>5. ASSUME NEW u \in User, NEW field \in Fields, BeginUpdate(c, u, field)
      PROVE  call' \in [Call -> CallRecord] /\ Starts(c)
    BY <1>1, <1>5, BeginEffect DEF BeginUpdate, Starts
<1>6. ASSUME BeginSend(c) PROVE call' \in [Call -> CallRecord] /\ Starts(c)
    <2>1. call \in [Call -> CallRecord] /\ nextSeq \in Nat \ {0} /\ call[c].step = "idle"
          /\ call' = [call EXCEPT ![c].kind = "send", ![c].step = "insert", ![c].arg = nextSeq]
        BY <1>6 DEF ChatTypes, OtherTypes, BeginSend
    <2> DEFINE r == [call[c] EXCEPT !.kind = "send", !.step = "insert", !.arg = nextSeq]
    <2>2. call' = [call EXCEPT ![c] = r] /\ call[c] \in CallRecord
        BY <2>1
    <2>3. r \in CallRecord
        BY <2>1, <2>2 DEF CallRecord
    <2>4. r.kind = "send" /\ r.step = "insert" /\ r.arg = nextSeq /\ r.holds = call[c].holds
        BY <2>2 DEF CallRecord
    <2> HIDE DEF r
    <2>5. /\ call' \in [Call -> CallRecord] /\ call'[c] = r
          /\ \A d \in Call \ {c} : call'[d] = call[d]
        BY <2>1, <2>2, <2>3
    <2>6. QED BY <1>6, <2>1, <2>4, <2>5 DEF BeginSend, Starts, Private
<1>7. QED BY <1>2, <1>3, <1>4, <1>5, <1>6

\* The statements on messages and reactions.
LEMMA MessageCases ==
    ASSUME ChatTypes, CallsAreShaped, NEW c \in Call,
           ApplyEdit(c) \/ ApplyTombstone(c) \/ AddRow(c) \/ DeleteRow(c)
    PROVE  call' \in [Call -> CallRecord] /\ (Ends(c) \/ \E row \in LockableRows : Takes(c, row))
<1> USE DEF Steps
<1>1. Editable(message) <=> ~Deleted
    BY DEF Editable, Deleted
<1>2. ASSUME ApplyEdit(c)
      PROVE  call' \in [Call -> CallRecord] /\ (Ends(c) \/ Takes(c, Message))
    <2>1. CASE Editable(message)
        BY <1>1, <1>2, <2>1, WriteEffect, RowsWritten, NamesOfRows
        DEF ApplyEdit, At, Takes, Advances
    <2>2. CASE ~Editable(message)
        BY <1>2, <2>2, EndEffect DEF ApplyEdit, At, Open
    <2>3. QED BY <2>1, <2>2
<1>3. ASSUME ApplyTombstone(c)
      PROVE  call' \in [Call -> CallRecord] /\ (Ends(c) \/ Takes(c, Message))
    <2>1. call[c].arg \in User
        BY <1>3 DEF CallsAreShaped, ApplyTombstone, At, Begun
    <2>2. CASE Editable(message)
        BY <1>1, <1>3, <2>1, <2>2, WriteEffect, RowsWritten, NamesOfRows
        DEF ApplyTombstone, At, Takes, Advances
    <2>3. CASE ~Editable(message)
        BY <1>3, <2>3, EndEffect DEF ApplyTombstone, At, Open
    <2>4. QED BY <2>2, <2>3
<1>4. ASSUME AddRow(c)
      PROVE  call' \in [Call -> CallRecord] /\ (Ends(c) \/ Takes(c, call[c].arg))
    <2>1. call[c].arg \in Keys
        BY <1>4 DEF CallsAreShaped, AddRow, At, Begun
    <2>2. CASE call[c].arg \in reactions
        BY <1>4, <2>2, EndEffect DEF AddRow, At, Open
    <2>3. CASE call[c].arg \notin reactions
        BY <1>4, <2>1, <2>3, WriteEffect, NamesOfRows DEF AddRow, At, Takes, Advances
    <2>4. QED BY <2>2, <2>3
<1>5. ASSUME DeleteRow(c)
      PROVE  call' \in [Call -> CallRecord] /\ (Ends(c) \/ Takes(c, call[c].arg))
    <2>1. call[c].arg \in Keys
        BY <1>5 DEF CallsAreShaped, DeleteRow, At, Begun
    <2>2. CASE call[c].arg \notin reactions
        BY <1>5, <2>2, EndEffect DEF DeleteRow, At, Open
    <2>3. CASE call[c].arg \in reactions
        BY <1>5, <2>1, <2>3, WriteEffect, NamesOfRows DEF DeleteRow, At, Takes, Advances
    <2>4. QED BY <2>2, <2>3
<1>6. \A row : Takes(c, row) /\ (row = Message \/ row \in Keys) => row \in LockableRows
    BY NamesOfRows
<1>7. AddRow(c) \/ DeleteRow(c) => call[c].arg \in Keys
    BY DEF CallsAreShaped, AddRow, DeleteRow, At, Begun
<1>8. QED BY <1>2, <1>3, <1>4, <1>5, <1>6, <1>7

\* The statements on the conversation, and of a send.
LEMMA ConversationCases ==
    ASSUME ChatTypes, CallsAreShaped, NEW c \in Call,
           ApplyUpdate(c) \/ InsertMessage(c) \/ Persist(c) \/ Bump(c)
    PROVE  /\ call' \in [Call -> CallRecord]
           /\ Passes(c) \/ \E row \in LockableRows : Takes(c, row)
<1> USE DEF Steps
<1>1. ASSUME ApplyUpdate(c) PROVE call' \in [Call -> CallRecord] /\ Takes(c, Conversation)
    <2>1. call[c].arg \in Fields /\ call[c].seen \in ConvRow
        BY <1>1 DEF CallsAreShaped, ApplyUpdate, At, Begun
    <2>2. PatchedRow(c) \in ConvRow
        BY <2>1, PatchedFields
    <2>3. QED
        BY <1>1, <2>2, WriteEffect, NamesOfRows DEF ApplyUpdate, At, Takes, Advances
<1>2. ASSUME InsertMessage(c) PROVE call' \in [Call -> CallRecord] /\ Passes(c)
    <2>1. call \in [Call -> CallRecord] /\ nextMessage \in Nat
          /\ call' = [call EXCEPT ![c].step = "persist", ![c].at = nextMessage]
        BY <1>2 DEF ChatTypes, OtherTypes, InsertMessage
    <2> DEFINE r == [call[c] EXCEPT !.step = "persist", !.at = nextMessage]
    <2>2. call' = [call EXCEPT ![c] = r] /\ call[c] \in CallRecord
        BY <2>1
    <2>3. r \in CallRecord
        BY <2>1, <2>2 DEF CallRecord
    <2>4. /\ r.kind = call[c].kind /\ r.step = "persist" /\ r.arg = call[c].arg
          /\ r.seen = call[c].seen /\ r.wrote = call[c].wrote /\ r.holds = call[c].holds
          /\ r.at = nextMessage
        BY <2>2 DEF CallRecord
    <2> HIDE DEF r
    <2>5. /\ call' \in [Call -> CallRecord] /\ call'[c] = r
          /\ \A d \in Call \ {c} : call'[d] = call[d]
        BY <2>1, <2>2, <2>3
    <2>6. QED BY <1>2, <2>4, <2>5 DEF InsertMessage, At, Passes, Advances, Private
<1>3. ASSUME Persist(c) PROVE call' \in [Call -> CallRecord] /\ Takes(c, Floor)
    BY <1>3, WriteEffect, NamesOfRows DEF Persist, At, Takes, Advances
<1>4. ASSUME Bump(c)
      PROVE  call' \in [Call -> CallRecord] /\ (Passes(c) \/ Takes(c, Conversation))
    <2>1. call[c].arg \in Nat \ {0}
        BY <1>4 DEF CallsAreShaped, Bump, At, Begun
    <2>2. CASE Bumped(call[c].arg) = conv
        BY <1>4, <2>2, GotoEffect DEF Bump, At, Passes, Advances
    <2>3. CASE Bumped(call[c].arg) # conv
        <3>1. /\ Bumped(call[c].arg) = [conv EXCEPT !.last = call[c].arg]
              /\ conv.last < call[c].arg
            BY <2>3 DEF Bumped
        <3>2. Bumped(call[c].arg) \in ConvRow
            BY <2>1, <3>1, RowsWritten
        <3>3. QED
            BY <1>4, <2>3, <3>1, <3>2, WriteEffect, NamesOfRows DEF Bump, At, Takes, Advances
    <2>4. QED BY <2>2, <2>3
<1>5. QED BY <1>1, <1>2, <1>3, <1>4, NamesOfRows

\* Every step is one of these.
LEMMA StepCases ==
    ASSUME ChatTypes, CallsAreShaped, NEW c \in Call, Step(c), ~Commit(c)
    PROVE  /\ call' \in [Call -> CallRecord]
           /\ \/ Starts(c) \/ Passes(c) \/ Ends(c) \/ Appends(c)
              \/ \E row \in LockableRows : Takes(c, row)
<1>1. CASE CountReactions(c) \/ CountDistinct(c)
    <2> USE DEF Steps
    <2>1. CASE CountReactions(c)
        BY <2>1, GotoEffect DEF CountReactions, At, Passes, Advances
    <2>2. CASE CountDistinct(c) /\ BelowLimit
        BY <2>2, GotoEffect DEF CountDistinct, At, Passes, Advances
    <2>3. CASE CountDistinct(c) /\ ~BelowLimit
        BY <2>3, EndEffect DEF CountDistinct, At, Open
    <2>4. QED BY <1>1, <2>1, <2>2, <2>3
<1>2. CASE Append(c)
    BY <1>2, AppendEffect
<1>3. CASE Fail(c)
    BY <1>3, EndEffect DEF Fail
<1>4. QED
    BY <1>1, <1>2, <1>3, StartCases, MessageCases, ConversationCases DEF Step

\* What a commit does to the calls.
LEMMA CommitEffect ==
    ASSUME ChatTypes, NEW c \in Call, Commit(c)
    PROVE  /\ call' \in [Call -> CallRecord]
           /\ \A d \in Call \ {c} : call'[d] = call[d]
           /\ call[c].step = "commit" /\ Open(c)
           /\ call[c].kind \in {"edit", "delete", "add", "remove", "update", "send"}
           /\ call'[c].kind = call[c].kind /\ call'[c].step = "committed"
           /\ call'[c].arg = call[c].arg /\ call'[c].seen = call[c].seen
           /\ call'[c].holds = {}
           /\ met' \in [Call -> SUBSET Call]
           /\ met'[c] = met[c]
           /\ \A d \in Call \ {c} : met'[d] = IF Open(d) THEN met[d] \cup {c} ELSE met[d]
           /\ UNCHANGED <<nextGlobal, nextSeq, nextMessage, cursor, got>>
<1>1. /\ call \in [Call -> CallRecord] /\ met \in [Call -> SUBSET Call]
      /\ call' = [call EXCEPT ![c].step = "committed", ![c].wrote = None, ![c].holds = {}]
      /\ met' = [d \in Call |-> IF Open(d) /\ d # c THEN met[d] \cup {c} ELSE met[d]]
      /\ UNCHANGED <<nextGlobal, nextSeq, nextMessage, cursor, got>>
    BY DEF ChatTypes, OtherTypes, Commit, counters
<1> DEFINE r == [call[c] EXCEPT !.step = "committed", !.wrote = None, !.holds = {}]
<1>2. call' = [call EXCEPT ![c] = r] /\ call[c] \in CallRecord
    BY <1>1
<1>3. r \in CallRecord
    BY <1>2 DEF CallRecord, Steps
<1>4. /\ r.kind = call[c].kind /\ r.step = "committed" /\ r.arg = call[c].arg
      /\ r.seen = call[c].seen /\ r.holds = {}
    BY <1>2 DEF CallRecord
<1> HIDE DEF r
<1>5. /\ call' \in [Call -> CallRecord] /\ call'[c] = r
      /\ \A d \in Call \ {c} : call'[d] = call[d]
    BY <1>1, <1>2, <1>3
<1>6. /\ call[c].step = "commit" /\ Open(c)
      /\ call[c].kind \in {"edit", "delete", "add", "remove", "update", "send"}
    BY DEF Commit, CommitEdit, CommitDelete, CommitReaction, CommitUpdate, CommitSend, At, Open
<1>7. /\ met' \in [Call -> SUBSET Call] /\ met'[c] = met[c]
      /\ \A d \in Call \ {c} : met'[d] = IF Open(d) THEN met[d] \cup {c} ELSE met[d]
    BY <1>1
<1>8. QED BY <1>1, <1>4, <1>5, <1>6, <1>7

\* The outbox row of a commit.
LEMMA LogAfterCommit ==
    ASSUME NEW c \in Call, Commit(c)
    PROVE  /\ call[c].kind = "send" => log' = log
           /\ call[c].kind # "send" =>
                /\ DOMAIN log' = DOMAIN log \cup {call[c].at}
                /\ log'[call[c].at] = Event(c)
                /\ \A n \in DOMAIN log : n # call[c].at => log'[n] = log[n]
BY DEF Commit

\* Once committed, a call stays so; only a commit makes one.
LEMMA CommitsStay ==
    ASSUME ChatTypes, CallsAreShaped, Next, NEW d \in Call, NEW kind
    PROVE  /\ Committed(d, kind) => Committed(d, kind)' /\ call'[d].arg = call[d].arg
           /\ met[d] \subseteq met'[d]
           /\ Committed(d, kind)' /\ ~Commit(d) => Committed(d, kind)
<1>1. CASE Poll
    BY <1>1 DEF Poll, Committed
<1>2. ASSUME NEW c \in Call, Commit(c)
      PROVE  /\ Committed(d, kind) => Committed(d, kind)' /\ call'[d].arg = call[d].arg
             /\ met[d] \subseteq met'[d]
             /\ Committed(d, kind)' /\ ~Commit(d) => Committed(d, kind)
    BY <1>2, CommitEffect DEF Committed
<1>3. ASSUME NEW c \in Call, Step(c), ~Commit(c)
      PROVE  /\ Committed(d, kind) => Committed(d, kind)' /\ call'[d].arg = call[d].arg
             /\ met[d] \subseteq met'[d]
             /\ Committed(d, kind)' /\ ~Commit(d) => Committed(d, kind)
    <2>1. CASE Starts(c)
        BY <2>1 DEF Starts, Private, Committed
    <2>2. CASE Passes(c)
        BY <2>2 DEF Passes, Private, Committed, Advances
    <2>3. CASE Ends(c)
        BY <2>3 DEF Ends, Private, Committed, Open
    <2>4. CASE Appends(c)
        BY <2>4 DEF Appends, Private, Committed, Advances
    <2>5. CASE \E row \in LockableRows : Takes(c, row)
        BY <2>5 DEF Takes, Private, Committed, Advances
    <2>6. QED BY <1>3, <2>1, <2>2, <2>3, <2>4, <2>5, StepCases
<1>4. QED BY <1>1, <1>2, <1>3 DEF Next

LEMMA NextCases ==
    ASSUME ChatTypes, CallsAreShaped, Next
    PROVE  \/ Poll
           \/ \E c \in Call : Commit(c)
           \/ \E c \in Call : call' \in [Call -> CallRecord] /\ Starts(c)
           \/ \E c \in Call : call' \in [Call -> CallRecord] /\ Passes(c)
           \/ \E c \in Call : call' \in [Call -> CallRecord] /\ Ends(c)
           \/ \E c \in Call : call' \in [Call -> CallRecord] /\ Appends(c)
           \/ \E c \in Call : \E row \in LockableRows :
                 call' \in [Call -> CallRecord] /\ Takes(c, row)
BY StepCases DEF Next

-----------------------------------------------------------------------------
(* What calls hold.                                                        *)

\* One call's part of CallsAreShaped.
Shaped(c) ==
    /\ call[c].step \in StepsOf(call[c].kind)
    /\ call[c].holds = HeldRows(c)
    /\ Begun(c) =>
         CASE call[c].kind \in {"edit", "delete"} -> call[c].arg \in User
           [] call[c].kind \in {"add", "remove"} -> call[c].arg \in Keys
           [] call[c].kind = "update" -> call[c].arg \in Fields
           [] call[c].kind = "send" -> call[c].arg \in Nat \ {0}
    /\ Begun(c) /\ call[c].kind = "edit" => call[c].seen \in Bodies
    /\ Begun(c) /\ call[c].kind = "update" => call[c].seen \in ConvRow

LEMMA ShapedStep == ASSUME ChatTypes, CallsAreShaped, Next PROVE CallsAreShaped'
<1> SUFFICES ASSUME NEW d \in Call PROVE Shaped(d)'
    BY DEF CallsAreShaped, Shaped
<1> USE DEF StepsOf, HeldRows, Begun, Written
<1>1. Shaped(d)
    BY DEF CallsAreShaped, Shaped
<1>2. ASSUME call'[d] = call[d] PROVE Shaped(d)'
    BY <1>1, <1>2 DEF Shaped
<1>3. CASE Poll
    BY <1>2, <1>3 DEF Poll
<1>4. CASE Commit(d)
    BY <1>1, <1>4, CommitEffect DEF Shaped
<1>5. message.content \in Bodies /\ conv \in ConvRow
    BY DEF ChatTypes, RowTypes, MessageRow
<1>6. CASE Starts(d)
    <2>1. call[d].holds = {}
        BY <1>1, <1>6 DEF Shaped, Starts
    <2>2. QED BY <1>5, <1>6, <2>1 DEF Shaped, Starts
<1>7. CASE Passes(d)
    BY <1>1, <1>7, RowsDiffer DEF Shaped, Passes, Advances
<1>8. CASE Ends(d)
    BY <1>1, <1>8 DEF Shaped, Ends, Open
<1>9. CASE Appends(d)
    BY <1>1, <1>9 DEF Shaped, Appends, Advances
<1>10. ASSUME NEW row \in LockableRows, Takes(d, row) PROVE Shaped(d)'
    BY <1>1, <1>10, RowsDiffer DEF Shaped, Takes, Advances
<1>11. ASSUME NEW c \in Call, c # d,
              \/ Commit(c) \/ Starts(c) \/ Passes(c) \/ Ends(c) \/ Appends(c)
              \/ \E row \in LockableRows : Takes(c, row)
       PROVE  call'[d] = call[d]
    BY <1>11, CommitEffect DEF Starts, Passes, Ends, Appends, Takes, Private
<1>12. QED
    BY <1>2, <1>3, <1>4, <1>6, <1>7, <1>8, <1>9, <1>10, <1>11, NextCases

\* A row goes to a call only when no other holds it.
LEMMA LocksStep == ASSUME ChatTypes, CallsAreShaped, LocksApart, Next PROVE LocksApart'
<1>1. CASE Poll
    BY <1>1 DEF Poll, LocksApart
<1>2. ASSUME NEW c \in Call, \A d \in Call \ {c} : call'[d] = call[d],
             call'[c].holds \subseteq call[c].holds
      PROVE  LocksApart'
    BY <1>2 DEF LocksApart
<1>3. ASSUME NEW c \in Call, NEW row \in LockableRows, Takes(c, row)
      PROVE  LocksApart'
    BY <1>3 DEF Takes, Private, Locked, LocksApart
<1>4. ASSUME NEW c \in Call, Commit(c) \/ Starts(c) \/ Passes(c) \/ Ends(c) \/ Appends(c)
      PROVE  LocksApart'
    BY <1>2, <1>4, CommitEffect DEF Starts, Passes, Ends, Appends, Private
<1>5. QED BY <1>1, <1>3, <1>4, NextCases

-----------------------------------------------------------------------------
(* What calls have written.                                                *)

\* What a commit does to the tables.
LEMMA CommitRows ==
    ASSUME NEW c \in Call, Commit(c)
    PROVE  /\ call[c].kind = "edit" =>
                /\ message' = call[c].wrote
                /\ edits' = edits \cup {[by |-> c, old |-> call[c].seen]}
                /\ UNCHANGED <<reactions, conv, sent, late>>
           /\ call[c].kind = "delete" =>
                message' = call[c].wrote /\ UNCHANGED <<edits, reactions, conv, sent, late>>
           /\ call[c].kind = "add" =>
                /\ reactions' = reactions \cup {call[c].arg}
                /\ UNCHANGED <<message, edits, conv, sent, late>>
           /\ call[c].kind = "remove" =>
                /\ reactions' = reactions \ {call[c].arg}
                /\ UNCHANGED <<message, edits, conv, sent, late>>
           /\ call[c].kind = "update" =>
                conv' = call[c].wrote /\ UNCHANGED <<message, edits, reactions, sent, late>>
           /\ call[c].kind = "send" =>
                /\ conv' = IF Conversation \in call[c].holds THEN call[c].wrote ELSE conv
                /\ sent' = sent \cup {[by |-> c, seq |-> call[c].arg, global |-> call[c].at]}
                /\ late' = IF call[c].at <= cursor THEN late \cup {c} ELSE late
                /\ UNCHANGED <<message, edits, reactions>>
BY DEF Commit, CommitEdit, CommitDelete, CommitReaction, CommitUpdate, CommitSend, At

\* What a commit holds, and what it writes.
LEMMA CommitHolds ==
    ASSUME ChatTypes, CallsAreShaped, WritesAreCurrent, NEW c \in Call, Commit(c)
    PROVE  /\ call[c].kind \in {"edit", "delete"} => Message \in call[c].holds /\ call[c].arg \in User
           /\ call[c].kind \in {"add", "remove"} =>
                call[c].arg \in call[c].holds /\ call[c].arg \in Keys
           /\ call[c].kind = "update" =>
                /\ Conversation \in call[c].holds /\ call[c].arg \in Fields
                /\ call[c].seen \in ConvRow /\ call[c].wrote = PatchedRow(c)
           /\ call[c].kind = "send" => call[c].arg \in Nat \ {0}
           /\ call[c].kind = "edit" =>
                call[c].seen \in Bodies /\ call[c].wrote = EditedRow(c) /\ ~Deleted
           /\ call[c].kind = "delete" =>
                call[c].wrote = [message EXCEPT !.deletedBy = call[c].arg] /\ ~Deleted
           /\ call[c].kind = "send" /\ Conversation \in call[c].holds =>
                conv.last < call[c].arg /\ call[c].wrote = [conv EXCEPT !.last = call[c].arg]
<1>1. call[c].step = "commit"
    BY CommitEffect
<1>2. call[c].kind \in {"edit", "delete", "add", "remove", "update", "send"}
    BY CommitEffect
<1>3. call[c].holds = HeldRows(c) /\ Written(c) /\ Begun(c)
    BY <1>1 DEF CallsAreShaped, Written, Begun
<1>4. QED
    BY <1>1, <1>2, <1>3 DEF CallsAreShaped, HeldRows, WritesAreCurrent

Current(c) ==
    /\ call[c].kind = "edit" /\ Written(c) => call[c].wrote = EditedRow(c) /\ ~Deleted
    /\ call[c].kind = "delete" /\ Written(c) =>
         call[c].wrote = [message EXCEPT !.deletedBy = call[c].arg] /\ ~Deleted
    /\ call[c].kind = "update" /\ Written(c) => call[c].wrote = PatchedRow(c)
    /\ call[c].kind = "send" /\ call[c].step = "commit" /\ Conversation \in call[c].holds =>
         conv.last < call[c].arg /\ call[c].wrote = [conv EXCEPT !.last = call[c].arg]

LEMMA WritesStep ==
    ASSUME ChatTypes, CallsAreShaped, LocksApart, WritesAreCurrent, Next
    PROVE  WritesAreCurrent'
<1> SUFFICES ASSUME NEW d \in Call PROVE Current(d)'
    BY DEF WritesAreCurrent, Current
<1> USE DEF Written
<1>1. Current(d)
    BY DEF WritesAreCurrent, Current
<1>2. ASSUME call'[d] = call[d], message' = message, conv' = conv PROVE Current(d)'
    BY <1>1, <1>2 DEF Current, EditedRow, PatchedRow, Deleted
<1>3. CASE Poll
    BY <1>2, <1>3 DEF Poll, rows
<1>4. ASSUME NEW c \in Call, Commit(c) PROVE Current(d)'
    <2>1. CASE c = d
        BY <1>4, <2>1, CommitEffect DEF Current
    <2>2. CASE c # d
        <3>1. call'[d] = call[d] /\ call[c].holds \cap call[d].holds = {}
            BY <1>4, <2>2, CommitEffect DEF LocksApart
        <3>2. message' = message \/ Message \notin call[d].holds
            BY <1>4, <3>1, CommitEffect, CommitRows, CommitHolds
        <3>3. conv' = conv \/ Conversation \notin call[d].holds
            BY <1>4, <3>1, CommitEffect, CommitRows, CommitHolds
        <3>4. call[d].kind \in {"edit", "delete"} /\ Written(d) => Message \in call[d].holds
            BY DEF CallsAreShaped, HeldRows
        <3>5. QED
            BY <1>1, <3>1, <3>2, <3>3, <3>4 DEF Current, EditedRow, PatchedRow, Deleted
    <2>3. QED BY <2>1, <2>2
<1>5. CASE Starts(d)
    BY <1>5 DEF Starts, Current
<1>6. CASE Passes(d)
    <2>1. call[d].kind = "send" /\ call[d].step = "bump" => Conversation \notin call[d].holds
        BY RowsDiffer DEF CallsAreShaped, HeldRows
    <2>2. QED BY <1>6, <2>1 DEF Passes, Advances, Current
<1>7. CASE Ends(d)
    BY <1>7 DEF Ends, Current
<1>8. CASE Appends(d)
    <2>1. message' = message /\ conv' = conv
        BY <1>8 DEF Appends, Private, rows
    <2>2. call[d].kind = "send" => call[d].step # "append"
        BY DEF CallsAreShaped, StepsOf
    <2>3. QED
        BY <1>1, <1>8, <2>1, <2>2
        DEF Appends, Advances, Current, EditedRow, PatchedRow, Deleted
<1>9. ASSUME NEW row \in LockableRows, Takes(d, row) PROVE Current(d)'
    <2>1. message' = message /\ conv' = conv
        BY <1>9 DEF Takes, Private, rows
    <2>2. QED
        BY <1>9, <2>1 DEF Takes, Advances, Current, EditedRow, PatchedRow, Deleted
<1>10. ASSUME NEW c \in Call, c # d,
              \/ Starts(c) \/ Passes(c) \/ Ends(c) \/ Appends(c)
              \/ \E row \in LockableRows : Takes(c, row)
       PROVE  call'[d] = call[d] /\ message' = message /\ conv' = conv
    BY <1>10 DEF Starts, Passes, Ends, Appends, Takes, Private, rows
<1>11. QED
    BY <1>2, <1>3, <1>4, <1>5, <1>6, <1>7, <1>8, <1>9, <1>10, NextCases

\* Outside a commit the tables stay as they are.
LEMMA OnlyCommitsWrite ==
    ASSUME ChatTypes, CallsAreShaped, Next
    PROVE  \/ \E c \in Call : Commit(c)
           \/ UNCHANGED rows /\ UNCHANGED met /\ (Poll \/ UNCHANGED poller)
BY NextCases DEF Poll, Starts, Passes, Ends, Appends, Takes, Private

LEMMA RowTypesStep ==
    ASSUME ChatTypes, CallsAreShaped, WritesAreCurrent, Next PROVE RowTypes'
<1> RowTypes BY DEF ChatTypes
<1>1. CASE UNCHANGED rows
    BY <1>1 DEF rows, RowTypes
<1>2. ASSUME NEW c \in Call, Commit(c) PROVE RowTypes'
    <2>1. call[c].kind \in {"edit", "delete", "add", "remove", "update", "send"}
        BY <1>2, CommitEffect
    <2>2. message' \in MessageRow
        <3>1. CASE call[c].kind = "edit"
            <4>1. message' = EditedRow(c)
                BY <1>2, <3>1, CommitRows, CommitHolds
            <4>2. QED BY <4>1, RowsWritten
        <3>2. CASE call[c].kind = "delete"
            <4>1. message' = [message EXCEPT !.deletedBy = call[c].arg] /\ call[c].arg \in User
                BY <1>2, <3>2, CommitRows, CommitHolds
            <4>2. QED BY <4>1, RowsWritten
        <3>3. CASE call[c].kind \notin {"edit", "delete"}
            <4>1. message' = message
                BY <1>2, <2>1, <3>3, CommitRows
            <4>2. QED BY <4>1 DEF RowTypes
        <3>4. QED BY <3>1, <3>2, <3>3
    <2>3. conv' \in ConvRow
        <3>1. CASE call[c].kind = "update"
            <4>1. conv' = PatchedRow(c) /\ call[c].seen \in ConvRow /\ call[c].arg \in Fields
                BY <1>2, <3>1, CommitRows, CommitHolds
            <4>2. QED BY <4>1, PatchedFields
        <3>2. CASE call[c].kind # "update"
            BY <1>2, <2>1, <3>2, CommitRows, CommitHolds, RowsWritten DEF RowTypes
        <3>3. QED BY <3>1, <3>2
    <2>4. edits' \in SUBSET Edit /\ IsFiniteSet(edits')
        <3>1. CASE call[c].kind = "edit"
            <4>1. [by |-> c, old |-> call[c].seen] \in Edit
                BY <1>2, <3>1, CommitHolds DEF Edit
            <4>2. edits' = edits \cup {[by |-> c, old |-> call[c].seen]}
                BY <1>2, <3>1, CommitRows
            <4>3. QED BY <4>1, <4>2, FS_AddElement DEF RowTypes
        <3>2. CASE call[c].kind # "edit"
            BY <1>2, <2>1, <3>2, CommitRows DEF RowTypes
        <3>3. QED BY <3>1, <3>2
    <2>5. reactions' \in SUBSET Keys
        <3>1. CASE call[c].kind \in {"add", "remove"}
            <4>1. /\ reactions' = reactions \cup {call[c].arg} \/ reactions' = reactions \ {call[c].arg}
                  /\ call[c].arg \in Keys
                BY <1>2, <3>1, CommitRows, CommitHolds
            <4>2. QED BY <4>1 DEF RowTypes
        <3>2. CASE call[c].kind \notin {"add", "remove"}
            <4>1. reactions' = reactions
                BY <1>2, <2>1, <3>2, CommitRows
            <4>2. QED BY <4>1 DEF RowTypes
        <3>3. QED BY <3>1, <3>2
    <2>6. sent' \in SUBSET SentMessage /\ IsFiniteSet(sent')
        <3>1. CASE call[c].kind = "send"
            <4>1. call[c].at \in Nat
                BY DEF ChatTypes, CallRecord
            <4>2. [by |-> c, seq |-> call[c].arg, global |-> call[c].at] \in SentMessage
                BY <1>2, <3>1, <4>1, CommitHolds DEF SentMessage
            <4>3. sent' = sent \cup {[by |-> c, seq |-> call[c].arg, global |-> call[c].at]}
                BY <1>2, <3>1, CommitRows
            <4>4. QED BY <4>2, <4>3, FS_AddElement DEF RowTypes
        <3>2. CASE call[c].kind # "send"
            BY <1>2, <2>1, <3>2, CommitRows DEF RowTypes
        <3>3. QED BY <3>1, <3>2
    <2>7. QED BY <2>2, <2>3, <2>4, <2>5, <2>6 DEF RowTypes
<1>3. QED BY <1>1, <1>2, OnlyCommitsWrite

-----------------------------------------------------------------------------
(* Polls.                                                                  *)

LEMMA BelowIsFinite ==
    ASSUME ChatTypes, NEW x
    PROVE  /\ IsFiniteSet(Newer)
           /\ IsFiniteSet({n \in Newer : n.global < x})
           /\ Cardinality({n \in Newer : n.global < x}) \in Nat
<1>1. IsFiniteSet(Newer)
    BY FS_Subset DEF ChatTypes, RowTypes, Newer
<1>2. {n \in Newer : n.global < x} \in SUBSET Newer
    OBVIOUS
<1>3. QED BY <1>1, <1>2, FS_Subset, FS_CardinalityType

\* A page is not empty, and holds everything up to its last message.
LEMMA PageIsWhole ==
    ASSUME ChatTypes, GlobalsAreDrawn, Newer # {}
    PROVE  /\ LastOf(Page) \in Page
           /\ \A m \in Newer : m.global <= LastOf(Page).global => m \in Page
<1> DEFINE below(m) == {n \in Newer : n.global < m.global}
<1>1. \A m \in Newer : m \in sent /\ m.global \in Nat /\ m.global < nextMessage
    BY DEF Newer, GlobalsAreDrawn, ChatTypes, RowTypes, SentMessage
<1>2. Limit \in Nat \ {0} /\ nextMessage \in Nat
    BY LimitsAssumption DEF ChatTypes, OtherTypes
<1>3. Page # {}
    <2>1. {m.global : m \in Newer} \in SUBSET Nat /\ {m.global : m \in Newer} # {}
        BY <1>1
    <2>2. PICK g \in {m.global : m \in Newer} : \A h \in {m.global : m \in Newer} : g <= h
        BY <2>1, HasLeast
    <2>3. PICK m \in Newer : m.global = g
        BY <2>2
    <2>4. \A n \in Newer : ~(n.global < m.global)
        BY <1>1, <2>2, <2>3
    <2>5. below(m) = {}
        BY <2>4
    <2>6. Cardinality(below(m)) = 0
        BY <2>5, FS_EmptySet
    <2>7. m \in Page
        BY <1>2, <2>6 DEF Page
    <2>8. QED BY <2>7
<1>4. Page \subseteq Newer
    BY DEF Page
<1>5. LastOf(Page) \in Page /\ \A n \in Page : n.global <= LastOf(Page).global
    <2>1. {m.global : m \in Page} \in SUBSET Nat /\ {m.global : m \in Page} # {}
        BY <1>1, <1>3, <1>4
    <2>2. \A g \in {m.global : m \in Page} : g <= nextMessage
        BY <1>1, <1>2, <1>4
    <2>3. PICK g \in {m.global : m \in Page} : \A h \in {m.global : m \in Page} : h <= g
        BY <1>2, <2>1, <2>2, HasGreatest
    <2>4. \E m \in Page : \A n \in Page : n.global <= m.global
        BY <2>3
    <2>5. QED BY <2>4 DEF LastOf
<1>6. ASSUME NEW m \in Newer, m.global <= LastOf(Page).global PROVE m \in Page
    <2> DEFINE last == LastOf(Page)
    <2>1. last \in Newer /\ Cardinality(below(last)) < Limit
        BY <1>5 DEF Page
    <2>2. below(m) \in SUBSET below(last)
        <3>1. \A n \in Newer : n.global < m.global => n.global < last.global
            BY <1>1, <1>6, <2>1
        <3> HIDE DEF last
        <3>2. QED BY <3>1
    <2>3. Cardinality(below(m)) <= Cardinality(below(last))
        BY <2>2, BelowIsFinite, FS_Subset
    <2>4. Cardinality(below(m)) < Limit
        BY <1>2, <2>1, <2>3, BelowIsFinite
    <2>5. QED BY <2>4 DEF Page
<1>7. QED BY <1>5, <1>6

LEMMA CountersStep ==
    ASSUME ChatTypes, Next
    PROVE  /\ nextGlobal' \in Nat /\ nextSeq' \in Nat \ {0} /\ nextMessage' \in Nat
           /\ nextMessage <= nextMessage'
<1> OtherTypes BY DEF ChatTypes
<1>1. CASE UNCHANGED counters
    BY <1>1 DEF OtherTypes, counters
<1>2. ASSUME NEW c \in Call, BeginSend(c) \/ InsertMessage(c) \/ Append(c)
      PROVE  /\ nextGlobal' \in Nat /\ nextSeq' \in Nat \ {0} /\ nextMessage' \in Nat
             /\ nextMessage <= nextMessage'
    BY <1>2 DEF OtherTypes, BeginSend, InsertMessage, Append
<1>3. ASSUME NEW c \in Call, Step(c), ~(BeginSend(c) \/ InsertMessage(c) \/ Append(c))
      PROVE  UNCHANGED counters
    <2>1. ASSUME \/ \E u \in User : BeginEdit(c, u) \/ BeginDelete(c, u)
                 \/ \E u \in User, e \in Emoji : \E kind \in {"add", "remove"} :
                       BeginReaction(c, kind, u, e)
                 \/ \E u \in User : \E field \in Fields : BeginUpdate(c, u, field)
          PROVE  UNCHANGED counters
        BY <2>1 DEF BeginEdit, BeginDelete, BeginReaction, BeginUpdate, Begin
    <2>2. ASSUME ApplyEdit(c) \/ ApplyTombstone(c) \/ AddRow(c) \/ DeleteRow(c) \/ ApplyUpdate(c)
          PROVE  UNCHANGED counters
        BY <2>2 DEF ApplyEdit, ApplyTombstone, AddRow, DeleteRow, ApplyUpdate, Write, End
    <2>3. ASSUME \/ CountReactions(c) \/ CountDistinct(c) \/ Persist(c) \/ Bump(c)
                 \/ Commit(c) \/ Fail(c)
          PROVE  UNCHANGED counters
        BY <2>3 DEF CountReactions, CountDistinct, Persist, Bump, Commit, Fail, Goto, Write, End
    <2>4. QED BY <1>3, <2>1, <2>2, <2>3 DEF Step
<1>4. CASE Poll
    BY <1>1, <1>4 DEF Poll, counters
<1>5. QED BY <1>1, <1>2, <1>3, <1>4 DEF Next

LEMMA OtherTypesStep ==
    ASSUME ChatTypes, CallsAreShaped, GlobalsAreDrawn, Next PROVE OtherTypes'
<1> OtherTypes BY DEF ChatTypes
<1>1. cursor' \in Nat /\ got' \in SUBSET Call /\ late' \in SUBSET Call /\ met' \in [Call -> SUBSET Call]
    <2>1. CASE UNCHANGED poller /\ UNCHANGED met
        BY <2>1 DEF poller, OtherTypes
    <2>2. CASE Poll
        <3>1. LastOf(Page) \in Page /\ Page \subseteq sent
            BY <2>2, PageIsWhole DEF Poll, Page, Newer
        <3>2. \A m \in sent : m.by \in Call /\ m.global \in Nat
            BY DEF ChatTypes, RowTypes, SentMessage
        <3>3. QED BY <2>2, <3>1, <3>2 DEF Poll, OtherTypes
    <2>3. ASSUME NEW c \in Call, Commit(c)
          PROVE  /\ cursor' \in Nat /\ got' \in SUBSET Call /\ late' \in SUBSET Call
                 /\ met' \in [Call -> SUBSET Call]
        <3>1. cursor' = cursor /\ got' = got /\ met' \in [Call -> SUBSET Call]
            BY <2>3, CommitEffect
        <3>2. late' = late \/ late' = late \cup {c}
            BY <2>3, CommitEffect, CommitRows
        <3>3. QED BY <3>1, <3>2 DEF OtherTypes
    <2>4. QED BY <2>1, <2>2, <2>3, OnlyCommitsWrite
<1>2. QED BY <1>1, CountersStep DEF OtherTypes

LEMMA TypesStep ==
    ASSUME ChatTypes, CallsAreShaped, WritesAreCurrent, GlobalsAreDrawn, Next PROVE ChatTypes'
<1>1. call' \in [Call -> CallRecord]
    <2>1. CASE Poll
        BY <2>1 DEF Poll, ChatTypes
    <2>2. QED BY <2>1, NextCases, CommitEffect
<1>2. QED BY <1>1, RowTypesStep, OtherTypesStep DEF ChatTypes

LEMMA PollsStep ==
    ASSUME ChatTypes, CallsAreShaped, WritesAreCurrent, GlobalsAreDrawn, SendsAreDrawn,
           PollsPassOnlyLateMessages, Next
    PROVE  GlobalsAreDrawn' /\ SendsAreDrawn' /\ PollsPassOnlyLateMessages'
<1> OtherTypes BY DEF ChatTypes
<1>1. nextMessage \in Nat /\ nextMessage' \in Nat /\ nextMessage <= nextMessage'
    BY CountersStep DEF OtherTypes
<1>2. \A m \in sent : m.global \in Nat
    BY DEF ChatTypes, RowTypes, SentMessage
<1>3. \A c \in Call : call[c].at \in Nat
    BY DEF ChatTypes, CallRecord
<1>4. ASSUME NEW c \in Call, Commit(c), call[c].kind = "send"
      PROVE  /\ sent' = sent \cup {[by |-> c, seq |-> call[c].arg, global |-> call[c].at]}
             /\ call[c].at < nextMessage
             /\ call[c].at <= cursor => c \in late'
             /\ late \subseteq late' /\ cursor' = cursor /\ got' = got
    BY <1>4, CommitRows, CommitEffect DEF SendsAreDrawn
<1>5. ASSUME NEW c \in Call, Commit(c), call[c].kind # "send"
      PROVE  sent' = sent /\ UNCHANGED poller
    BY <1>5, CommitRows, CommitEffect DEF poller
<1>6. GlobalsAreDrawn'
    <2>1. ASSUME sent' = sent PROVE GlobalsAreDrawn'
        BY <1>1, <1>2, <2>1 DEF GlobalsAreDrawn
    <2>2. ASSUME NEW c \in Call, Commit(c), call[c].kind = "send" PROVE GlobalsAreDrawn'
        BY <1>1, <1>2, <1>3, <1>4, <2>2 DEF GlobalsAreDrawn
    <2>3. QED BY <1>5, <2>1, <2>2, OnlyCommitsWrite DEF rows
<1>7. SendsAreDrawn'
    <2> SUFFICES ASSUME NEW d \in Call, call'[d].kind = "send",
                        call'[d].step \in {"persist", "bump", "commit"}
                 PROVE  call'[d].at < nextMessage'
        BY DEF SendsAreDrawn
    <2>1. CASE call'[d] = call[d]
        BY <1>1, <1>3, <2>1 DEF SendsAreDrawn
    <2>2. CASE Poll
        BY <2>1, <2>2 DEF Poll
    <2>3. ~Commit(d) /\ ~Starts(d) /\ ~Ends(d)
        BY CommitEffect DEF Starts, Ends
    <2>4. CASE Passes(d)
        BY <1>1, <1>3, <2>4 DEF Passes, Advances, SendsAreDrawn
    <2>5. CASE Appends(d)
        BY <2>5 DEF Appends, Advances, CallsAreShaped, StepsOf
    <2>6. ASSUME NEW row \in LockableRows, Takes(d, row) PROVE call'[d].at < nextMessage'
        BY <1>1, <1>3, <2>6 DEF Takes, Advances, SendsAreDrawn
    <2>7. ASSUME NEW c \in Call, c # d,
                 \/ Commit(c) \/ Starts(c) \/ Passes(c) \/ Ends(c) \/ Appends(c)
                 \/ \E row \in LockableRows : Takes(c, row)
          PROVE  call'[d] = call[d]
        BY <2>7, CommitEffect DEF Starts, Passes, Ends, Appends, Takes, Private
    <2>8. QED BY <2>1, <2>2, <2>3, <2>4, <2>5, <2>6, <2>7, NextCases
<1>8. PollsPassOnlyLateMessages'
    <2> SUFFICES ASSUME NEW m \in sent', m.global <= cursor' PROVE m.by \in got' \cup late'
        BY DEF PollsPassOnlyLateMessages
    <2>1. CASE sent' = sent /\ UNCHANGED poller
        BY <2>1 DEF PollsPassOnlyLateMessages, poller
    <2>2. ASSUME NEW c \in Call, Commit(c), call[c].kind = "send" PROVE m.by \in got' \cup late'
        BY <1>4, <2>2 DEF PollsPassOnlyLateMessages
    <2>3. CASE Poll
        <3>1. /\ sent' = sent /\ late' = late /\ got' = got \cup {n.by : n \in Page}
              /\ cursor' = LastOf(Page).global /\ Newer # {}
            BY <2>3 DEF Poll, rows
        <3>2. CASE m.global <= cursor
            BY <3>1, <3>2 DEF PollsPassOnlyLateMessages
        <3>3. CASE ~(m.global <= cursor)
            <4>1. m \in Newer
                BY <1>2, <3>1, <3>3 DEF Newer, OtherTypes
            <4>2. m \in Page
                BY <3>1, <4>1, PageIsWhole
            <4>3. QED BY <3>1, <4>2
        <3>4. QED BY <3>2, <3>3
    <2>4. QED BY <1>5, <2>1, <2>2, <2>3, OnlyCommitsWrite DEF rows
<1>9. QED BY <1>6, <1>7, <1>8

-----------------------------------------------------------------------------
(* The outbox rows.                                                        *)

\* Two calls that have written one row would both hold it.
LEMMA WritersApart ==
    ASSUME CallsAreShaped, LocksApart, NEW c \in Call, NEW d \in Call \ {c}, Written(c), Written(d)
    PROVE  ~SameRow(call[c].kind, call[c].arg, call[d].kind, call[d].arg)
<1>1. call[c].holds = HeldRows(c) /\ call[d].holds = HeldRows(d)
    BY DEF CallsAreShaped
<1>2. call[c].holds \cap call[d].holds = {}
    BY DEF LocksApart
<1>3. QED BY <1>1, <1>2 DEF HeldRows, SameRow

LEMMA EventsStep ==
    ASSUME ChatTypes, CallsAreShaped, LocksApart, WritesAreCurrent, EventsInOrder, Next
    PROVE  EventsInOrder'
<1> nextGlobal \in Nat BY DEF ChatTypes, OtherTypes
<1> call \in [Call -> CallRecord] BY DEF ChatTypes
<1>1. ASSUME NEW e \in Call, Logging(e)'
      PROVE  (Logging(e) /\ call'[e] = call[e]) \/ Appends(e)
    <2>1. CASE Poll
        BY <1>1, <2>1 DEF Poll, Logging
    <2>2. ~Commit(e) /\ ~Starts(e) /\ ~Ends(e)
        BY <1>1, CommitEffect DEF Starts, Ends, Logging
    <2>3. ~Passes(e) /\ \A row : ~Takes(e, row)
        BY <1>1 DEF Passes, Takes, Advances, Logging
    <2>4. ASSUME NEW c \in Call, c # e,
                 \/ Commit(c) \/ Starts(c) \/ Passes(c) \/ Ends(c) \/ Appends(c)
                 \/ \E row \in LockableRows : Takes(c, row)
          PROVE  call'[e] = call[e]
        BY <2>4, CommitEffect DEF Starts, Passes, Ends, Appends, Takes, Private
    <2>5. call'[e] = call[e] \/ Appends(e)
        BY <2>1, <2>2, <2>3, <2>4, NextCases DEF Poll
    <2>6. QED BY <1>1, <2>5 DEF Logging
<1>2. ASSUME log' = log, nextGlobal' = nextGlobal PROVE EventsInOrder'
    <2>1. \A e \in Call : ~Appends(e)
        BY <1>2 DEF Appends
    <2>2. \A e \in Call : Logging(e)' => Logging(e) /\ call'[e] = call[e]
        BY <1>1, <2>1
    <2>3. QED BY <1>2, <2>2 DEF EventsInOrder
<1>3. ASSUME NEW c \in Call, Appends(c) PROVE EventsInOrder'
    <2>1. /\ log' = log /\ nextGlobal' = nextGlobal + 1 /\ call'[c].at = nextGlobal
          /\ \A d \in Call \ {c} : call'[d] = call[d]
        BY <1>3 DEF Appends, Private, rows
    <2>2. \A d \in Call \ {c} : Logging(d)' => Logging(d)
        BY <2>1 DEF Logging
    <2>3. DOMAIN log' \subseteq 0 .. nextGlobal' - 1 /\ \A n \in DOMAIN log : n < nextGlobal
        BY <2>1 DEF EventsInOrder
    <2>4. \A n \in DOMAIN log' :
             /\ log'[n].kind \in {"edit", "delete", "add", "remove", "update"}
             /\ log'[n].kind \in {"add", "remove"} => log'[n].arg \in Keys
        BY <2>1 DEF EventsInOrder
    <2>5. \A d \in Call \ {c} : Logging(d)' =>
             /\ call'[d].at < nextGlobal /\ call'[d].at < nextGlobal' /\ call'[d].at \notin DOMAIN log'
             /\ \A n \in DOMAIN log' :
                  SameRow(call'[d].kind, call'[d].arg, log'[n].kind, log'[n].arg) => n < call'[d].at
             /\ \A e \in Call \ {c, d} : Logging(e)' => call'[e].at # call'[d].at
        <3>1. SUFFICES ASSUME NEW d \in Call \ {c}, Logging(d)'
              PROVE  /\ call'[d].at < nextGlobal /\ call'[d].at < nextGlobal'
                     /\ call'[d].at \notin DOMAIN log'
                     /\ \A n \in DOMAIN log' :
                          SameRow(call'[d].kind, call'[d].arg, log'[n].kind, log'[n].arg)
                            => n < call'[d].at
                     /\ \A e \in Call \ {c, d} : Logging(e)' => call'[e].at # call'[d].at
            OBVIOUS
        <3>2. call[d].at \in Nat /\ call'[d] = call[d] /\ Logging(d)
            BY <2>1, <2>2, <3>1 DEF CallRecord
        <3>3. call[d].at < nextGlobal /\ call[d].at < nextGlobal + 1
            BY <3>2 DEF EventsInOrder
        <3>4. QED BY <2>1, <2>2, <3>2, <3>3 DEF EventsInOrder
    <2>6. /\ call'[c].at < nextGlobal' /\ call'[c].at \notin DOMAIN log'
          /\ \A d \in Call \ {c} : Logging(d)' => call'[d].at # call'[c].at
          /\ \A n \in DOMAIN log' : n < call'[c].at
        BY <2>1, <2>3, <2>5
    <2>7. QED
        BY <2>3, <2>4, <2>5, <2>6 DEF EventsInOrder
<1>4. ASSUME NEW c \in Call, Commit(c), call[c].kind = "send" PROVE EventsInOrder'
    BY <1>2, <1>4, LogAfterCommit, CommitEffect
<1>5. ASSUME NEW c \in Call, Commit(c), call[c].kind # "send" PROVE EventsInOrder'
    <2> DEFINE at == call[c].at
    <2>1. /\ DOMAIN log' = DOMAIN log \cup {at} /\ log'[at].kind = call[c].kind
          /\ log'[at].arg = call[c].arg
          /\ \A n \in DOMAIN log : n # at => log'[n] = log[n]
        <3>1. /\ DOMAIN log' = DOMAIN log \cup {at} /\ log'[at] = Event(c)
              /\ \A n \in DOMAIN log : n # at => log'[n] = log[n]
            BY <1>5, LogAfterCommit
        <3>2. Event(c).kind = call[c].kind /\ Event(c).arg = call[c].arg
            BY DEF Event
        <3>3. QED BY <3>1, <3>2
    <2>2. Logging(c) /\ nextGlobal' = nextGlobal
        BY <1>5, CommitEffect DEF Logging
    <2>3. at \in Nat /\ at < nextGlobal /\ at \notin DOMAIN log
        BY <2>2 DEF CallRecord, EventsInOrder
    <2>4. DOMAIN log' \subseteq 0 .. nextGlobal' - 1
        BY <2>1, <2>2, <2>3 DEF EventsInOrder
    <2>5. /\ call[c].kind \in {"edit", "delete", "add", "remove", "update"}
          /\ call[c].kind \in {"add", "remove"} => call[c].arg \in Keys
        BY <1>5, CommitEffect, CommitHolds
    <2>6. \A n \in DOMAIN log' :
             /\ log'[n].kind \in {"edit", "delete", "add", "remove", "update"}
             /\ log'[n].kind \in {"add", "remove"} => log'[n].arg \in Keys
        BY <2>1, <2>5 DEF EventsInOrder
    <2>7. ASSUME NEW d \in Call, Logging(d)'
          PROVE  /\ call'[d].at < nextGlobal' /\ call'[d].at \notin DOMAIN log'
                 /\ \A e \in Call \ {d} : Logging(e)' => call'[e].at # call'[d].at
                 /\ \A n \in DOMAIN log' :
                      SameRow(call'[d].kind, call'[d].arg, log'[n].kind, log'[n].arg)
                        => n < call'[d].at
        <3>1. d # c /\ call'[d] = call[d] /\ Logging(d)
            BY <1>5, <2>7, CommitEffect DEF Logging
        <3>2. call[d].at # at
            BY <2>2, <3>1 DEF EventsInOrder
        <3>3. call'[d].at < nextGlobal' /\ call'[d].at \notin DOMAIN log'
            BY <2>1, <2>2, <3>1, <3>2 DEF EventsInOrder
        <3>4. \A e \in Call \ {d} : Logging(e)' => call'[e].at # call'[d].at
            <4>1. \A e \in Call : Logging(e)' => e # c /\ call'[e] = call[e] /\ Logging(e)
                BY <1>5, CommitEffect DEF Logging
            <4>2. QED BY <3>1, <4>1 DEF EventsInOrder
        <3>5. ~SameRow(call[d].kind, call[d].arg, call[c].kind, call[c].arg)
            BY <2>2, <3>1, WritersApart DEF Logging, Written
        <3>6. ASSUME NEW n \in DOMAIN log',
                     SameRow(call'[d].kind, call'[d].arg, log'[n].kind, log'[n].arg)
              PROVE  n < call'[d].at
            <4>1. n # at
                BY <2>1, <3>1, <3>5, <3>6
            <4>2. n \in DOMAIN log /\ log'[n] = log[n]
                BY <2>1, <4>1
            <4>3. QED BY <3>1, <3>6, <4>2 DEF EventsInOrder
        <3>7. QED BY <3>3, <3>4, <3>6
    <2>8. QED BY <2>4, <2>6, <2>7 DEF EventsInOrder
<1>6. CASE Poll
    BY <1>2, <1>6 DEF Poll, rows, counters
<1>7. ASSUME NEW c \in Call, Starts(c) \/ Passes(c) \/ Ends(c) \/ \E row \in LockableRows : Takes(c, row)
      PROVE  EventsInOrder'
    BY <1>2, <1>7 DEF Starts, Passes, Ends, Takes, Private, rows
<1>8. QED BY <1>3, <1>4, <1>5, <1>6, <1>7, NextCases

\* A commit's event comes after all others of the row that it wrote.
LEMMA NewEvent ==
    ASSUME ChatTypes, EventsInOrder, NEW c \in Call, Commit(c), call[c].kind # "send"
    PROVE  /\ call[c].at \in Nat /\ call[c].at \notin DOMAIN log /\ DOMAIN log \subseteq Nat
           /\ DOMAIN log' = DOMAIN log \cup {call[c].at}
           /\ log'[call[c].at] = Event(c)
           /\ \A n \in DOMAIN log : log'[n] = log[n]
           /\ \A n \in DOMAIN log :
                SameRow(call[c].kind, call[c].arg, log[n].kind, log[n].arg) => n < call[c].at
           /\ \A K : Events(K)' = IF call[c].kind \in K THEN Events(K) \cup {call[c].at}
                                  ELSE Events(K)
<1>1. Logging(c)
    BY CommitEffect DEF Logging
<1>2. call[c].at \in Nat
    BY DEF ChatTypes, CallRecord
<1>3. /\ call[c].at \notin DOMAIN log /\ DOMAIN log \subseteq Nat
      /\ \A n \in DOMAIN log :
           SameRow(call[c].kind, call[c].arg, log[n].kind, log[n].arg) => n < call[c].at
    BY <1>1 DEF EventsInOrder
<1>4. /\ DOMAIN log' = DOMAIN log \cup {call[c].at} /\ log'[call[c].at] = Event(c)
      /\ \A n \in DOMAIN log : log'[n] = log[n]
    BY <1>3, LogAfterCommit
<1>5. Event(c).kind = call[c].kind
    BY DEF Event
<1>6. ASSUME NEW K
      PROVE  Events(K)' = IF call[c].kind \in K THEN Events(K) \cup {call[c].at} ELSE Events(K)
    <2>1. Events(K)' = {n \in DOMAIN log' : log'[n].kind \in K}
        BY DEF Events
    <2>2. QED BY <1>3, <1>4, <1>5, <2>1 DEF Events
<1>7. QED BY <1>2, <1>3, <1>4, <1>6

LEMMA FeedStep ==
    ASSUME ChatTypes, CallsAreShaped, WritesAreCurrent, EventsInOrder, FeedFollows, Next
    PROVE  FeedFollows'
<1> message \in MessageRow /\ conv \in ConvRow BY DEF ChatTypes, RowTypes
<1>1. CASE UNCHANGED rows
    BY <1>1 DEF rows, FeedFollows, Deleted, Events, ReactionEvents
<1>2. ASSUME NEW c \in Call, Commit(c), call[c].kind = "send" PROVE FeedFollows'
    <2>1. log' = log /\ message' = message /\ reactions' = reactions
        BY <1>2, CommitRows, LogAfterCommit
    <2>2. conv' = conv \/ conv' = [conv EXCEPT !.last = call[c].arg]
        BY <1>2, CommitRows, CommitHolds
    <2>3. \A f \in Fields : conv'[f] = conv[f]
        <3>1. conv'.title = conv.title /\ conv'.settings = conv.settings
            BY <2>2 DEF ConvRow
        <3>2. QED BY <3>1 DEF Fields
    <2>4. \A K : Events(K)' = Events(K)
        BY <2>1 DEF Events
    <2>5. \A k : ReactionEvents(k)' = ReactionEvents(k)
        BY <2>1, <2>4 DEF ReactionEvents
    <2>6. QED BY <2>1, <2>3, <2>4, <2>5 DEF FeedFollows, Deleted
<1>3. ASSUME NEW c \in Call, Commit(c), call[c].kind # "send" PROVE FeedFollows'
    <2> DEFINE at == call[c].at
    <2>1. /\ at \in Nat /\ at \notin DOMAIN log /\ DOMAIN log \subseteq Nat
          /\ DOMAIN log' = DOMAIN log \cup {at}
          /\ \A n \in DOMAIN log : log'[n] = log[n]
          /\ \A n \in DOMAIN log :
               SameRow(call[c].kind, call[c].arg, log[n].kind, log[n].arg) => n < at
        BY <1>3, NewEvent
    <2>2. \A K : Events(K)' = IF call[c].kind \in K THEN Events(K) \cup {at} ELSE Events(K)
        BY <1>3, NewEvent
    <2>3. /\ log'[at].kind = call[c].kind /\ log'[at].by = c
          /\ log'[at].arg = call[c].arg /\ log'[at].row = call[c].wrote
        <3>1. log'[at] = Event(c)
            BY <1>3, NewEvent
        <3>2. QED BY <3>1 DEF Event
    <2>4. call[c].kind \in {"edit", "delete", "add", "remove", "update"}
        BY <1>3, CommitEffect
    <2>5. \A K : Events(K) \subseteq DOMAIN log /\ \A n \in Events(K) : log[n].kind \in K
        BY DEF Events
    <2> HIDE DEF at
    <2>6. \A n \in DOMAIN log' : Last(n, Events({"edit"})') => message'.content = log'[n].by
        <3>1. CASE call[c].kind = "edit"
            <4>1. message' = EditedRow(c)
                BY <1>3, <3>1, CommitRows, CommitHolds
            <4>2. message'.content = c
                BY <4>1 DEF EditedRow, MessageRow
            <4>3. Events({"edit"})' = Events({"edit"}) \cup {at}
                BY <2>2, <3>1
            <4>4. \A n \in Events({"edit"}) : n < at
                BY <2>1, <2>5, <3>1 DEF SameRow
            <4>5. \A n \in DOMAIN log' : Last(n, Events({"edit"})') => n = at
                BY <2>1, <2>5, <4>3, <4>4 DEF Last
            <4>6. QED BY <2>3, <4>2, <4>5
        <3>2. CASE call[c].kind # "edit"
            <4>1. message'.content = message.content
                <5>1. CASE call[c].kind = "delete"
                    <6>1. message' = [message EXCEPT !.deletedBy = call[c].arg]
                        BY <1>3, <5>1, CommitRows, CommitHolds
                    <6>2. QED BY <6>1 DEF MessageRow
                <5>2. CASE call[c].kind # "delete"
                    BY <1>3, <2>4, <3>2, <5>2, CommitRows
                <5>3. QED BY <5>1, <5>2
            <4>2. Events({"edit"})' = Events({"edit"})
                BY <2>2, <3>2
            <4>3. QED BY <2>1, <2>5, <4>1, <4>2 DEF FeedFollows, Last
        <3>3. QED BY <3>1, <3>2
    <2>7. IF Deleted'
            THEN \E n \in DOMAIN log' :
                   /\ Events({"delete"})' = {n} /\ log'[n].arg = message'.deletedBy
                   /\ \A m \in Events({"edit"})' : m < n
            ELSE Events({"delete"})' = {}
        <3>1. CASE call[c].kind = "edit"
            <4>1. message' = EditedRow(c) /\ ~Deleted
                BY <1>3, <3>1, CommitRows, CommitHolds
            <4>2. ~Deleted'
                BY <4>1 DEF EditedRow, MessageRow, Deleted
            <4>3. Events({"delete"})' = {}
                BY <2>2, <3>1, <4>1 DEF FeedFollows
            <4>4. QED BY <4>2, <4>3
        <3>2. CASE call[c].kind = "delete"
            <4>1. /\ message' = [message EXCEPT !.deletedBy = call[c].arg] /\ ~Deleted
                  /\ call[c].arg \in User
                BY <1>3, <3>2, CommitRows, CommitHolds
            <4>2. message'.deletedBy = call[c].arg
                BY <4>1 DEF MessageRow
            <4>3. Deleted'
                BY <4>1, <4>2, UsersAssumption DEF Deleted
            <4>4. Events({"delete"})' = {at} /\ Events({"edit"})' = Events({"edit"})
                BY <2>2, <3>2, <4>1 DEF FeedFollows
            <4>5. \A n \in Events({"edit"}) : n < at
                BY <2>1, <2>5, <3>2 DEF SameRow
            <4>6. QED BY <2>1, <2>3, <4>2, <4>3, <4>4, <4>5
        <3>3. CASE call[c].kind \notin {"edit", "delete"}
            <4>1. message' = message
                BY <1>3, <2>4, <3>3, CommitRows
            <4>2. Events({"delete"})' = Events({"delete"}) /\ Events({"edit"})' = Events({"edit"})
                BY <2>2, <3>3
            <4>3. Deleted' <=> Deleted
                BY <4>1 DEF Deleted
            <4>4. QED BY <2>1, <4>1, <4>2, <4>3 DEF FeedFollows
        <3>4. QED BY <3>1, <3>2, <3>3
    <2>8. \A k \in Keys : \A n \in DOMAIN log' :
             Last(n, ReactionEvents(k)') => (k \in reactions' <=> log'[n].kind = "add")
        <3> SUFFICES ASSUME NEW k \in Keys, NEW n \in DOMAIN log', Last(n, ReactionEvents(k)')
                     PROVE  k \in reactions' <=> log'[n].kind = "add"
            OBVIOUS
        <3>1. ReactionEvents(k)' = {m \in Events({"add", "remove"})' : log'[m].arg = k}
            BY DEF ReactionEvents
        <3>2. CASE call[c].kind \in {"add", "remove"} /\ call[c].arg = k
            <4>1. ReactionEvents(k)' = ReactionEvents(k) \cup {at}
                BY <2>1, <2>2, <2>3, <2>5, <3>1, <3>2 DEF ReactionEvents
            <4>2. \A m \in ReactionEvents(k) : m < at
                BY <2>1, <2>5, <3>2 DEF SameRow, ReactionEvents
            <4>3. n = at
                BY <2>1, <2>5, <4>1, <4>2 DEF Last, ReactionEvents
            <4>4. k \in reactions' <=> call[c].kind = "add"
                BY <1>3, <3>2, CommitRows
            <4>5. QED BY <2>3, <4>3, <4>4
        <3>3. CASE ~(call[c].kind \in {"add", "remove"} /\ call[c].arg = k)
            <4>1. ReactionEvents(k)' = ReactionEvents(k)
                BY <2>1, <2>2, <2>3, <2>5, <3>1, <3>3 DEF ReactionEvents
            <4>2. k \in reactions' <=> k \in reactions
                BY <1>3, <2>4, <3>3, CommitRows
            <4>3. n \in DOMAIN log /\ log'[n] = log[n] /\ Last(n, ReactionEvents(k))
                BY <2>1, <2>5, <4>1 DEF Last, ReactionEvents
            <4>4. QED BY <4>2, <4>3 DEF FeedFollows
        <3>4. QED BY <3>2, <3>3
    <2>9. \A n \in DOMAIN log' : Last(n, Events({"update"})') =>
             \A f \in Fields : conv'[f] = log'[n].row[f]
        <3>1. CASE call[c].kind = "update"
            <4>1. conv' = call[c].wrote
                BY <1>3, <3>1, CommitRows
            <4>2. Events({"update"})' = Events({"update"}) \cup {at}
                BY <2>2, <3>1
            <4>3. \A n \in Events({"update"}) : n < at
                BY <2>1, <2>5, <3>1 DEF SameRow
            <4>4. \A n \in DOMAIN log' : Last(n, Events({"update"})') => n = at
                BY <2>1, <2>5, <4>2, <4>3 DEF Last
            <4>5. QED BY <2>3, <4>1, <4>4
        <3>2. CASE call[c].kind # "update"
            <4>1. conv' = conv
                BY <1>3, <2>4, <3>2, CommitRows
            <4>2. Events({"update"})' = Events({"update"})
                BY <2>2, <3>2
            <4>3. QED BY <2>1, <2>5, <4>1, <4>2 DEF FeedFollows, Last
        <3>3. QED BY <3>1, <3>2
    <2>10. QED BY <2>6, <2>7, <2>8, <2>9 DEF FeedFollows
<1>4. QED BY <1>1, <1>2, <1>3, OnlyCommitsWrite

-----------------------------------------------------------------------------
(* Values that calls have read.                                            *)

\* An open call has just started, or keeps what it read.
LEMMA OpenCalls ==
    ASSUME ChatTypes, CallsAreShaped, Next, NEW d \in Call, Open(d)'
    PROVE  \/ Starts(d)
           \/ /\ Open(d) /\ ~Commit(d)
              /\ call'[d].kind = call[d].kind /\ call'[d].arg = call[d].arg
              /\ call'[d].seen = call[d].seen
<1> DEFINE Kept == /\ Open(d)
                   /\ call'[d].kind = call[d].kind /\ call'[d].arg = call[d].arg
                   /\ call'[d].seen = call[d].seen
<1>1. ~Commit(d) /\ ~Ends(d)
    BY CommitEffect DEF Ends, Open
<1>2. ASSUME call'[d] = call[d] PROVE Kept
    BY <1>2 DEF Open
<1>3. CASE Poll
    BY <1>1, <1>2, <1>3 DEF Poll
<1>4. CASE Passes(d)
    BY <1>1, <1>4 DEF Passes, Advances, Open
<1>5. CASE Appends(d)
    BY <1>1, <1>5 DEF Appends, Advances, Open
<1>6. ASSUME NEW row \in LockableRows, Takes(d, row) PROVE Kept
    BY <1>6 DEF Takes, Advances, Open
<1>7. ASSUME NEW c \in Call, c # d,
             \/ Commit(c) \/ Starts(c) \/ Passes(c) \/ Ends(c) \/ Appends(c)
             \/ \E row \in LockableRows : Takes(c, row)
      PROVE  Kept
    <2>1. call'[d] = call[d]
        BY <1>7, CommitEffect DEF Starts, Passes, Ends, Appends, Takes, Private
    <2>2. QED BY <1>2, <2>1
<1>8. QED
    BY <1>1, <1>3, <1>4, <1>5, <1>6, <1>7, NextCases

LEMMA EditsStep ==
    ASSUME ChatTypes, CallsAreShaped, WritesAreCurrent, EditsAreCounted, EditsSawContent,
           BodiesLostOnlyByOverlap, Next
    PROVE  EditsAreCounted' /\ EditsSawContent' /\ BodiesLostOnlyByOverlap'
<1> message \in MessageRow BY DEF ChatTypes, RowTypes
<1>1. \A d \in Call : met[d] \subseteq met'[d] /\ (Committed(d, "edit") => Committed(d, "edit")')
    BY CommitsStay
<1>2. \A e \in edits : e.by \in Call /\ e \in Edit
    BY DEF ChatTypes, RowTypes, Edit
<1>3. ASSUME message'.content = message.content, message'.editCount = message.editCount,
             edits' = edits
      PROVE  EditsAreCounted' /\ BodiesLostOnlyByOverlap'
    BY <1>1, <1>2, <1>3 DEF EditsAreCounted, BodiesLostOnlyByOverlap
<1>4. ASSUME NEW c \in Call, Commit(c), call[c].kind # "edit"
      PROVE  message'.content = message.content /\ message'.editCount = message.editCount
             /\ edits' = edits
    <2>1. CASE call[c].kind = "delete"
        <3>1. message' = [message EXCEPT !.deletedBy = call[c].arg] /\ edits' = edits
            BY <1>4, <2>1, CommitRows, CommitHolds
        <3>2. QED BY <3>1 DEF MessageRow
    <2>2. CASE call[c].kind # "delete"
        BY <1>4, <2>2, CommitRows, CommitEffect
    <2>3. QED BY <2>1, <2>2
<1>5. ASSUME NEW c \in Call, Commit(c), call[c].kind = "edit"
      PROVE  EditsAreCounted' /\ BodiesLostOnlyByOverlap'
    <2> DEFINE e == [by |-> c, old |-> call[c].seen]
    <2>1. message' = EditedRow(c) /\ edits' = edits \cup {e} /\ e.by = c /\ e.old = call[c].seen
        BY <1>5, CommitRows, CommitHolds
    <2>2. message'.content = c /\ message'.editCount = message.editCount + 1
        BY <2>1 DEF EditedRow, MessageRow
    <2> HIDE DEF e
    <2>3. met'[c] = met[c] /\ ~Committed(c, "edit") /\ Committed(c, "edit")' /\ Open(c)
        BY <1>5, CommitEffect DEF Committed
    <2>4. e \notin edits
        BY <2>1, <2>3 DEF EditsAreCounted
    <2>5. Cardinality(edits') = Cardinality(edits) + 1
        BY <2>1, <2>4, FS_AddElement DEF ChatTypes, RowTypes
    <2>6. EditsAreCounted'
        BY <1>1, <1>2, <2>1, <2>2, <2>3, <2>5 DEF EditsAreCounted
    <2>7. call[c].seen = message.content \/ message.content \in met[c]
        BY <1>5, <2>3 DEF EditsSawContent
    <2>8. ASSUME NEW b \in {Original} \cup {x.by : x \in edits'}
          PROVE  b = message'.content \/ \E x \in edits' : x.old = b \/ b \in met'[x.by]
        <3>1. CASE b = c
            BY <2>2, <3>1
        <3>2. CASE b # c
            <4>1. b \in {Original} \cup {x.by : x \in edits}
                BY <2>1, <3>2
            <4>2. CASE b = message.content
                BY <2>1, <2>3, <2>7, <4>2
            <4>3. CASE b # message.content
                <5>1. PICK x \in edits : x.old = b \/ b \in met[x.by]
                    BY <4>1, <4>3 DEF BodiesLostOnlyByOverlap
                <5>2. x.old = b \/ b \in met'[x.by]
                    BY <1>1, <1>2, <5>1
                <5>3. QED BY <2>1, <5>2
            <4>4. QED BY <4>2, <4>3
        <3>3. QED BY <3>1, <3>2
    <2>9. message'.editCount = Cardinality(edits')
        BY <2>6 DEF EditsAreCounted
    <2>10. BodiesLostOnlyByOverlap'
        BY <2>8, <2>9 DEF BodiesLostOnlyByOverlap
    <2>11. QED BY <2>6, <2>10
<1>6. EditsAreCounted' /\ BodiesLostOnlyByOverlap'
    BY <1>3, <1>4, <1>5, OnlyCommitsWrite DEF rows
<1>7. ASSUME NEW d \in Call, call'[d].kind = "edit", Open(d)'
      PROVE  call'[d].seen = message'.content \/ message'.content \in met'[d]
    <2>1. CASE Starts(d)
        BY <1>7, <2>1 DEF Starts, Private, rows
    <2>2. CASE ~Starts(d)
        <3>1. Open(d) /\ ~Commit(d) /\ call[d].kind = "edit" /\ call'[d].seen = call[d].seen
            BY <1>7, <2>2, OpenCalls
        <3>2. call[d].seen = message.content \/ message.content \in met[d]
            BY <3>1 DEF EditsSawContent
        <3>3. message'.content = message.content \/ message'.content \in met'[d]
            <4>1. ASSUME NEW c \in Call, Commit(c), call[c].kind = "edit"
                  PROVE  message'.content \in met'[d]
                <5>1. message' = EditedRow(c) /\ c # d
                    BY <3>1, <4>1, CommitRows, CommitHolds
                <5>2. message'.content = c
                    BY <5>1 DEF EditedRow, MessageRow
                <5>3. met'[d] = met[d] \cup {c}
                    BY <3>1, <4>1, <5>1, CommitEffect
                <5>4. QED BY <5>2, <5>3
            <4>2. QED BY <1>4, <4>1, OnlyCommitsWrite DEF rows
        <3>4. QED BY <1>1, <3>1, <3>2, <3>3
    <2>3. QED BY <2>1, <2>2
<1>8. EditsSawContent'
    BY <1>7 DEF EditsSawContent
<1>9. QED BY <1>6, <1>8

-----------------------------------------------------------------------------
(* The limit on emoji.                                                     *)

\* Taking reactions away leaves no more emoji, adding one leaves one more at most.
LEMMA EmojisCounted ==
    ASSUME NEW rs \in SUBSET Keys, NEW ps \in SUBSET rs, NEW k \in Keys
    PROVE  /\ k[2] \in Emoji
           /\ Cardinality(Emojis(ps)) \in Nat /\ Cardinality(Emojis(rs)) \in Nat
           /\ Cardinality(Emojis(ps)) <= Cardinality(Emojis(rs))
           /\ Cardinality(Emojis(ps) \cup {k[2]}) \in Nat
           /\ Cardinality(Emojis(rs) \cup {k[2]}) \in Nat
           /\ Cardinality(Emojis(ps) \cup {k[2]}) <= Cardinality(Emojis(rs) \cup {k[2]})
           /\ Cardinality(Emojis(rs) \cup {k[2]}) <= Cardinality(Emojis(rs)) + 1
<1>1. \A r \in Keys : r[2] \in Emoji
    BY DEF Keys
<1>2. Emojis(rs) \in SUBSET Emoji /\ Emojis(ps) \in SUBSET Emojis(rs) /\ k[2] \in Emoji
    BY <1>1 DEF Emojis
<1>3. /\ Emojis(rs) \cup {k[2]} \in SUBSET Emoji
      /\ Emojis(ps) \cup {k[2]} \in SUBSET (Emojis(rs) \cup {k[2]})
    BY <1>2
<1> HIDE DEF Emojis
<1>4. IsFiniteSet(Emojis(rs)) /\ IsFiniteSet(Emojis(rs) \cup {k[2]})
    BY <1>2, <1>3, EmojiAssumption, FS_Subset
<1>5. /\ IsFiniteSet(Emojis(ps)) /\ Cardinality(Emojis(ps)) <= Cardinality(Emojis(rs))
      /\ IsFiniteSet(Emojis(ps) \cup {k[2]})
      /\ Cardinality(Emojis(ps) \cup {k[2]}) <= Cardinality(Emojis(rs) \cup {k[2]})
    BY <1>2, <1>3, <1>4, FS_Subset
<1>6. Cardinality(Emojis(rs) \cup {k[2]}) = Cardinality(Emojis(rs))
      \/ Cardinality(Emojis(rs) \cup {k[2]}) = Cardinality(Emojis(rs)) + 1
    BY <1>4, FS_AddElement
<1>7. /\ Cardinality(Emojis(ps)) \in Nat /\ Cardinality(Emojis(rs)) \in Nat
      /\ Cardinality(Emojis(ps) \cup {k[2]}) \in Nat
      /\ Cardinality(Emojis(rs) \cup {k[2]}) \in Nat
    BY <1>4, <1>5, FS_CardinalityType
<1>8. QED BY <1>2, <1>5, <1>6, <1>7

LEMMA LimitStep ==
    ASSUME ChatTypes, CallsAreShaped, WritesAreCurrent, LimitPassed, AddsLooked, Next
    PROVE  LimitPassed' /\ AddsLooked'
<1> reactions \in SUBSET Keys BY DEF ChatTypes, RowTypes
<1> MaxDistinct \in Nat BY LimitsAssumption
<1>1. \A d \in Call : /\ Committed(d, "add") => Committed(d, "add")'
                      /\ met[d] \subseteq met'[d] /\ met[d] \subseteq Call
    BY CommitsStay DEF ChatTypes, OtherTypes
<1>2. AddsOverlapped => AddsOverlapped'
    BY <1>1 DEF AddsOverlapped
<1>3. ASSUME NEW c \in Call, Commit(c), call[c].kind = "add"
      PROVE  /\ reactions' = reactions \cup {call[c].arg} /\ call[c].arg \in Keys
             /\ Committed(c, "add")' /\ met'[c] = met[c] /\ call[c].step = "commit"
             /\ \A d \in Call \ {c} : Open(d) => c \in met'[d]
    <2>1. reactions' = reactions \cup {call[c].arg} /\ call[c].arg \in Keys
        BY <1>3, CommitRows, CommitHolds
    <2>2. Committed(c, "add")' /\ met'[c] = met[c] /\ call[c].step = "commit"
        BY <1>3, CommitEffect DEF Committed
    <2>3. ASSUME NEW d \in Call \ {c}, Open(d) PROVE c \in met'[d]
        <3>1. met'[d] = met[d] \cup {c}
            BY <1>3, <2>3, CommitEffect
        <3>2. QED BY <3>1
    <2>4. QED BY <2>1, <2>2, <2>3
<1>4. ASSUME NEW c \in Call, Commit(c), call[c].kind # "add"
      PROVE  reactions' \in SUBSET reactions
    BY <1>4, CommitRows, CommitEffect
<1>5. (\E c \in Call : Commit(c) /\ call[c].kind = "add") \/ reactions' \in SUBSET reactions
    BY <1>4, OnlyCommitsWrite DEF rows
<1>6. LimitPassed'
    <2>1. CASE AddsOverlapped
        BY <1>2, <2>1 DEF LimitPassed
    <2>2. ASSUME NEW c \in Call, Commit(c), call[c].kind = "add" PROVE LimitPassed'
        <3>1. \/ \E d \in met[c] : Committed(d, "add")
              \/ AddsOverlapped
              \/ Cardinality(Emojis(reactions) \cup {call[c].arg[2]}) <= MaxDistinct
            BY <1>3, <2>2 DEF AddsLooked
        <3>2. ASSUME NEW d \in met[c], Committed(d, "add") PROVE AddsOverlapped'
            <4>1. d \in Call /\ d \in met'[c] /\ Committed(d, "add")' /\ Committed(c, "add")'
                BY <1>1, <1>3, <2>2, <3>2
            <4>2. QED BY <4>1 DEF AddsOverlapped
        <3>3. Emojis(reactions') = Emojis(reactions) \cup {call[c].arg[2]}
            BY <1>3, <2>2 DEF Emojis
        <3>4. QED BY <1>2, <3>1, <3>2, <3>3 DEF LimitPassed
    <2>3. CASE reactions' \in SUBSET reactions /\ ~AddsOverlapped
        <3>1. CASE Keys = {}
            <4>1. reactions' = reactions
                BY <2>3, <3>1
            <4>2. QED BY <2>3, <4>1 DEF LimitPassed
        <3>2. CASE Keys # {}
            <4>1. PICK k \in Keys : TRUE
                BY <3>2
            <4>2. /\ Cardinality(Emojis(reactions')) <= Cardinality(Emojis(reactions))
                  /\ Cardinality(Emojis(reactions')) \in Nat /\ Cardinality(Emojis(reactions)) \in Nat
                BY <2>3, <4>1, EmojisCounted
            <4>3. Cardinality(Emojis(reactions)) <= MaxDistinct
                BY <2>3 DEF LimitPassed
            <4>4. Cardinality(Emojis(reactions')) <= MaxDistinct
                BY <4>2, <4>3
            <4>5. QED BY <4>4 DEF LimitPassed
        <3>3. QED BY <3>1, <3>2
    <2>4. QED BY <1>5, <2>1, <2>2, <2>3
<1>7. ASSUME NEW c \in Call, call'[c].kind = "add", call'[c].step \in {"write", "append", "commit"}
      PROVE  \/ \E d \in met'[c] : Committed(d, "add")'
             \/ AddsOverlapped'
             \/ Cardinality(Emojis(reactions') \cup {call'[c].arg[2]}) <= MaxDistinct
    <2> DEFINE Looked == /\ call[c].kind = "add" /\ call[c].step \in {"write", "append", "commit"}
               Fits == Cardinality(Emojis(reactions) \cup {call[c].arg[2]}) <= MaxDistinct
    <2>1. Open(c)' /\ ~Starts(c)
        BY <1>7 DEF Open, Starts
    <2>2. /\ Open(c) /\ ~Commit(c) /\ call[c].kind = "add" /\ call'[c].arg = call[c].arg
          /\ call[c].arg \in Keys
        BY <1>7, <2>1, OpenCalls DEF CallsAreShaped, Begun, Open
    <2>3. ASSUME ~Looked PROVE UNCHANGED reactions /\ (Fits \/ AddsOverlapped)
        <3>1. call'[c] # call[c]
            BY <1>7, <2>3
        <3>2. Passes(c)
            <4>1. ~Poll /\ ~Commit(c) /\ ~Starts(c) /\ ~Ends(c)
                BY <1>7, <2>1, <2>2, <3>1 DEF Poll, Ends
            <4>2. ~Appends(c) /\ \A row : ~Takes(c, row)
                BY <2>2, <2>3 DEF Appends, Takes, Advances
            <4>3. ASSUME NEW d \in Call, d # c,
                         \/ Commit(d) \/ Starts(d) \/ Passes(d) \/ Ends(d) \/ Appends(d)
                         \/ \E row \in LockableRows : Takes(d, row)
                  PROVE  FALSE
                BY <3>1, <4>3, CommitEffect DEF Starts, Passes, Ends, Appends, Takes, Private
            <4>4. QED BY <4>1, <4>2, <4>3, NextCases
        <3>3. UNCHANGED reactions /\ (call[c].arg[2] \in Emojis(reactions) \/ BelowLimit)
            BY <1>7, <2>2, <3>2 DEF Passes, Advances, Private, rows
        <3>4. CASE call[c].arg[2] \in Emojis(reactions)
            <4>1. Emojis(reactions) \cup {call[c].arg[2]} = Emojis(reactions)
                BY <3>4
            <4>2. QED BY <3>3, <4>1 DEF LimitPassed
        <3>5. CASE BelowLimit
            <4>1. /\ Cardinality(Emojis(reactions)) < MaxDistinct
                  /\ Cardinality(Emojis(reactions)) \in Nat
                  /\ Cardinality(Emojis(reactions) \cup {call[c].arg[2]}) \in Nat
                  /\ Cardinality(Emojis(reactions) \cup {call[c].arg[2]})
                       <= Cardinality(Emojis(reactions)) + 1
                BY <2>2, <3>5, EmojisCounted DEF BelowLimit
            <4>2. Fits
                BY <4>1
            <4>3. QED BY <3>3, <4>2
        <3>6. QED BY <3>3, <3>4, <3>5
    <2>4. Looked => Fits \/ AddsOverlapped \/ \E d \in met[c] : Committed(d, "add")
        BY DEF AddsLooked
    <2>5. CASE AddsOverlapped
        BY <1>2, <2>5
    <2>6. ASSUME NEW d \in met[c], Committed(d, "add")
          PROVE  \E x \in met'[c] : Committed(x, "add")'
        BY <1>1, <2>6
    <2>7. ASSUME NEW d \in Call, Commit(d), call[d].kind = "add"
          PROVE  \E x \in met'[c] : Committed(x, "add")'
        BY <1>3, <2>2, <2>7
    <2>8. CASE Fits /\ reactions' \in SUBSET reactions
        <3>1. /\ Cardinality(Emojis(reactions') \cup {call[c].arg[2]})
                   <= Cardinality(Emojis(reactions) \cup {call[c].arg[2]})
              /\ Cardinality(Emojis(reactions') \cup {call[c].arg[2]}) \in Nat
              /\ Cardinality(Emojis(reactions) \cup {call[c].arg[2]}) \in Nat
            BY <2>2, <2>8, EmojisCounted
        <3>2. Cardinality(Emojis(reactions') \cup {call[c].arg[2]}) <= MaxDistinct
            BY <2>8, <3>1
        <3>3. QED BY <2>2, <3>2
    <2> HIDE DEF Looked, Fits
    <2>9. QED BY <1>5, <2>3, <2>4, <2>5, <2>6, <2>7, <2>8
<1>8. AddsLooked'
    BY <1>7 DEF AddsLooked
<1>9. QED BY <1>6, <1>8

-----------------------------------------------------------------------------
(* The conversation row.                                                   *)

\* An update's overlaps stay, and hide what is older.
LEMMA OverlapsStay ==
    ASSUME ChatTypes, CallsAreShaped, WritesAreCurrent, Next
    PROVE  /\ sent \subseteq sent'
           /\ \A u \in Call : \A s : MetSince(u, s) => MetSince(u, s)'
           /\ \A s : Excused(s) => Excused(s)'
           /\ \A row : LastIsSent(row) => LastIsSent(row)'
<1>1. ASSUME NEW c \in Call, Commit(c) PROVE sent \subseteq sent'
    BY <1>1, CommitRows, CommitEffect
<1>2. sent \subseteq sent'
    BY <1>1, OnlyCommitsWrite DEF rows
<1>3. \A u \in Call : met[u] \subseteq met'[u] /\ (Committed(u, "update") => Committed(u, "update")')
    BY CommitsStay
<1>4. \A u \in Call : \A s : MetSince(u, s) => MetSince(u, s)'
    BY <1>2, <1>3 DEF MetSince
<1>5. \A s : Excused(s) => Excused(s)'
    BY <1>3, <1>4 DEF Excused
<1>6. QED BY <1>2, <1>4, <1>5 DEF LastIsSent

LEMMA OlderIsExcused ==
    ASSUME ChatTypes, NEW s \in Nat, NEW t \in Nat, s <= t
    PROVE  /\ \A u \in Call : MetSince(u, t) => MetSince(u, s)
           /\ Excused(t) => Excused(s)
<1>1. \A n \in sent : n.seq \in Nat
    BY DEF ChatTypes, RowTypes, SentMessage
<1>2. \A u \in Call : MetSince(u, t) => MetSince(u, s)
    BY <1>1 DEF MetSince
<1>3. QED BY <1>2 DEF Excused

\* A send that leaves the row alone found it as new as its own message.
Bypasses(c) ==
    call[c].kind = "send" /\ call[c].step = "commit" /\ Conversation \notin call[c].holds

LEMMA BypassesStep ==
    ASSUME ChatTypes, CallsAreShaped, Next, NEW d \in Call, Bypasses(d)'
    PROVE  /\ call'[d].arg = call[d].arg /\ call[d].arg \in Nat \ {0}
           /\ \/ Bypasses(d) /\ ~Commit(d)
              \/ call[d].arg <= conv.last /\ UNCHANGED rows
<1>1. Open(d)' /\ ~Starts(d)
    BY DEF Bypasses, Open, Starts
<1>2. /\ ~Commit(d) /\ Open(d) /\ call[d].kind = "send" /\ call'[d].arg = call[d].arg
      /\ call[d].arg \in Nat \ {0}
    BY <1>1, OpenCalls DEF CallsAreShaped, Begun, Open, Bypasses
<1>3. CASE call'[d] = call[d]
    BY <1>2, <1>3 DEF Bypasses
<1>4. CASE call'[d] # call[d]
    <2>1. ~Poll /\ ~Ends(d)
        BY <1>1, <1>4 DEF Poll, Ends, Open
    <2>2. ASSUME NEW row, Takes(d, row) PROVE FALSE
        BY <2>2 DEF Takes, Advances, Bypasses
    <2>3. ~Appends(d)
        BY <1>2 DEF Appends, Advances, CallsAreShaped, StepsOf
    <2>4. ASSUME NEW e \in Call, e # d,
                 \/ Commit(e) \/ Starts(e) \/ Passes(e) \/ Ends(e) \/ Appends(e)
                 \/ \E row \in LockableRows : Takes(e, row)
          PROVE  FALSE
        BY <1>4, <2>4, CommitEffect DEF Starts, Passes, Ends, Appends, Takes, Private
    <2>5. Passes(d)
        BY <1>1, <1>2, <2>1, <2>2, <2>3, <2>4, NextCases
    <2>6. Bumped(call[d].arg) = conv /\ UNCHANGED rows
        BY <2>5 DEF Passes, Advances, Bypasses, Private
    <2>7. conv \in ConvRow /\ conv.last \in Nat
        BY DEF ChatTypes, RowTypes, ConvRow
    <2>8. [conv EXCEPT !.last = call[d].arg].last = call[d].arg
        BY <2>7 DEF ConvRow
    <2>9. ~(conv.last < call[d].arg)
        <3>1. SUFFICES ASSUME conv.last < call[d].arg PROVE FALSE
            OBVIOUS
        <3>2. conv = [conv EXCEPT !.last = call[d].arg]
            BY <2>6, <3>1 DEF Bumped
        <3>3. conv.last = call[d].arg
            BY <2>8, <3>2
        <3>4. QED BY <1>2, <3>1, <3>3
    <2>10. call[d].arg <= conv.last
        BY <1>2, <2>7, <2>9
    <2>11. QED BY <1>2, <2>6, <2>10
<1>5. QED BY <1>3, <1>4

LEMMA LastStep ==
    ASSUME ChatTypes, CallsAreShaped, WritesAreCurrent, LastFollows, UpdatesSawLast, Next
    PROVE  LastFollows' /\ UpdatesSawLast'
<1> conv \in ConvRow /\ conv.last \in Nat BY DEF ChatTypes, RowTypes, ConvRow
<1>1. \A m \in sent : m.seq \in Nat
    BY DEF ChatTypes, RowTypes, SentMessage
<1>2. /\ \A u \in Call : \A s : MetSince(u, s) => MetSince(u, s)'
      /\ \A s : Excused(s) => Excused(s)'
      /\ \A row : LastIsSent(row) => LastIsSent(row)'
    BY OverlapsStay
<1>3. ASSUME UNCHANGED <<conv, sent>> PROVE LastFollows'
    <2>1. \A d \in Call : Bypasses(d)' => call'[d].arg <= conv.last \/ Excused(call'[d].arg)
        BY BypassesStep DEF LastFollows, Bypasses
    <2>2. QED BY <1>2, <1>3, <2>1 DEF LastFollows, Bypasses
<1>4. ASSUME NEW c \in Call, Commit(c), call[c].kind = "update" PROVE LastFollows'
    <2>1. /\ sent' = sent /\ conv' = PatchedRow(c) /\ call[c].seen \in ConvRow
          /\ call[c].arg \in Fields
        BY <1>4, CommitRows, CommitHolds
    <2>2. conv'.last = call[c].seen.last /\ conv'.last \in Nat
        BY <2>1, PatchedFields DEF ConvRow
    <2>3. Open(c) /\ Committed(c, "update")'
        BY <1>4, CommitEffect DEF Committed
    <2>4. LastIsSent(call[c].seen)
        BY <1>4, <2>3 DEF UpdatesSawLast
    <2>5. LastIsSent(conv)'
        BY <2>1, <2>2, <2>4 DEF LastIsSent
    <2>6. \A s : MetSince(c, s) => Excused(s)'
        BY <1>2, <2>3 DEF Excused
    <2>7. \A m \in sent : m.seq <= conv'.last \/ Excused(m.seq)'
        BY <1>2, <1>4, <2>2, <2>3, <2>6 DEF UpdatesSawLast
    <2>8. ASSUME NEW d \in Call, Bypasses(d)'
          PROVE  call'[d].arg <= conv'.last \/ Excused(call[d].arg)'
        <3>1. call'[d].arg = call[d].arg /\ call[d].arg \in Nat \ {0}
            BY <2>8, BypassesStep
        <3>2. call[d].arg <= conv.last \/ Excused(call[d].arg)
            BY <2>8, BypassesStep DEF LastFollows, Bypasses
        <3>3. CASE Excused(call[d].arg)
            BY <1>2, <3>1, <3>3
        <3>4. CASE call[d].arg <= conv.last
            <4>1. conv.last # 0
                BY <3>1, <3>4
            <4>2. PICK m \in sent : m.seq = conv.last
                BY <4>1 DEF LastFollows, LastIsSent
            <4>3. CASE m.seq <= conv'.last
                <5>1. call[d].arg <= conv'.last
                    BY <2>2, <3>1, <3>4, <4>2, <4>3
                <5>2. QED BY <3>1, <5>1
            <4>4. CASE MetSince(c, m.seq) \/ Excused(m.seq)
                <5>1. MetSince(c, call[d].arg) \/ Excused(call[d].arg)
                    BY <3>1, <3>4, <4>2, <4>4, OlderIsExcused
                <5>2. \A s : s = call[d].arg => Excused(s)'
                    BY <1>2, <2>6, <5>1
                <5>3. QED BY <3>1, <5>2
            <4>5. QED BY <1>4, <2>2, <2>3, <4>3, <4>4 DEF UpdatesSawLast
        <3>5. QED BY <3>2, <3>3, <3>4
    <2>9. QED BY <2>1, <2>5, <2>7, <2>8 DEF LastFollows, Bypasses
<1>5. ASSUME NEW c \in Call, Commit(c), call[c].kind = "send" PROVE LastFollows'
    <2> DEFINE m == [by |-> c, seq |-> call[c].arg, global |-> call[c].at]
    <2>1. /\ sent' = sent \cup {m} /\ m.seq = call[c].arg /\ call[c].arg \in Nat \ {0}
          /\ conv' = IF Conversation \in call[c].holds THEN call[c].wrote ELSE conv
        BY <1>5, CommitRows, CommitHolds
    <2> HIDE DEF m
    <2>2. \A d \in Call : Bypasses(d)' =>
             call'[d].arg = call[d].arg /\ call[d].arg \in Nat
             /\ (call[d].arg <= conv.last \/ Excused(call[d].arg))
        BY BypassesStep DEF LastFollows, Bypasses
    <2>3. CASE Conversation \in call[c].holds
        <3>1. conv' = [conv EXCEPT !.last = call[c].arg] /\ conv.last < call[c].arg
            BY <1>5, <2>1, <2>3, CommitHolds
        <3>2. conv'.last = m.seq /\ conv.last <= m.seq /\ m.seq \in Nat
            BY <2>1, <3>1 DEF ConvRow
        <3>3. LastIsSent(conv)'
            BY <2>1, <3>2 DEF LastIsSent
        <3>4. \A s \in Nat : s <= conv.last => s <= conv'.last
            BY <3>2
        <3>5. \A n \in sent' : n.seq <= conv'.last \/ Excused(n.seq)'
            BY <1>1, <1>2, <2>1, <3>2, <3>4 DEF LastFollows
        <3>6. \A d \in Call : Bypasses(d)' => call'[d].arg <= conv'.last \/ Excused(call[d].arg)'
            BY <1>2, <2>2, <3>4
        <3>7. QED BY <3>3, <3>5, <3>6 DEF LastFollows, Bypasses
    <2>4. CASE Conversation \notin call[c].holds
        <3>1. conv' = conv /\ Bypasses(c)
            BY <1>5, <2>1, <2>4, CommitEffect DEF Bypasses
        <3>2. m.seq <= conv.last \/ Excused(m.seq)
            BY <2>1, <3>1 DEF LastFollows, Bypasses
        <3>3. LastIsSent(conv)'
            BY <1>2, <3>1 DEF LastFollows, LastIsSent
        <3>4. \A n \in sent' : n.seq <= conv'.last \/ Excused(n.seq)'
            BY <1>2, <2>1, <3>1, <3>2 DEF LastFollows
        <3>5. \A d \in Call : Bypasses(d)' => call'[d].arg <= conv'.last \/ Excused(call[d].arg)'
            BY <1>2, <2>2, <3>1
        <3>6. QED BY <3>3, <3>4, <3>5 DEF LastFollows, Bypasses
    <2>5. QED BY <2>3, <2>4
<1>6. ASSUME NEW c \in Call, Commit(c), call[c].kind \notin {"update", "send"}
      PROVE  UNCHANGED <<conv, sent>>
    BY <1>6, CommitRows, CommitEffect
<1>7. LastFollows'
    BY <1>3, <1>4, <1>5, <1>6, OnlyCommitsWrite DEF rows
<1>8. ASSUME NEW u \in Call, call'[u].kind = "update", Open(u)'
      PROVE  /\ LastIsSent(call[u].seen)'
             /\ \A m \in sent' :
                  m.seq <= call'[u].seen.last \/ MetSince(u, m.seq)' \/ Excused(m.seq)'
    <2>1. CASE Starts(u)
        <3>1. call'[u].seen = conv /\ sent' = sent
            BY <1>8, <2>1 DEF Starts, Private, rows
        <3>2. QED BY <1>2, <3>1 DEF LastFollows, LastIsSent
    <2>2. CASE ~Starts(u)
        <3>1. Open(u) /\ ~Commit(u) /\ call[u].kind = "update" /\ call'[u].seen = call[u].seen
            BY <1>8, <2>2, OpenCalls
        <3>2. LastIsSent(call[u].seen)
            BY <3>1 DEF UpdatesSawLast
        <3>3. LastIsSent(call[u].seen)'
            BY <1>2, <3>1, <3>2 DEF LastIsSent
        <3>4. ASSUME NEW m \in sent
              PROVE  m.seq <= call'[u].seen.last \/ MetSince(u, m.seq)' \/ Excused(m.seq)'
            BY <1>2, <3>1 DEF UpdatesSawLast
        <3>5. ASSUME NEW m \in sent', m \notin sent PROVE MetSince(u, m.seq)'
            <4>1. PICK c \in Call : Commit(c)
                BY <3>5, OnlyCommitsWrite DEF rows
            <4>2. call[c].kind = "send"
                BY <3>5, <4>1, CommitRows, CommitEffect
            <4>3. sent' = sent \cup {[by |-> c, seq |-> call[c].arg, global |-> call[c].at]}
                BY <4>1, <4>2, CommitRows
            <4>4. m.by = c /\ m.seq = call[c].arg
                BY <3>5, <4>3
            <4>5. call[c].arg \in Nat /\ c # u
                BY <3>1, <4>1, <4>2, CommitHolds
            <4>6. met'[u] = met[u] \cup {c}
                BY <3>1, <4>1, <4>5, CommitEffect
            <4>7. m.by \in met'[u] /\ m.seq <= m.seq
                BY <4>4, <4>5, <4>6
            <4>8. QED BY <3>5, <4>7 DEF MetSince
        <3>6. QED BY <3>3, <3>4, <3>5
    <2>3. QED BY <2>1, <2>2
<1>9. UpdatesSawLast'
    BY <1>8 DEF UpdatesSawLast, LastIsSent
<1>10. QED BY <1>7, <1>9

LEMMA FieldsStep ==
    ASSUME ChatTypes, CallsAreShaped, WritesAreCurrent, FieldsFollow, UpdatesSawFields, Next
    PROVE  FieldsFollow' /\ UpdatesSawFields'
<1> conv \in ConvRow BY DEF ChatTypes, RowTypes
<1>1. \A u \in Call : /\ met[u] \subseteq met'[u]
                      /\ Committed(u, "update") =>
                           Committed(u, "update")' /\ call'[u].arg = call[u].arg
                      /\ Committed(u, "update")' /\ ~Commit(u) => Committed(u, "update")
    BY CommitsStay
<1>2. \A u \in Call : Committed(u, "update") => call[u].arg \in Fields
    BY DEF CallsAreShaped, Committed, Begun
<1>3. \A u \in Call : Committed(u, "update") /\ Superseded(u) => Superseded(u)'
    BY <1>1 DEF Superseded
<1>4. ASSUME NEW c \in Call, Commit(c), call[c].kind # "update"
      PROVE  /\ ~Committed(c, "update")'
             /\ \A f \in Fields : conv'[f] = conv[f]
    <2>1. ~Committed(c, "update")'
        BY <1>4, CommitEffect DEF Committed
    <2>2. conv' = conv \/ conv' = [conv EXCEPT !.last = call[c].arg]
        BY <1>4, CommitEffect, CommitRows, CommitHolds
    <2>3. conv'.title = conv.title /\ conv'.settings = conv.settings
        BY <2>2 DEF ConvRow
    <2>4. QED BY <2>1, <2>3 DEF Fields
<1>5. ASSUME NEW c \in Call, Commit(c), call[c].kind = "update"
      PROVE  /\ conv' = PatchedRow(c) /\ call[c].seen \in ConvRow /\ call[c].arg \in Fields
             /\ Open(c) /\ Committed(c, "update")' /\ call'[c].arg = call[c].arg
             /\ met'[c] = met[c]
    <2>1. conv' = PatchedRow(c) /\ call[c].seen \in ConvRow /\ call[c].arg \in Fields
        BY <1>5, CommitRows, CommitHolds
    <2>2. Open(c) /\ Committed(c, "update")' /\ call'[c].arg = call[c].arg /\ met'[c] = met[c]
        BY <1>5, CommitEffect DEF Committed
    <2>3. QED BY <2>1, <2>2
<1>6. ASSUME NEW u \in Call, Committed(u, "update")'
      PROVE  conv'[call'[u].arg] = u \/ Superseded(u)'
    <2>1. ASSUME NEW c \in Call, Commit(c), call[c].kind = "update"
          PROVE  conv'[call'[u].arg] = u \/ Superseded(u)'
        <3>1. PatchedRow(c)[call[c].arg] = c
              /\ \A f \in Fields \ {call[c].arg} : PatchedRow(c)[f] = call[c].seen[f]
            BY <1>5, <2>1, PatchedFields
        <3>2. CASE u = c
            BY <1>5, <2>1, <3>1, <3>2
        <3>3. CASE u # c
            <4>1. ~Commit(u)
                <5>1. call'[u] = call[u]
                    BY <2>1, <3>3, CommitEffect
                <5>2. QED BY <1>6, <5>1, CommitEffect DEF Committed
            <4>2. Committed(u, "update") /\ call'[u].arg = call[u].arg /\ call[u].arg \in Fields
                BY <1>1, <1>2, <1>6, <4>1
            <4>3. CASE call[c].arg = call[u].arg
                BY <1>5, <2>1, <3>3, <4>2, <4>3 DEF Superseded
            <4>4. CASE call[c].arg # call[u].arg
                <5>1. conv'[call'[u].arg] = call[c].seen[call[u].arg]
                    BY <1>5, <2>1, <3>1, <4>2, <4>4
                <5>2. call[c].seen[call[u].arg] = u \/ u \in met[c] \/ Superseded(u)
                    BY <1>5, <2>1, <4>2 DEF UpdatesSawFields
                <5>3. u \in met[c] => Superseded(u)'
                    BY <1>5, <2>1, <3>3 DEF Superseded
                <5>4. QED BY <1>3, <4>2, <5>1, <5>2, <5>3
            <4>5. QED BY <4>3, <4>4
        <3>4. QED BY <3>2, <3>3
    <2>2. ASSUME \A f \in Fields : conv'[f] = conv[f], ~Commit(u)
          PROVE  conv'[call'[u].arg] = u \/ Superseded(u)'
        <3>1. Committed(u, "update") /\ call'[u].arg = call[u].arg /\ call[u].arg \in Fields
            BY <1>1, <1>2, <1>6, <2>2
        <3>2. conv[call[u].arg] = u \/ Superseded(u)
            BY <3>1 DEF FieldsFollow
        <3>3. QED BY <1>3, <2>2, <3>1, <3>2
    <2>3. ASSUME NEW c \in Call, Commit(c), call[c].kind # "update"
          PROVE  conv'[call'[u].arg] = u \/ Superseded(u)'
        <3>1. c # u /\ \A f \in Fields : conv'[f] = conv[f]
            BY <1>4, <1>6, <2>3
        <3>2. ~Commit(u)
            <4>1. call'[u] = call[u]
                BY <2>3, <3>1, CommitEffect
            <4>2. QED BY <1>6, <4>1, CommitEffect DEF Committed
        <3>3. QED BY <2>2, <3>1, <3>2
    <2>4. QED BY <2>1, <2>2, <2>3, OnlyCommitsWrite DEF rows
<1>7. ASSUME NEW w \in Call, NEW u \in Call, call'[w].kind = "update", Open(w)',
             Committed(u, "update")'
      PROVE  call'[w].seen[call'[u].arg] = u \/ u \in met'[w] \/ Superseded(u)'
    <2>1. CASE Starts(w)
        <3>1. call'[w].seen = conv /\ conv' = conv
            BY <1>7, <2>1 DEF Starts, Private, rows
        <3>2. QED BY <1>6, <1>7, <3>1
    <2>2. CASE ~Starts(w)
        <3>1. Open(w) /\ ~Commit(w) /\ call[w].kind = "update" /\ call'[w].seen = call[w].seen
            BY <1>7, <2>2, OpenCalls
        <3>2. CASE Commit(u)
            <4>1. u # w
                BY <3>1, <3>2
            <4>2. met'[w] = met[w] \cup {u}
                BY <3>1, <3>2, <4>1, CommitEffect
            <4>3. QED BY <4>2
        <3>3. CASE ~Commit(u)
            <4>1. Committed(u, "update") /\ call'[u].arg = call[u].arg
                BY <1>1, <1>7, <3>3
            <4>2. call[w].seen[call[u].arg] = u \/ u \in met[w] \/ Superseded(u)
                BY <3>1, <4>1 DEF UpdatesSawFields
            <4>3. QED BY <1>1, <1>3, <3>1, <4>1, <4>2
        <3>4. QED BY <3>2, <3>3
    <2>3. QED BY <2>1, <2>2
<1>8. FieldsFollow'
    BY <1>6 DEF FieldsFollow
<1>9. UpdatesSawFields'
    BY <1>7 DEF UpdatesSawFields
<1>10. QED BY <1>8, <1>9

-----------------------------------------------------------------------------
(* The invariant.                                                          *)

LEMMA ChatInit == Init => ChatInv
<1> SUFFICES ASSUME Init PROVE ChatInv
    OBVIOUS
<1>1. \A c \in Call : /\ call[c] = Idle /\ met[c] = {} /\ ~Open(c) /\ ~Begun(c) /\ ~Written(c)
                      /\ call[c].kind = "none" /\ call[c].step = "idle" /\ call[c].holds = {}
                      /\ \A kind : ~Committed(c, kind)
    BY DEF Init, Idle, Open, Begun, Written, Committed
<1>2. /\ message = [content |-> Original, editCount |-> 0, deletedBy |-> Nobody]
      /\ edits = {} /\ conv = [title |-> Original, settings |-> Original, last |-> 0]
      /\ sent = {} /\ DOMAIN log = {} /\ nextGlobal = 1 /\ nextSeq = 1 /\ nextMessage = 1
      /\ cursor = 0 /\ got = {} /\ late = {}
    BY DEF Init
<1>3. reactions \in SUBSET Keys /\ Cardinality(Emojis(reactions)) <= MaxDistinct
    BY DEF Init, Keys
<1>4. ChatTypes
    <2>1. Idle \in CallRecord
        BY DEF Idle, CallRecord, Kinds, Steps
    <2>2. call \in [Call -> CallRecord] /\ met \in [Call -> SUBSET Call]
        BY <2>1 DEF Init
    <2>3. RowTypes
        BY <1>2, <1>3, FS_EmptySet DEF RowTypes, MessageRow, ConvRow, Bodies
    <2>4. OtherTypes
        BY <1>2, <2>2 DEF OtherTypes
    <2>5. QED BY <2>2, <2>3, <2>4 DEF ChatTypes
<1>5. CallsAreShaped
    BY <1>1 DEF CallsAreShaped, StepsOf, HeldRows
<1>6. LocksApart /\ WritesAreCurrent
    BY <1>1 DEF LocksApart, WritesAreCurrent
<1>7. EventsInOrder
    BY <1>1, <1>2 DEF EventsInOrder, Logging
<1>8. FeedFollows
    BY <1>2 DEF FeedFollows, Deleted, Events
<1>9. EditsAreCounted /\ EditsSawContent /\ BodiesLostOnlyByOverlap
    BY <1>1, <1>2, FS_EmptySet DEF EditsAreCounted, EditsSawContent, BodiesLostOnlyByOverlap
<1>10. LimitPassed /\ AddsLooked
    BY <1>1, <1>3 DEF LimitPassed, AddsLooked
<1>11. LastFollows /\ UpdatesSawLast
    BY <1>1, <1>2 DEF LastFollows, UpdatesSawLast, LastIsSent
<1>12. FieldsFollow /\ UpdatesSawFields
    BY <1>1 DEF FieldsFollow, UpdatesSawFields
<1>13. GlobalsAreDrawn /\ SendsAreDrawn /\ PollsPassOnlyLateMessages
    BY <1>1, <1>2 DEF GlobalsAreDrawn, SendsAreDrawn, PollsPassOnlyLateMessages
<1>14. QED
    BY <1>4, <1>5, <1>6, <1>7, <1>8, <1>9, <1>10, <1>11, <1>12, <1>13 DEF ChatInv

LEMMA ChatStutter == ASSUME ChatInv, UNCHANGED vars PROVE ChatInv'
<1> UNCHANGED <<message, edits, reactions, conv, sent, log, nextGlobal, nextSeq, nextMessage,
                cursor, got, late, call, met>>
    BY DEF vars, rows, counters, poller
<1> USE DEF ChatInv
<1>1. ChatTypes'
    BY DEF ChatTypes, RowTypes, OtherTypes
<1>2. CallsAreShaped' /\ LocksApart'
    BY DEF CallsAreShaped, LocksApart, HeldRows, Begun, Written
<1>3. WritesAreCurrent'
    BY DEF WritesAreCurrent, Written, EditedRow, PatchedRow, Deleted
<1>4. EventsInOrder' /\ FeedFollows'
    BY DEF EventsInOrder, Logging, FeedFollows, Deleted, Events, ReactionEvents
<1>5. EditsAreCounted' /\ EditsSawContent' /\ BodiesLostOnlyByOverlap'
    BY DEF EditsAreCounted, EditsSawContent, BodiesLostOnlyByOverlap, Committed, Open
<1>6. LimitPassed' /\ AddsLooked'
    BY DEF LimitPassed, AddsLooked, AddsOverlapped, Committed
<1>7. LastFollows' /\ UpdatesSawLast'
    BY DEF LastFollows, UpdatesSawLast, LastIsSent, Excused, MetSince, Committed, Open
<1>8. FieldsFollow' /\ UpdatesSawFields'
    BY DEF FieldsFollow, UpdatesSawFields, Superseded, Committed, Open
<1>9. GlobalsAreDrawn' /\ SendsAreDrawn' /\ PollsPassOnlyLateMessages'
    BY DEF GlobalsAreDrawn, SendsAreDrawn, PollsPassOnlyLateMessages
<1>10. QED BY <1>1, <1>2, <1>3, <1>4, <1>5, <1>6, <1>7, <1>8, <1>9

LEMMA ChatInvHolds == Spec => []ChatInv
<1>1. ASSUME ChatInv, Next PROVE ChatInv'
    BY <1>1, TypesStep, ShapedStep, LocksStep, WritesStep, EventsStep, FeedStep, EditsStep,
       LimitStep, LastStep, FieldsStep, PollsStep DEF ChatInv
<1>2. ChatInv /\ [Next]_vars => ChatInv'
    BY <1>1, ChatStutter
<1>3. QED BY ChatInit, <1>2, PTL DEF Spec

-----------------------------------------------------------------------------
(* The theorems.                                                           *)

\* What the calls hold and write is well-formed at every step: a row of each
\* table, a lock on rows of this conversation, a number from a sequence.
THEOREM ChatTypesHold == Spec => []ChatTypes
<1>1. ChatInv => ChatTypes
    BY DEF ChatInv
<1>2. QED BY <1>1, ChatInvHolds, PTL

\* The newest of some events is there, as they are finitely many.
LEMMA NewestIsLast ==
    ASSUME ChatTypes, EventsInOrder, NEW es \in SUBSET DOMAIN log, es # {}
    PROVE  \E n \in DOMAIN log : Last(n, es) /\ Newest(es) = log[n]
<1>1. nextGlobal \in Nat /\ DOMAIN log \subseteq 0 .. nextGlobal - 1
    BY DEF ChatTypes, OtherTypes, EventsInOrder
<1>2. es \in SUBSET Nat /\ \A n \in es : n <= nextGlobal
    BY <1>1
<1>3. PICK n \in es : \A m \in es : m <= n
    BY <1>1, <1>2, HasGreatest
<1> DEFINE last == CHOOSE x \in es : \A m \in es : m <= x
<1>4. last \in es /\ \A m \in es : m <= last
    BY <1>3
<1>5. Newest(es) = log[last]
    BY DEF Newest
<1> HIDE DEF last
<1>6. QED BY <1>4, <1>5 DEF Last

\* However many calls there are and in whatever order their rows commit, the
\* outbox rows applied by global_seq give what the tables hold: each call
\* draws its number while it holds the row that it wrote
\* (edit_delete.go:55-70, reactions.go:60-75, update.go:75-92).
THEOREM ChatFeedGivesTheRows == Spec => []FeedGivesTheRows
<1>1. ASSUME ChatInv PROVE FeedGivesTheRows
    <2> USE <1>1 DEF ChatInv
    <2>1. \A K : Events(K) \in SUBSET DOMAIN log
        BY DEF Events
    <2>2. Events({"edit"}) # {} => message.content = Newest(Events({"edit"})).by
        BY <2>1, NewestIsLast DEF FeedFollows
    <2>3. /\ Cardinality(Events({"delete"})) = (IF Deleted THEN 1 ELSE 0)
          /\ \A n \in Events({"delete"}) :
               log[n].arg = message.deletedBy /\ \A m \in Events({"edit"}) : m < n
        <3>1. CASE Deleted
            <4>1. PICK n \in DOMAIN log :
                    /\ Events({"delete"}) = {n} /\ log[n].arg = message.deletedBy
                    /\ \A m \in Events({"edit"}) : m < n
                BY <3>1 DEF FeedFollows
            <4>2. Cardinality({n}) = 1
                BY FS_Singleton
            <4>3. QED BY <3>1, <4>1, <4>2
        <3>2. CASE ~Deleted
            <4>1. Events({"delete"}) = {}
                BY <3>2 DEF FeedFollows
            <4>2. QED BY <3>2, <4>1, FS_EmptySet
        <3>3. QED BY <3>1, <3>2
    <2>4. ASSUME NEW k \in User \X Emoji, ReactionEvents(k) # {}
          PROVE  k \in reactions <=> Newest(ReactionEvents(k)).kind = "add"
        <3>1. k \in Keys /\ ReactionEvents(k) \in SUBSET DOMAIN log
            BY <2>1 DEF Keys, ReactionEvents
        <3>2. PICK n \in DOMAIN log :
                Last(n, ReactionEvents(k)) /\ Newest(ReactionEvents(k)) = log[n]
            BY <2>4, <3>1, NewestIsLast
        <3>3. QED BY <3>1, <3>2 DEF FeedFollows
    <2>5. Events({"update"}) # {} =>
            \A f \in Fields : conv[f] = Newest(Events({"update"})).row[f]
        BY <2>1, NewestIsLast DEF FeedFollows
    <2>6. QED BY <2>2, <2>3, <2>4, <2>5 DEF FeedGivesTheRows, ReactionEvents
<1>2. QED BY <1>1, ChatInvHolds, PTL

\* A body that is neither shown nor in the history was committed while an edit
\* that had read the one before it was open, and edit_count counts the history,
\* for any number of edits and deletes at a time (edit_delete.go:45,
\* message_repo.go:136-160).
THEOREM ChatBodiesLostOnlyByOverlap == Spec => []BodiesLostOnlyByOverlap
<1>1. ChatInv => BodiesLostOnlyByOverlap
    BY DEF ChatInv
<1>2. QED BY <1>1, ChatInvHolds, PTL

\* For every limit, however many calls pass it together did so by looking
\* before one of them committed (reactions.go:35-47).
THEOREM ChatLimitPassedOnlyByOverlap == Spec => []LimitPassedOnlyByOverlap
<1>1. ASSUME ChatInv PROVE LimitPassedOnlyByOverlap
    <2>1. reactions \in SUBSET Keys
        BY <1>1 DEF ChatInv, ChatTypes, RowTypes
    <2>2. Emojis(reactions) \in SUBSET Emoji
        BY <2>1 DEF Emojis, Keys
    <2>3. Cardinality(Emojis(reactions)) \in Nat /\ MaxDistinct \in Nat
        BY <2>2, EmojiAssumption, LimitsAssumption, FS_Subset, FS_CardinalityType
    <2>4. Cardinality(Emojis(reactions)) <= MaxDistinct \/ AddsOverlapped
        BY <1>1 DEF ChatInv, LimitPassed
    <2>5. QED BY <2>3, <2>4 DEF LimitPassedOnlyByOverlap, AddsOverlapped
<1>2. QED BY <1>1, ChatInvHolds, PTL

\* A committed message is hidden from the chat list, or a patch forgotten, only
\* by an update that met it, a newer message or the patch: sends and updates
\* that do not overlap never lose one (conversation_repo.go:83-103, 116-132).
THEOREM ChatRowLosesOnlyWhatUpdatesMet == Spec => []RowLosesOnlyWhatUpdatesMet
<1>1. ASSUME ChatInv PROVE RowLosesOnlyWhatUpdatesMet
    <2>1. LastFollows /\ FieldsFollow /\ ChatTypes
        BY <1>1 DEF ChatInv
    <2>2. conv.last \in Nat /\ \A m \in sent : m.seq \in Nat
        BY <2>1 DEF ChatTypes, RowTypes, ConvRow, SentMessage
    <2>3. ASSUME NEW m \in sent, conv.last < m.seq
          PROVE  \E u \in Call, n \in sent :
                    Committed(u, "update") /\ n.by \in met[u] /\ m.seq <= n.seq
        <3>1. ~(m.seq <= conv.last)
            BY <2>2, <2>3
        <3>2. Excused(m.seq)
            BY <2>1, <3>1 DEF LastFollows
        <3>3. QED BY <3>2 DEF Excused, MetSince
    <2>4. \A u \in Call : Committed(u, "update") =>
            \/ conv[call[u].arg] = u
            \/ \E v \in Call \ {u} :
                 Committed(v, "update") /\ (call[v].arg = call[u].arg \/ u \in met[v])
        BY <2>1 DEF FieldsFollow, Superseded
    <2>5. QED BY <2>3, <2>4 DEF RowLosesOnlyWhatUpdatesMet
<1>2. QED BY <1>1, ChatInvHolds, PTL

\* A poll of any page size passes over a message only if it committed after the
\* poll had gone by its global_seq (history.go:12-15, message_repo.go:89-134).
THEOREM ChatPollsPassOnlyLateMessages == Spec => []PollsPassOnlyLateMessages
<1>1. ChatInv => PollsPassOnlyLateMessages
    BY DEF ChatInv
<1>2. QED BY <1>1, ChatInvHolds, PTL
=============================================================================
