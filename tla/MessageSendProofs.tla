------------------------- MODULE MessageSendProofs -------------------------
(***************************************************************************)
(* Proofs about MessageSend for every set of conversations, keys and       *)
(* calls, every retry bound and every number of faults.                    *)
(*                                                                         *)
(* The properties of MessageSend are not inductive by themselves: they     *)
(* speak of committed rows, and what keeps a later commit from breaking    *)
(* them is what PostgreSQL already guarantees of the open transactions.    *)
(* SendInv adds that: an uncommitted row shares neither key nor slot with  *)
(* a committed or another uncommitted one, the row lock on                 *)
(* conversation_sequences is held by one transaction at a time, and a      *)
(* transaction between its commit and its reply has its row in the table.  *)
(***************************************************************************)
EXTENDS MessageSend, TLAPS

\* An uncommitted row is alone with its key and its slot.
OpenRowsApart ==
    \A r \in Req : Uncommitted(r) =>
        /\ ~KeyTaken(key[r])
        /\ ~SlotTaken(conv(r), seq[r])
        /\ ~KeyPending(r)
        /\ ~SlotPending(r)

\* Persist's row lock is exclusive.
OneFloorRowHolder ==
    \A r \in Req : HoldsFloorRow(r) => FloorRowFree(r)

\* The committed part of ExactlyOnce.
RowsUnique ==
    \A m, n \in messages :
        (m.key = n.key \/ (ConvOf[m.key] = ConvOf[n.key] /\ m.seq = n.seq)) => m = n

\* A call that has committed, or has been answered, has its row in the table.
AnswersRecorded ==
    \A r \in Req :
        /\ pc[r] = "reply" \/ answer[r] \in {"created", "replayed"}
              => [key |-> key[r], seq |-> seq[r]] \in messages
        /\ answer[r] # "none" => pc[r] = "done"

\* Every global_seq handed out is below the sequence's next value.
GlobalsIssued ==
    /\ \A e \in changeLog : e.global < nextGlobal
    /\ \A r \in Req : pc[r] = "commit" => global[r] < nextGlobal

SendInv ==
    /\ TypeOK
    /\ OpenRowsApart
    /\ OneFloorRowHolder
    /\ RowsUnique
    /\ AnswersRecorded
    /\ GlobalsIssued
    /\ FloorCoversMessages
    /\ LastMessageIsNewest
    /\ ConversationFeedInOrder

-----------------------------------------------------------------------------
\* GREATEST returns one of its arguments and is at least both.
LEMMA GreatestBounds ==
    ASSUME NEW a \in Nat, NEW b \in Nat
    PROVE  /\ Greatest(a, b) \in {a, b}
           /\ a <= Greatest(a, b)
           /\ b <= Greatest(a, b)
    BY DEF Greatest

USE DEF shared, local, Steps, Answers

\* Every step of a call, of Redis or of the end of the run keeps the types.
LEMMA TypeStep == ASSUME TypeOK, [Next]_vars PROVE TypeOK'
<1> USE ConvOfAssumption, RetriesAssumption, FaultsAssumption DEF TypeOK, Goto, Fault, conv
<1>1. ASSUME NEW r \in Req, Start(r) PROVE TypeOK'
    BY <1>1 DEF Start
<1>2. ASSUME NEW r \in Req, CheckCounter(r) PROVE TypeOK'
    BY <1>2 DEF CheckCounter
<1>3. ASSUME NEW r \in Req, ReadFloor(r) PROVE TypeOK'
    BY <1>3 DEF ReadFloor
<1>4. ASSUME NEW r \in Req, Bootstrap(r) PROVE TypeOK'
    BY <1>4 DEF Bootstrap
<1>5. ASSUME NEW r \in Req, Increment(r) PROVE TypeOK'
    BY <1>5 DEF Increment
<1>6. ASSUME NEW r \in Req, NextFromPG(r) PROVE TypeOK'
    BY <1>6 DEF NextFromPG
<1>7. ASSUME NEW r \in Req, InsertCollapsed(r) PROVE TypeOK'
    BY <1>7 DEF InsertCollapsed
<1>8. ASSUME NEW r \in Req, InsertConflict(r) PROVE TypeOK'
    BY <1>8 DEF InsertConflict
<1>9. ASSUME NEW r \in Req, InsertRow(r) PROVE TypeOK'
    BY <1>9 DEF InsertRow
<1>10. ASSUME NEW r \in Req, Replay(r) PROVE TypeOK'
    BY <1>10 DEF Replay, Message
<1>11. ASSUME NEW r \in Req, Persist(r) PROVE TypeOK'
    BY <1>11 DEF Persist
<1>12. ASSUME NEW r \in Req, Append(r) PROVE TypeOK'
    BY <1>12 DEF Append
<1>13. ASSUME NEW r \in Req, Commit(r) PROVE TypeOK'
    <2>1. PersistedFloor(conv(r), seq[r]) \in Nat /\ BumpedLast(conv(r), seq[r]) \in Nat
        BY GreatestBounds DEF PersistedFloor, BumpedLast
    <2>2. QED BY <1>13, <2>1 DEF Commit, Message, Change
<1>14. ASSUME NEW r \in Req, Reply(r) PROVE TypeOK'
    BY <1>14 DEF Reply
<1>15. ASSUME NEW r \in Req, Die(r) PROVE TypeOK'
    BY <1>15 DEF Die
<1>16. ASSUME NEW c \in Conv, CounterSetBack(c) PROVE TypeOK'
    BY <1>16 DEF CounterSetBack
<1>17. ASSUME UNCHANGED vars PROVE TypeOK'
    BY <1>17 DEF vars
<1>18. QED
    BY <1>1, <1>2, <1>3, <1>4, <1>5, <1>6, <1>7, <1>8, <1>9, <1>10, <1>11, <1>12,
       <1>13, <1>14, <1>15, <1>16, <1>17
       DEF Next, Serve, Allocate, Transact, Finished

\* Type correctness of the send path.
THEOREM TypeCorrect == Spec => []TypeOK
<1>1. Init => TypeOK
    BY ConvOfAssumption, RetriesAssumption, FaultsAssumption DEF Init, TypeOK
<1>2. TypeOK /\ [Next]_vars => TypeOK'
    BY TypeStep
<1>3. QED BY <1>1, <1>2, PTL DEF Spec

-----------------------------------------------------------------------------
(***************************************************************************)
(* The lemmas below each take one conjunct of SendInv over a step.  Only   *)
(* InsertRow opens a row, only Persist takes the row lock, only Append     *)
(* draws a global_seq and only Commit changes the tables.                  *)
(***************************************************************************)

\* Uncommitted rows and their transactions: what any step but InsertRow and
\* Commit does to them, and to the messages table.
Quiet ==
    /\ key' = key
    /\ messages' = messages
    /\ \A q \in Req : Uncommitted(q)' => Uncommitted(q) /\ seq'[q] = seq[q]

LEMMA QuietKeepsRowsApart ==
    ASSUME OpenRowsApart, Quiet PROVE OpenRowsApart'
    BY DEF OpenRowsApart, Quiet, KeyTaken, SlotTaken, KeyPending, SlotPending, conv

\* A step is quiet, opens a row or commits one.
LEMMA StepIsQuiet ==
    ASSUME TypeOK, Next
    PROVE  Quiet \/ \E r \in Req : InsertRow(r) \/ Commit(r)
<1> USE DEF TypeOK, Goto, Quiet, Uncommitted
<1>1. ASSUME NEW r \in Req, Start(r) \/ Allocate(r) PROVE Quiet
    BY <1>1 DEF Start, Allocate, CheckCounter, ReadFloor, Bootstrap, Increment, NextFromPG
<1>2. ASSUME NEW r \in Req, InsertCollapsed(r) \/ InsertConflict(r) \/ Replay(r) PROVE Quiet
    BY <1>2 DEF InsertCollapsed, InsertConflict, Replay
<1>3. ASSUME NEW r \in Req, Persist(r) \/ Append(r) \/ Reply(r) \/ Die(r) PROVE Quiet
    BY <1>3 DEF Persist, Append, Reply, Die
<1>4. ASSUME NEW c \in Conv, CounterSetBack(c) PROVE Quiet
    BY <1>4 DEF CounterSetBack
<1>5. ASSUME Finished PROVE Quiet
    BY <1>5 DEF Finished, vars
<1>6. QED BY <1>1, <1>2, <1>3, <1>4, <1>5 DEF Next, Serve, Transact

\* The unique indexes keep an open row alone with its key and its slot.
LEMMA OpenRowsApartStep ==
    ASSUME TypeOK, OpenRowsApart, Next PROVE OpenRowsApart'
<1>1. CASE Quiet
    BY <1>1, QuietKeepsRowsApart
<1>2. ASSUME NEW r \in Req, InsertRow(r) PROVE OpenRowsApart'
    <2>1. /\ key' = key /\ seq' = seq /\ messages' = messages
          /\ ~KeyTaken(key[r]) /\ ~KeyPending(r)
          /\ ~SlotTaken(conv(r), seq[r]) /\ ~SlotPending(r)
          /\ \A q \in Req \ {r} : Uncommitted(q)' = Uncommitted(q)
        BY <1>2 DEF InsertRow, Goto, TypeOK, Uncommitted
    <2>2. SUFFICES ASSUME NEW q \in Req, Uncommitted(q)'
                   PROVE  /\ ~KeyTaken(key[q])' /\ ~SlotTaken(conv(q), seq[q])'
                          /\ ~KeyPending(q)' /\ ~SlotPending(q)'
        BY DEF OpenRowsApart
    <2>3. ~KeyTaken(key[q]) /\ ~SlotTaken(conv(q), seq[q])
        BY <2>1, <2>2 DEF OpenRowsApart
    <2>4. \A p \in Req \ {q} : Uncommitted(p)' =>
              key[p] # key[q] /\ ~(conv(p) = conv(q) /\ seq[p] = seq[q])
        BY <2>1, <2>2 DEF OpenRowsApart, KeyPending, SlotPending
    <2>5. QED BY <2>1, <2>3, <2>4 DEF KeyTaken, SlotTaken, KeyPending, SlotPending, conv
<1>3. ASSUME NEW r \in Req, Commit(r) PROVE OpenRowsApart'
    <2>1. /\ key' = key /\ seq' = seq
          /\ messages' = messages \cup {[key |-> key[r], seq |-> seq[r]]}
          /\ Uncommitted(r) /\ ~Uncommitted(r)'
          /\ \A q \in Req \ {r} : Uncommitted(q)' = Uncommitted(q)
        BY <1>3 DEF Commit, Goto, TypeOK, Uncommitted
    <2>2. SUFFICES ASSUME NEW q \in Req, Uncommitted(q)'
                   PROVE  /\ ~KeyTaken(key[q])' /\ ~SlotTaken(conv(q), seq[q])'
                          /\ ~KeyPending(q)' /\ ~SlotPending(q)'
        BY DEF OpenRowsApart
    <2>3. q # r /\ Uncommitted(q)
        BY <2>1, <2>2
    <2>4. /\ ~KeyTaken(key[q]) /\ ~SlotTaken(conv(q), seq[q])
          /\ \A p \in Req \ {q} : Uncommitted(p) =>
                key[p] # key[q] /\ ~(conv(p) = conv(q) /\ seq[p] = seq[q])
        BY <2>3 DEF OpenRowsApart, KeyPending, SlotPending
    <2>5. \A p \in Req : Uncommitted(p)' => Uncommitted(p)
        BY <2>1
    <2>6. QED BY <2>1, <2>3, <2>4, <2>5 DEF KeyTaken, SlotTaken, KeyPending, SlotPending, conv
<1>4. QED BY <1>1, <1>2, <1>3, StepIsQuiet

\* The committed rows stay apart, because the row that joins them was.
LEMMA RowsUniqueStep ==
    ASSUME TypeOK, OpenRowsApart, RowsUnique, Next PROVE RowsUnique'
<1>1. CASE Quiet
    BY <1>1 DEF Quiet, RowsUnique
<1>2. ASSUME NEW r \in Req, InsertRow(r) PROVE RowsUnique'
    BY <1>2 DEF InsertRow, RowsUnique
<1>3. ASSUME NEW r \in Req, Commit(r) PROVE RowsUnique'
    <2>1. /\ messages' = messages \cup {[key |-> key[r], seq |-> seq[r]]}
          /\ Uncommitted(r)
        BY <1>3 DEF Commit, Uncommitted
    <2>2. ~KeyTaken(key[r]) /\ ~SlotTaken(conv(r), seq[r])
        BY <2>1 DEF OpenRowsApart
    <2>3. QED BY <2>1, <2>2 DEF RowsUnique, KeyTaken, SlotTaken, conv
<1>4. QED BY <1>1, <1>2, <1>3, StepIsQuiet

\* Rows are never taken back, and the call that commits keeps its sequence.
LEMMA AnswersRecordedStep ==
    ASSUME TypeOK, AnswersRecorded, Next PROVE AnswersRecorded'
<1> USE DEF TypeOK, Goto, AnswersRecorded
<1>1. ASSUME NEW r \in Req, Start(r) \/ Allocate(r) PROVE AnswersRecorded'
    <2>1. CASE Start(r)
        BY <2>1 DEF Start
    <2>2. CASE CheckCounter(r) \/ ReadFloor(r)
        BY <2>2 DEF CheckCounter, ReadFloor
    <2>3. CASE Bootstrap(r) \/ Increment(r)
        BY <2>3 DEF Bootstrap, Increment
    <2>4. CASE NextFromPG(r)
        BY <2>4 DEF NextFromPG
    <2>5. QED BY <1>1, <2>1, <2>2, <2>3, <2>4 DEF Allocate
<1>2. ASSUME NEW r \in Req, InsertCollapsed(r) \/ InsertConflict(r) \/ InsertRow(r)
      PROVE AnswersRecorded'
    BY <1>2 DEF InsertCollapsed, InsertConflict, InsertRow
<1>3. ASSUME NEW r \in Req, Replay(r) PROVE AnswersRecorded'
    <2>1. PICK m \in messages : m.key = key[r] /\ seq' = [seq EXCEPT ![r] = m.seq]
        BY <1>3 DEF Replay
    <2>2. m = [key |-> key[r], seq |-> seq'[r]]
        BY <2>1 DEF Message
    <2>3. QED BY <1>3, <2>1, <2>2 DEF Replay
<1>4. ASSUME NEW r \in Req, Persist(r) \/ Append(r) PROVE AnswersRecorded'
    BY <1>4 DEF Persist, Append
<1>5. ASSUME NEW r \in Req, Commit(r) PROVE AnswersRecorded'
    BY <1>5 DEF Commit
<1>6. ASSUME NEW r \in Req, Reply(r) \/ Die(r) PROVE AnswersRecorded'
    BY <1>6 DEF Reply, Die
<1>7. ASSUME NEW c \in Conv, CounterSetBack(c) PROVE AnswersRecorded'
    BY <1>7 DEF CounterSetBack
<1>8. ASSUME Finished PROVE AnswersRecorded'
    BY <1>8 DEF Finished, vars
<1>9. QED BY <1>1, <1>2, <1>3, <1>4, <1>5, <1>6, <1>7, <1>8 DEF Next, Serve, Transact

\* The rows a transaction has locked stay locked until it ends, and only
\* Persist, which waits for them, takes the lock.
LEMMA OneFloorRowHolderStep ==
    ASSUME TypeOK, OneFloorRowHolder, Next PROVE OneFloorRowHolder'
<1> USE DEF TypeOK, Goto, OneFloorRowHolder, HoldsFloorRow, FloorRowFree, conv
<1>1. ASSUME NEW r \in Req, Start(r) \/ Allocate(r) PROVE OneFloorRowHolder'
    BY <1>1 DEF Start, Allocate, CheckCounter, ReadFloor, Bootstrap, Increment, NextFromPG
<1>2. ASSUME NEW r \in Req,
             InsertCollapsed(r) \/ InsertConflict(r) \/ InsertRow(r) \/ Replay(r)
      PROVE OneFloorRowHolder'
    BY <1>2 DEF InsertCollapsed, InsertConflict, InsertRow, Replay
<1>3. ASSUME NEW r \in Req, Persist(r) PROVE OneFloorRowHolder'
    BY <1>3 DEF Persist
<1>4. ASSUME NEW r \in Req, Append(r) \/ Commit(r) PROVE OneFloorRowHolder'
    BY <1>4 DEF Append, Commit
<1>5. ASSUME NEW r \in Req, Reply(r) \/ Die(r) PROVE OneFloorRowHolder'
    BY <1>5 DEF Reply, Die
<1>6. ASSUME NEW c \in Conv, CounterSetBack(c) PROVE OneFloorRowHolder'
    BY <1>6 DEF CounterSetBack
<1>7. ASSUME Finished PROVE OneFloorRowHolder'
    BY <1>7 DEF Finished, vars
<1>8. QED BY <1>1, <1>2, <1>3, <1>4, <1>5, <1>6, <1>7 DEF Next, Serve, Transact

\* What the tables see of a step that is not a Commit: the floor may rise
\* (the PostgreSQL fallback), the rest stays.
TablesKept ==
    /\ key' = key
    /\ messages' = messages
    /\ lastSeq' = lastSeq
    /\ changeLog' = changeLog
    /\ \A c \in Conv : floor[c] <= floor'[c]
    /\ nextGlobal <= nextGlobal'

LEMMA StepKeepsTables ==
    ASSUME TypeOK, Next PROVE TablesKept \/ \E r \in Req : Commit(r)
<1> USE DEF TypeOK, TablesKept
<1>1. ASSUME NEW r \in Req, Start(r) PROVE TablesKept
    BY <1>1 DEF Start
<1>2. ASSUME NEW r \in Req, Allocate(r) PROVE TablesKept
    <2>1. CASE CheckCounter(r) \/ ReadFloor(r) \/ Bootstrap(r) \/ Increment(r)
        BY <2>1 DEF CheckCounter, ReadFloor, Bootstrap, Increment
    <2>2. CASE NextFromPG(r)
        BY <2>2 DEF NextFromPG
    <2>3. QED BY <1>2, <2>1, <2>2 DEF Allocate
<1>3. ASSUME NEW r \in Req,
             InsertCollapsed(r) \/ InsertConflict(r) \/ InsertRow(r) \/ Replay(r)
      PROVE TablesKept
    BY <1>3 DEF InsertCollapsed, InsertConflict, InsertRow, Replay
<1>4. ASSUME NEW r \in Req, Persist(r) \/ Append(r) \/ Reply(r) \/ Die(r) PROVE TablesKept
    BY <1>4 DEF Persist, Append, Reply, Die
<1>5. ASSUME NEW c \in Conv, CounterSetBack(c) PROVE TablesKept
    BY <1>5 DEF CounterSetBack
<1>6. ASSUME Finished PROVE TablesKept
    BY <1>6 DEF Finished, vars
<1>7. QED BY <1>1, <1>2, <1>3, <1>4, <1>5, <1>6 DEF Next, Serve, Transact

\* GREATEST keeps the floor above the rows there are and the one that joins them.
LEMMA FloorCoversMessagesStep ==
    ASSUME TypeOK, FloorCoversMessages, Next PROVE FloorCoversMessages'
<1> USE ConvOfAssumption
<1>1. CASE TablesKept
    BY <1>1, TypeStep DEF TablesKept, FloorCoversMessages, TypeOK, Message
<1>2. ASSUME NEW r \in Req, Commit(r) PROVE FloorCoversMessages'
    <2>1. /\ messages' = messages \cup {[key |-> key[r], seq |-> seq[r]]}
          /\ floor' = [floor EXCEPT ![conv(r)] = Greatest(floor[conv(r)], seq[r])]
        BY <1>2 DEF Commit, PersistedFloor
    <2>2. /\ conv(r) \in Conv /\ floor[conv(r)] \in Nat /\ seq[r] \in Nat
          /\ key[r] \in Key
        BY DEF TypeOK, conv
    <2>3. floor'[conv(r)] \in Nat /\ seq[r] <= floor'[conv(r)]
          /\ floor[conv(r)] <= floor'[conv(r)]
        BY <2>1, <2>2, GreatestBounds DEF TypeOK
    <2>4. \A c \in Conv : c # conv(r) => floor'[c] = floor[c]
        BY <2>1 DEF TypeOK
    <2>5. QED
        BY <2>1, <2>2, <2>3, <2>4 DEF FloorCoversMessages, TypeOK, Message, conv
<1>3. QED BY <1>1, <1>2, StepKeepsTables

\* last_message_seq is the newest row before and after a commit, whichever of the
\* two sequences is the newer.
LEMMA LastMessageIsNewestStep ==
    ASSUME TypeOK, LastMessageIsNewest, Next PROVE LastMessageIsNewest'
<1> USE ConvOfAssumption
<1>1. CASE TablesKept
    BY <1>1 DEF TablesKept, LastMessageIsNewest, SeqsOf
<1>2. ASSUME NEW r \in Req, Commit(r) PROVE LastMessageIsNewest'
    <2>1. /\ key' = key
          /\ messages' = messages \cup {[key |-> key[r], seq |-> seq[r]]}
          /\ lastSeq' = [lastSeq EXCEPT ![conv(r)] = Greatest(lastSeq[conv(r)], seq[r])]
        BY <1>2 DEF Commit, BumpedLast
    <2>2. /\ conv(r) \in Conv /\ lastSeq[conv(r)] \in Nat /\ seq[r] \in Nat
        BY DEF TypeOK, conv
    <2>3. /\ lastSeq'[conv(r)] \in {lastSeq[conv(r)], seq[r]}
          /\ seq[r] <= lastSeq'[conv(r)] /\ lastSeq[conv(r)] <= lastSeq'[conv(r)]
          /\ lastSeq'[conv(r)] \in Nat
        BY <2>1, <2>2, GreatestBounds DEF TypeOK
    <2>4. ASSUME NEW c \in Conv, c = conv(r)
          PROVE  SeqsOf(c)' = SeqsOf(c) \cup {seq[r]}
        <3> DEFINE row == [key |-> key[r], seq |-> seq[r]]
        <3>1. \A s : s \in SeqsOf(c)' <=> \E m \in messages' : ConvOf[m.key] = c /\ m.seq = s
            BY DEF SeqsOf
        <3>2. \A s : s \in SeqsOf(c) <=> \E m \in messages : ConvOf[m.key] = c /\ m.seq = s
            BY DEF SeqsOf
        <3>3. messages' = messages \cup {row} /\ ConvOf[row.key] = c /\ row.seq = seq[r]
            BY <2>1, <2>4 DEF conv
        <3> HIDE DEF row
        <3>4. QED BY <3>1, <3>2, <3>3
    <2>5. ASSUME NEW c \in Conv, c # conv(r)
          PROVE  SeqsOf(c)' = SeqsOf(c) /\ lastSeq'[c] = lastSeq[c]
        BY <2>1, <2>5 DEF SeqsOf, conv, TypeOK
    <2>6. \A c \in Conv : SeqsOf(c) \subseteq Nat
        BY DEF SeqsOf, TypeOK, Message
    <2>7. SUFFICES ASSUME NEW c \in Conv
                   PROVE  /\ lastSeq'[c] \in SeqsOf(c)' \cup {0}
                          /\ \A s \in SeqsOf(c)' : s <= lastSeq'[c]
        BY DEF LastMessageIsNewest
    <2>8. CASE c = conv(r)
        BY <2>2, <2>3, <2>4, <2>6, <2>8 DEF LastMessageIsNewest
    <2>9. CASE c # conv(r)
        BY <2>5, <2>9 DEF LastMessageIsNewest
    <2>10. QED BY <2>8, <2>9
<1>3. QED BY <1>1, <1>2, StepKeepsTables

\* Where the drawn global_seq values are, over a step that draws none and
\* commits none.
GlobalsKept ==
    /\ key' = key /\ changeLog' = changeLog /\ nextGlobal' = nextGlobal
    /\ \A q \in Req : pc'[q] = "commit" => pc[q] = "commit" /\ global'[q] = global[q]

LEMMA StepKeepsGlobals ==
    ASSUME TypeOK, Next
    PROVE  GlobalsKept \/ \E r \in Req : Append(r) \/ Commit(r)
<1> USE DEF TypeOK, Goto, GlobalsKept
<1>1. ASSUME NEW r \in Req, Start(r) \/ Allocate(r) PROVE GlobalsKept
    BY <1>1 DEF Start, Allocate, CheckCounter, ReadFloor, Bootstrap, Increment, NextFromPG
<1>2. ASSUME NEW r \in Req,
             InsertCollapsed(r) \/ InsertConflict(r) \/ InsertRow(r) \/ Replay(r)
      PROVE GlobalsKept
    BY <1>2 DEF InsertCollapsed, InsertConflict, InsertRow, Replay
<1>3. ASSUME NEW r \in Req, Persist(r) \/ Reply(r) \/ Die(r) PROVE GlobalsKept
    BY <1>3 DEF Persist, Reply, Die
<1>4. ASSUME NEW c \in Conv, CounterSetBack(c) PROVE GlobalsKept
    BY <1>4 DEF CounterSetBack
<1>5. ASSUME Finished PROVE GlobalsKept
    BY <1>5 DEF Finished, vars
<1>6. QED BY <1>1, <1>2, <1>3, <1>4, <1>5 DEF Next, Serve, Transact

\* A drawn global_seq is above every committed row, and the conversation's lock
\* keeps it above those of its conversation until it commits too.
LEMMA FeedStep ==
    ASSUME TypeOK, OneFloorRowHolder, GlobalsIssued, ConversationFeedInOrder, Next
    PROVE  GlobalsIssued' /\ ConversationFeedInOrder'
<1> USE DEF GlobalsIssued, ConversationFeedInOrder, TypeOK, Change, Goto, conv
<1>1. CASE GlobalsKept
    BY <1>1 DEF GlobalsKept
<1>2. ASSUME NEW r \in Req, Append(r) PROVE GlobalsIssued' /\ ConversationFeedInOrder'
    BY <1>2 DEF Append
<1>3. ASSUME NEW r \in Req, Commit(r) PROVE GlobalsIssued' /\ ConversationFeedInOrder'
    <2>1. /\ changeLog' = changeLog \cup
                {[key |-> key[r], seq |-> seq[r], global |-> global[r]]}
          /\ key' = key /\ nextGlobal' = nextGlobal /\ global' = global
          /\ pc[r] = "commit" /\ pc' = [pc EXCEPT ![r] = "reply"]
        BY <1>3 DEF Commit
    <2>2. \A q \in Req \ {r} : pc[q] = "commit" => conv(q) # conv(r)
        BY <2>1 DEF OneFloorRowHolder, HoldsFloorRow, FloorRowFree
    <2>3. QED BY <2>1, <2>2
<1>4. QED BY <1>1, <1>2, <1>3, StepKeepsGlobals

-----------------------------------------------------------------------------
(***************************************************************************)
(* SendInv is an inductive invariant.                                      *)
(***************************************************************************)
LEMMA SendInvInit == Init => SendInv
<1> SUFFICES ASSUME Init PROVE SendInv
    OBVIOUS
<1>1. TypeOK
    BY ConvOfAssumption, RetriesAssumption, FaultsAssumption DEF Init, TypeOK
<1>2. OpenRowsApart /\ OneFloorRowHolder
    BY DEF Init, OpenRowsApart, OneFloorRowHolder, Uncommitted, HoldsFloorRow
<1>3. RowsUnique /\ AnswersRecorded /\ GlobalsIssued
    BY DEF Init, RowsUnique, AnswersRecorded, GlobalsIssued
<1>4. FloorCoversMessages /\ LastMessageIsNewest /\ ConversationFeedInOrder
    BY DEF Init, FloorCoversMessages, LastMessageIsNewest, SeqsOf, ConversationFeedInOrder
<1>5. QED BY <1>1, <1>2, <1>3, <1>4 DEF SendInv

LEMMA SendInvStep == SendInv /\ [Next]_vars => SendInv'
<1> SUFFICES ASSUME SendInv, [Next]_vars PROVE SendInv'
    OBVIOUS
<1> USE DEF SendInv
<1>1. CASE Next
    BY <1>1, TypeStep, OpenRowsApartStep, OneFloorRowHolderStep, RowsUniqueStep,
       AnswersRecordedStep, FeedStep, FloorCoversMessagesStep, LastMessageIsNewestStep
<1>2. CASE UNCHANGED vars
    BY <1>2 DEF vars, TypeOK, OpenRowsApart, OneFloorRowHolder, RowsUnique, AnswersRecorded,
       GlobalsIssued, FloorCoversMessages, LastMessageIsNewest, SeqsOf,
       ConversationFeedInOrder, Uncommitted, HoldsFloorRow, FloorRowFree, KeyTaken,
       SlotTaken, KeyPending, SlotPending, conv
<1>3. QED BY <1>1, <1>2

THEOREM SendInvariant == Spec => []SendInv
    BY SendInvInit, SendInvStep, PTL DEF Spec

\* However many calls carry a key, one row is committed for it, in a slot of its
\* own, and every call that succeeds names that row.
THEOREM SendExactlyOnce == Spec => []ExactlyOnce
<1>1. SendInv => ExactlyOnce
    BY DEF SendInv, RowsUnique, AnswersRecorded, ExactlyOnce
<1>2. QED BY <1>1, SendInvariant, PTL

\* The durable floor is never behind a committed message.
THEOREM SendFloorCoversMessages == Spec => []FloorCoversMessages
<1>1. SendInv => FloorCoversMessages
    BY DEF SendInv
<1>2. QED BY <1>1, SendInvariant, PTL

\* The chat list's last message is the newest one.
THEOREM SendLastMessageIsNewest == Spec => []LastMessageIsNewest
<1>1. SendInv => LastMessageIsNewest
    BY DEF SendInv
<1>2. QED BY <1>1, SendInvariant, PTL

\* The outbox rows of one conversation's messages commit in global order.
THEOREM SendFeedInOrder == Spec => []ConversationFeedInOrder
<1>1. SendInv => ConversationFeedInOrder
    BY DEF SendInv
<1>2. QED BY <1>1, SendInvariant, PTL

-----------------------------------------------------------------------------
(***************************************************************************)
(* Without a fault the counter is never behind: it covers the floor, every *)
(* committed row and every sequence in a call's hands, and no two calls    *)
(* hold one sequence.                                                      *)
(***************************************************************************)
\* The call holds a sequence of its own that it has not committed.
Allocated(r) == pc[r] \in {"insert", "persist", "append", "commit"}

CounterAhead ==
    /\ \A c \in Conv : floor[c] <= counter[c]
    /\ \A m \in messages : m.seq <= counter[ConvOf[m.key]]
    /\ \A r \in Req : pc[r] = "setnx" => counter[conv(r)] > 0

SequencesApart ==
    \A r \in Req : Allocated(r) =>
        /\ seq[r] <= counter[conv(r)]
        /\ ~SlotTaken(conv(r), seq[r])
        /\ \A q \in Req \ {r} : Allocated(q) /\ conv(q) = conv(r) => seq[q] # seq[r]

FirstAttempts == \A r \in Req : attempt[r] = 1 /\ pc[r] # "pg"

FaultFree == faults = 0 => CounterAhead /\ SequencesApart /\ FirstAttempts

\* A step after which there has been no fault leaves the counter alone or takes
\* the next number from it.
LEMMA FaultFreeStep ==
    ASSUME TypeOK, FaultFree, Next PROVE FaultFree'
<1> SUFFICES ASSUME faults' = 0 PROVE (CounterAhead /\ SequencesApart /\ FirstAttempts)'
    BY DEF FaultFree
<1> USE ConvOfAssumption
<1> USE DEF TypeOK, Goto, CounterAhead, SequencesApart, FirstAttempts, Allocated, SlotTaken, conv
<1>1. ~Fault
    BY DEF Fault
<1>2. ASSUME faults = 0 PROVE CounterAhead /\ SequencesApart /\ FirstAttempts
    BY <1>2 DEF FaultFree
<1>3. ASSUME NEW r \in Req, Start(r) \/ CheckCounter(r) \/ ReadFloor(r)
      PROVE  (CounterAhead /\ SequencesApart /\ FirstAttempts)'
    BY <1>1, <1>2, <1>3 DEF Start, CheckCounter, ReadFloor, shared
<1>4. ASSUME NEW r \in Req, Bootstrap(r)
      PROVE  (CounterAhead /\ SequencesApart /\ FirstAttempts)'
    BY <1>1, <1>2, <1>4 DEF Bootstrap
<1>5. ASSUME NEW r \in Req, Increment(r)
      PROVE  (CounterAhead /\ SequencesApart /\ FirstAttempts)'
    <2>1. /\ counter' = [counter EXCEPT ![conv(r)] = @ + 1]
          /\ seq' = [seq EXCEPT ![r] = counter[conv(r)] + 1]
          /\ pc' = [pc EXCEPT ![r] = "insert"]
          /\ UNCHANGED <<floor, messages, key, attempt, faults>>
        BY <1>1, <1>5 DEF Increment
    <2>2. /\ counter'[conv(r)] = counter[conv(r)] + 1
          /\ \A c \in Conv : counter[c] <= counter'[c]
          /\ seq'[r] = counter[conv(r)] + 1
        BY <2>1
    <2>3. CounterAhead' /\ FirstAttempts'
        BY <1>2, <2>1, <2>2 DEF Message
    <2>4. ASSUME NEW q \in Req, Allocated(q)'
          PROVE  /\ seq'[q] <= counter'[conv(q)]
                 /\ ~SlotTaken(conv(q), seq'[q])
        <3>1. CASE q = r
            BY <1>2, <2>1, <2>2, <3>1
        <3>2. CASE q # r
            BY <1>2, <2>1, <2>2, <2>4, <3>2
        <3>3. QED BY <3>1, <3>2
    <2>5. ASSUME NEW q \in Req, NEW p \in Req \ {q}, Allocated(q)', Allocated(p)', conv(p) = conv(q)
          PROVE  seq'[p] # seq'[q]
        <3>1. CASE q = r
            BY <1>2, <2>1, <2>2, <2>5, <3>1
        <3>2. CASE p = r
            BY <1>2, <2>1, <2>2, <2>5, <3>2
        <3>3. CASE q # r /\ p # r
            BY <1>2, <2>1, <2>2, <2>5, <3>3
        <3>4. QED BY <3>1, <3>2, <3>3
    <2>6. SequencesApart'
        BY <2>1, <2>4, <2>5
    <2>7. QED BY <2>3, <2>6
<1>6. ASSUME NEW r \in Req, NextFromPG(r)
      PROVE  (CounterAhead /\ SequencesApart /\ FirstAttempts)'
    BY <1>2, <1>6 DEF NextFromPG
<1>7. ASSUME NEW r \in Req, InsertCollapsed(r) \/ InsertConflict(r) \/ InsertRow(r)
      PROVE  (CounterAhead /\ SequencesApart /\ FirstAttempts)'
    BY <1>2, <1>7 DEF InsertCollapsed, InsertConflict, InsertRow, shared
<1>8. ASSUME NEW r \in Req, Replay(r) \/ Persist(r) \/ Append(r) \/ Reply(r) \/ Die(r)
      PROVE  (CounterAhead /\ SequencesApart /\ FirstAttempts)'
    BY <1>2, <1>8 DEF Replay, Persist, Append, Reply, Die, shared
<1>9. ASSUME NEW r \in Req, Commit(r)
      PROVE  (CounterAhead /\ SequencesApart /\ FirstAttempts)'
    <2>1. /\ messages' = messages \cup {[key |-> key[r], seq |-> seq[r]]}
          /\ floor' = [floor EXCEPT ![conv(r)] = Greatest(floor[conv(r)], seq[r])]
          /\ pc[r] = "commit" /\ pc' = [pc EXCEPT ![r] = "reply"]
          /\ UNCHANGED <<counter, seq, key, attempt, faults>>
        BY <1>9 DEF Commit, PersistedFloor
    <2>2. floor'[conv(r)] <= counter[conv(r)]
        BY <1>2, <2>1, GreatestBounds
    <2>3. CounterAhead' /\ FirstAttempts'
        BY <1>2, <2>1, <2>2
    <2>4. SequencesApart'
        BY <1>2, <2>1
    <2>5. QED BY <2>3, <2>4
<1>10. ASSUME NEW c \in Conv, CounterSetBack(c) PROVE FALSE
    BY <1>1, <1>10 DEF CounterSetBack
<1>11. CASE Finished
    BY <1>2, <1>11 DEF Finished, vars
<1>12. QED
    BY <1>3, <1>4, <1>5, <1>6, <1>7, <1>8, <1>9, <1>10, <1>11 DEF Next, Serve, Allocate, Transact

\* As long as Redis and the floor read have not failed, no call is given a sequence
\* that another one was given, and none goes round the retry loop again:
\* RetriesOnlyAfterFaults, of INCR and SET NX in SequenceSource.Next.
THEOREM SendRetriesOnlyAfterFaults == Spec => []RetriesOnlyAfterFaults
<1>1. Init => FaultFree
    BY DEF Init, FaultFree, CounterAhead, SequencesApart, FirstAttempts, Allocated
<1>2. TypeOK /\ FaultFree /\ [Next]_vars => FaultFree'
    <2>1. CASE UNCHANGED vars
        BY <2>1 DEF vars, FaultFree, CounterAhead, SequencesApart, FirstAttempts, Allocated,
           SlotTaken, conv
    <2>2. QED BY <2>1, FaultFreeStep
<1>3. FaultFree => RetriesOnlyAfterFaults
    BY DEF FaultFree, FirstAttempts, RetriesOnlyAfterFaults
<1>4. QED BY <1>1, <1>2, <1>3, TypeCorrect, PTL DEF Spec

-----------------------------------------------------------------------------
(***************************************************************************)
(* The send path implements MessageLog: Commit records, Reply and Replay   *)
(* acknowledge, a last conflict and Die fail, every other step stutters.   *)
(***************************************************************************)
Outcome == [r \in Req |->
    IF answer[r] \in {"created", "replayed"} THEN "ok"
    ELSE IF pc[r] \in {"done", "dead"} THEN "failed" ELSE "none"]
Got == [r \in Req |-> IF answer[r] \in {"created", "replayed"} THEN seq[r] ELSE 0]

\* A step that records nothing and tells no caller anything is a stutter.
LEMMA LogStutter ==
    ASSUME messages' = messages, key' = key, Outcome' = Outcome, Got' = Got
    PROVE  UNCHANGED Log!logVars
    BY DEF Log!logVars, Outcome, Got

LEMMA SendStepIsLogStep == SendInv /\ [Next]_vars => [Log!LogNext]_(Log!logVars)
<1> SUFFICES ASSUME SendInv, [Next]_vars PROVE [Log!LogNext]_(Log!logVars)
    OBVIOUS
<1> TypeOK /\ AnswersRecorded
    BY DEF SendInv
<1> USE DEF TypeOK, Goto
<1>1. ASSUME NEW r \in Req, Start(r) \/ Allocate(r) PROVE UNCHANGED Log!logVars
    <2>1. messages' = messages /\ key' = key /\ answer' = answer
        BY <1>1 DEF Start, Allocate, CheckCounter, ReadFloor, Bootstrap, Increment, NextFromPG
    <2>2. /\ \A q \in Req : pc'[q] \in {"done", "dead"} <=> pc[q] \in {"done", "dead"}
          /\ \A q \in Req \ {r} : seq'[q] = seq[q]
          /\ answer[r] = "none"
        BY <1>1 DEF Start, Allocate, CheckCounter, ReadFloor, Bootstrap, Increment, NextFromPG,
           AnswersRecorded
    <2>3. Outcome' = Outcome /\ Got' = Got
        BY <2>1, <2>2 DEF Outcome, Got
    <2>4. QED BY <2>1, <2>3, LogStutter
<1>2. ASSUME NEW r \in Req, InsertCollapsed(r) \/ InsertRow(r) \/ Persist(r) \/ Append(r)
      PROVE UNCHANGED Log!logVars
    <2>1. messages' = messages /\ key' = key /\ answer' = answer /\ seq' = seq
        BY <1>2 DEF InsertCollapsed, InsertRow, Persist, Append
    <2>2. \A q \in Req : pc'[q] \in {"done", "dead"} <=> pc[q] \in {"done", "dead"}
        BY <1>2 DEF InsertCollapsed, InsertRow, Persist, Append
    <2>3. Outcome' = Outcome /\ Got' = Got
        BY <2>1, <2>2 DEF Outcome, Got
    <2>4. QED BY <2>1, <2>3, LogStutter
<1>3. ASSUME NEW r \in Req, InsertConflict(r) PROVE [Log!LogNext]_(Log!logVars)
    <2>1. /\ messages' = messages /\ key' = key /\ seq' = seq
          /\ pc[r] = "insert" /\ answer[r] = "none"
        BY <1>3 DEF InsertConflict, AnswersRecorded
    <2>2. CASE attempt[r] < MaxSendRetries
        <3>1. answer' = answer /\ pc' = [pc EXCEPT ![r] = "exists"]
            BY <1>3, <2>2, RetriesAssumption DEF InsertConflict
        <3>2. Outcome' = Outcome /\ Got' = Got
            BY <2>1, <3>1 DEF Outcome, Got
        <3>3. QED BY <2>1, <3>2, LogStutter
    <2>3. CASE ~(attempt[r] < MaxSendRetries)
        <3>1. /\ answer' = [answer EXCEPT ![r] = "conflict"]
              /\ pc' = [pc EXCEPT ![r] = "done"]
            BY <1>3, <2>3 DEF InsertConflict
        <3>2. /\ Outcome[r] = "none" /\ Outcome' = [Outcome EXCEPT ![r] = "failed"]
              /\ Got' = Got
            BY <2>1, <3>1 DEF Outcome, Got
        <3>3. Log!Fail(r)
            BY <2>1, <3>2 DEF Log!Fail, Outcome, Got
        <3>4. QED BY <3>3 DEF Log!LogNext
    <2>4. QED BY <2>2, <2>3
<1>4. ASSUME NEW r \in Req, Replay(r) PROVE Log!LogNext
    <2>1. PICK m \in messages : m.key = key[r] /\ seq' = [seq EXCEPT ![r] = m.seq]
        BY <1>4 DEF Replay
    <2>2. /\ messages' = messages /\ key' = key /\ pc[r] = "replay" /\ answer[r] = "none"
          /\ answer' = [answer EXCEPT ![r] = "replayed"]
          /\ pc' = [pc EXCEPT ![r] = "done"]
        BY <1>4 DEF Replay, AnswersRecorded
    <2>3. /\ Outcome[r] = "none" /\ Outcome' = [Outcome EXCEPT ![r] = "ok"]
          /\ Got' = [Got EXCEPT ![r] = m.seq]
        BY <2>1, <2>2 DEF Outcome, Got
    <2>4. Log!Acknowledge(r)
        BY <2>1, <2>2, <2>3 DEF Log!Acknowledge, Outcome, Got
    <2>5. QED BY <2>4 DEF Log!LogNext
<1>5. ASSUME NEW r \in Req, Commit(r) PROVE Log!LogNext
    <2> DEFINE row == [key |-> key[r], seq |-> seq[r]]
    <2>1. /\ messages' = messages \cup {row} /\ key' = key /\ seq' = seq /\ answer' = answer
          /\ pc[r] = "commit" /\ answer[r] = "none"
          /\ pc' = [pc EXCEPT ![r] = "reply"]
        BY <1>5 DEF Commit, AnswersRecorded
    <2>2. ~KeyTaken(key[r]) /\ ~SlotTaken(conv(r), seq[r])
        BY <2>1 DEF SendInv, OpenRowsApart, Uncommitted
    <2>3. Outcome[r] = "none" /\ Outcome' = Outcome /\ Got' = Got
        BY <2>1 DEF Outcome, Got
    <2>4. Log!Record(r)
        <3>1. ~Log!Recorded(key[r]) /\ ~Log!Used(ConvOf[row.key], row.seq)
            BY <2>2 DEF Log!Recorded, Log!Used, KeyTaken, SlotTaken, conv
        <3>2. QED BY <2>1, <2>3, <3>1 DEF Log!Record, Outcome, Got
    <2>5. QED BY <2>4 DEF Log!LogNext
<1>6. ASSUME NEW r \in Req, Reply(r) PROVE Log!LogNext
    <2>1. /\ messages' = messages /\ key' = key /\ seq' = seq
          /\ pc[r] = "reply" /\ answer[r] = "none"
          /\ answer' = [answer EXCEPT ![r] = "created"]
          /\ pc' = [pc EXCEPT ![r] = "done"]
          /\ [key |-> key[r], seq |-> seq[r]] \in messages
        BY <1>6 DEF Reply, AnswersRecorded
    <2>2. /\ Outcome[r] = "none" /\ Outcome' = [Outcome EXCEPT ![r] = "ok"]
          /\ Got' = [Got EXCEPT ![r] = seq[r]]
        BY <2>1 DEF Outcome, Got
    <2>3. Log!Acknowledge(r)
        BY <2>1, <2>2 DEF Log!Acknowledge, Outcome, Got
    <2>4. QED BY <2>3 DEF Log!LogNext
<1>7. ASSUME NEW r \in Req, Die(r) PROVE Log!LogNext
    <2>1. /\ messages' = messages /\ key' = key /\ seq' = seq /\ answer' = answer
          /\ pc[r] \notin {"done", "dead"} /\ answer[r] = "none"
          /\ pc' = [pc EXCEPT ![r] = "dead"]
        BY <1>7 DEF Die, AnswersRecorded
    <2>2. /\ Outcome[r] = "none" /\ Outcome' = [Outcome EXCEPT ![r] = "failed"]
          /\ Got' = Got
        BY <2>1 DEF Outcome, Got
    <2>3. Log!Fail(r)
        BY <2>1, <2>2 DEF Log!Fail, Outcome, Got
    <2>4. QED BY <2>3 DEF Log!LogNext
<1>8. ASSUME (\E c \in Conv : CounterSetBack(c)) \/ Finished \/ UNCHANGED vars
      PROVE UNCHANGED Log!logVars
    <2>1. messages' = messages /\ key' = key /\ answer' = answer /\ seq' = seq /\ pc' = pc
        BY <1>8 DEF CounterSetBack, Finished, vars
    <2>2. Outcome' = Outcome /\ Got' = Got
        BY <2>1 DEF Outcome, Got
    <2>3. QED BY <2>1, <2>2, LogStutter
<1>9. QED
    BY <1>1, <1>2, <1>3, <1>4, <1>5, <1>6, <1>7, <1>8 DEF Next, Serve, Transact

\* What SendMessage promises its callers, with Redis losing its counters, calls
\* racing and dying at any step: ImplementsLog.
THEOREM SendImplementsLog == Spec => ImplementsLog
<1>1. Init => Log!LogInit
    BY DEF Init, Log!LogInit
<1>2. QED
    BY <1>1, SendStepIsLogStep, SendInvariant, PTL DEF Spec, ImplementsLog, Log!LogSpec
=============================================================================
