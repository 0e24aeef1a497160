-------------------------- MODULE MembershipProofs --------------------------
(***************************************************************************)
(* Proofs about Membership for every set of users, calls, operations and   *)
(* requested sequences, and every number of messages.                      *)
(*                                                                         *)
(* A property of the committed rows is not inductive by itself: a call     *)
(* writes back a row it read earlier.  Each invariant below says of every  *)
(* copy a call holds, and of every row an open transaction has written,    *)
(* what the property says of the committed row: a stale copy may move a    *)
(* row back, but only to a state that was true once and still is.          *)
(***************************************************************************)
EXTENDS Membership, TLAPS

\* GREATEST returns one of its arguments and is at least both.
LEMMA GreatestBounds ==
    ASSUME NEW a \in Nat, NEW b \in Nat
    PROVE  /\ Greatest(a, b) \in {a, b}
           /\ a <= Greatest(a, b)
           /\ b <= Greatest(a, b)
    BY DEF Greatest

USE DEF tables, locals, Steps, Goto

\* The rows of a conversation's start are rows.
LEMMA NoRowType == NoRow \in Row /\ \A role \in Roles : NewRow(role) \in Row
<1>1. 0 \in Nat /\ "member" \in Roles
    BY DEF Roles
<1>2. \A role \in Roles : NewRow(role) \in Row
    BY <1>1 DEF NewRow, Row
<1>3. \A row \in Row : [row EXCEPT !.left = TRUE] \in Row
    BY DEF Row
<1>4. QED BY <1>1, <1>2, <1>3 DEF NoRow

\* A written row: nobody's or a user's.
LEMMA AdvanceType ==
    ASSUME NEW row \in Row, NEW r \in Nat, NEW d \in Nat
    PROVE  /\ Advance(row, r, d) \in Row
           /\ Advance(row, r, d).read = Greatest(row.read, r)
           /\ Advance(row, r, d).delivered = Greatest(Greatest(row.delivered, r), d)
           /\ Advance(row, r, d).left = row.left
           /\ Advance(row, r, d).role = row.role
           /\ Advance(row, r, d).pinned = row.pinned
           /\ Advance(row, r, d).archived = row.archived
<1>1. Greatest(row.read, r) \in Nat /\ Greatest(Greatest(row.delivered, r), d) \in Nat
    BY DEF Greatest, Row
<1>2. QED BY <1>1 DEF Advance, Row

LEMMA ChangedType ==
    ASSUME NEW row \in Row, NEW op \in Prefs
    PROVE  /\ Changed(row, op) \in Row
           /\ Changed(row, op).read = row.read
           /\ Changed(row, op).delivered = row.delivered
           /\ Changed(row, op).left = row.left
           /\ Changed(row, op).role = row.role
           /\ ~(row.pinned /\ row.archived)
                 => ~(Changed(row, op).pinned /\ Changed(row, op).archived)
<1>1. CASE op = "pin" BY <1>1 DEF Changed, Row
<1>2. CASE op = "unpin" BY <1>2 DEF Changed, Row
<1>3. CASE op = "archive" BY <1>3 DEF Changed, Row
<1>4. CASE op = "unarchive" BY <1>4 DEF Changed, Row
<1>5. CASE op = "mute" BY <1>5 DEF Changed, Row
<1>6. QED BY <1>1, <1>2, <1>3, <1>4, <1>5 DEF Prefs

LEMMA AskedType ==
    ASSUME NEW op \in Ops \cup {"none"}, NEW u \in User
    PROVE  Asking(op, u) \in Asked
    BY DEF Asking, Asked, Roles

\* So do the questions of the other operations.
LEMMA AskedMore ==
    ASSUME NEW asked \in Asked
    PROVE  /\ \A s \in Nat, d \in Nat :
                [asked EXCEPT !.read = s, !.delivered = d] \in Asked
           /\ \A users \in SUBSET User : [asked EXCEPT !.on = users] \in Asked
           /\ \A users \in SUBSET User, role \in Roles :
                [asked EXCEPT !.on = users, !.role = role] \in Asked
    BY DEF Asked

\* The receipts a call appends are receipts of the reader.
LEMMA ReceiptsType ==
    ASSUME TypeOK, NEW k \in Call, NEW row
    PROVE  ReadReceipts(k, row) \cup DeliveredReceipts(k, row) \in SUBSET Receipt
<1> DEFINE upTo == Greatest(mine[k].delivered, Greatest(call[k].delivered, call[k].read))
<1>1. /\ call[k].by \in User /\ call[k].read \in Nat /\ call[k].delivered \in Nat
      /\ mine[k].read \in Nat /\ mine[k].delivered \in Nat
    BY DEF TypeOK, Row, Asked
<1>2. \A from, to : SendersBetween(from, to) \subseteq User
    BY SeqAssumption DEF SendersBetween, TypeOK
<1>3. ReadReceipts(k, row) \subseteq Receipt
    <2>1. ASSUME ReadsOn(k, row) PROVE call[k].read \in Nat \ {0}
        BY <1>1, <2>1 DEF ReadsOn
    <2>2. ASSUME SendersBetween(mine[k].read, call[k].read) # {}
          PROVE SendersBetween(mine[k].read, call[k].read) \in (SUBSET User) \ {{}}
        BY <1>2, <2>2
    <2>3. QED BY <1>1, <2>1, <2>2 DEF ReadReceipts, Receipt
<1>4. DeliveredReceipts(k, row) \subseteq Receipt
    <2>1. upTo \in Nat
        BY <1>1 DEF Greatest
    <2>2. upTo > mine[k].delivered => upTo \in Nat \ {0}
        BY <1>1, <2>1
    <2>3. {call[k].by} \in (SUBSET User) \ {{}}
        BY <1>1
    <2>4. QED BY <1>1, <2>2, <2>3 DEF DeliveredReceipts, Receipt
<1>5. QED BY <1>3, <1>4

LEMMA EndType == ASSUME TypeOK, NEW k \in Call, End(k)
    PROVE /\ pc' \in [Call -> Steps]
          /\ call' \in [Call -> Asked]
          /\ mine' \in [Call -> Row]
          /\ found' \in [Call -> Row]
          /\ adding' \in [Call -> SUBSET User]
          /\ DOMAIN wrote' = Call
          /\ \A j \in Call : DOMAIN wrote'[j] \subseteq User /\ wrote'[j] \in [DOMAIN wrote'[j] -> Row]
          /\ pending' \in [Call -> SUBSET Receipt]
          /\ closing' \in [Call -> BOOLEAN]
          /\ ahead' \in [Call -> SUBSET (User \X (1..MaxSeq))]
<1>1. Asking("none", Creator) \in Asked
    BY AskedType, CreatorAssumption
<1>2. NoRows \in [{} -> Row] /\ DOMAIN NoRows = {}
    BY DEF NoRows
<1>3. QED BY <1>1, <1>2, NoRowType DEF TypeOK, End

LEMMA TypeInit == ASSUME Init PROVE TypeOK
<1>1. Asking("none", Creator) \in Asked
    BY AskedType, CreatorAssumption
<1>2. NoRows \in [{} -> Row] /\ DOMAIN NoRows = {}
    BY DEF NoRows
<1>3. QED BY <1>1, <1>2, NoRowType, SeqAssumption DEF Init, TypeOK, Roles

\* A rule for the steps that write rows of their transaction.
LEMMA WroteType ==
    ASSUME TypeOK, NEW k \in Call, NEW users \in SUBSET User, NEW rows \in [users -> Row],
           wrote' = [wrote EXCEPT ![k] = rows]
    PROVE  /\ DOMAIN wrote' = Call
           /\ \A j \in Call :
                 DOMAIN wrote'[j] \subseteq User /\ wrote'[j] \in [DOMAIN wrote'[j] -> Row]
    BY DEF TypeOK

\* Every step of a call keeps the types.
LEMMA TypeStep == ASSUME TypeOK, [Next]_vars PROVE TypeOK'
<1>1. ASSUME NEW k \in Call, NEW asked \in Asked,
             NEW next \in Steps, Begin(k, asked, next) PROVE TypeOK'
    BY <1>1 DEF Begin, TypeOK, Asked
<1>2. ASSUME NEW k \in Call, BeginMarkRead(k) PROVE TypeOK'
    <2>1. PICK u \in User, s \in Named, d \in {0} \cup Named :
              Begin(k, [Asking("read", u) EXCEPT !.read = s, !.delivered = d], "select")
        BY <1>2 DEF BeginMarkRead
    <2>2. [Asking("read", u) EXCEPT !.read = s, !.delivered = d] \in Asked
        <3>1. "read" \in Ops
            BY <2>1 DEF Begin, Asking
        <3>2. s \in Nat /\ d \in Nat
            BY SeqAssumption
        <3>3. QED BY <3>1, <3>2, AskedType, AskedMore
    <2>3. QED BY <1>1, <2>1, <2>2
<1>3. ASSUME NEW k \in Call, BeginPrefs(k) PROVE TypeOK'
    <2>1. PICK op \in Prefs, u \in User : Begin(k, Asking(op, u), "update")
        BY <1>3 DEF BeginPrefs
    <2>2. Asking(op, u) \in Asked
        BY <2>1, AskedType DEF Begin, Asking
    <2>3. QED BY <1>1, <2>1, <2>2
<1>4. ASSUME NEW k \in Call, BeginMembers(k) PROVE TypeOK'
    <2>1. ASSUME NEW u \in User, NEW t \in User,
                 Begin(k, [Asking("remove", u) EXCEPT !.on = {t}], "look") PROVE TypeOK'
        <3>1. [Asking("remove", u) EXCEPT !.on = {t}] \in Asked
            BY <2>1, AskedType, AskedMore DEF Begin, Asking
        <3>2. QED BY <1>1, <2>1, <3>1
    <2>2. ASSUME NEW u \in User, NEW t \in User, NEW role \in Roles,
                 Begin(k, [Asking("role", u) EXCEPT !.on = {t}, !.role = role], "look")
          PROVE TypeOK'
        <3>1. [Asking("role", u) EXCEPT !.on = {t}, !.role = role] \in Asked
            BY <2>2, AskedType, AskedMore DEF Begin, Asking
        <3>2. QED BY <1>1, <2>2, <3>1
    <2>3. ASSUME NEW u \in User, NEW users \in SUBSET User,
                 Begin(k, [Asking("add", u) EXCEPT !.on = users], "look") PROVE TypeOK'
        <3>1. [Asking("add", u) EXCEPT !.on = users] \in Asked
            BY <2>3, AskedType, AskedMore DEF Begin, Asking
        <3>2. QED BY <1>1, <2>3, <3>1
    <2>4. QED BY <1>4, <2>1, <2>2, <2>3 DEF BeginMembers
<1>5. ASSUME NEW k \in Call, SelectCursors(k) PROVE TypeOK'
    BY <1>5 DEF SelectCursors, TypeOK, Asked
<1>6. ASSUME NEW k \in Call, UpdateCursors(k) PROVE TypeOK'
    <2> DEFINE row == Advance(members[call[k].by], call[k].read, call[k].delivered)
    <2>1. row \in Row
        BY AdvanceType DEF TypeOK, Asked
    <2>2. /\ wrote' = [wrote EXCEPT ![k] = [u \in {call[k].by} |-> row]]
          /\ pc' = [pc EXCEPT ![k] = "senders"]
          /\ UNCHANGED <<tables, call, mine, found, adding, pending, closing, ahead>>
        BY <1>6 DEF UpdateCursors
    <2>3. {call[k].by} \in SUBSET User
        BY DEF TypeOK, Asked
    <2> HIDE DEF row
    <2>4. [u \in {call[k].by} |-> row] \in [{call[k].by} -> Row]
        BY <2>1
    <2>5. QED BY <2>1, <2>2, <2>3, <2>4, WroteType DEF TypeOK
<1>7. ASSUME NEW k \in Call, UpdatePrefs(k) PROVE TypeOK'
    <2>1. Changed(mine[k], call[k].op) \in Row /\ {call[k].by} \in SUBSET User
        BY <1>7, ChangedType DEF UpdatePrefs, TypeOK, Asked
    <2>2. [u \in {call[k].by} |-> Changed(mine[k], call[k].op)] \in [{call[k].by} -> Row]
        BY <2>1
    <2>3. QED BY <1>7, <2>1, <2>2, WroteType DEF UpdatePrefs, TypeOK
<1>8. ASSUME NEW k \in Call, LookUpTarget(k) PROVE TypeOK'
    BY <1>8 DEF LookUpTarget, TypeOK, Asked
<1>9. ASSUME NEW k \in Call, UpdateRole(k) PROVE TypeOK'
    <2>1. call[k].on \in SUBSET User /\ [found[k] EXCEPT !.role = call[k].role] \in Row
        <3>1. \A row \in Row, role \in Roles : [row EXCEPT !.role = role] \in Row
            BY DEF Row
        <3>2. found[k] \in Row /\ call[k].role \in Roles /\ call[k].on \in SUBSET User
            BY DEF TypeOK, Asked
        <3>3. QED BY <3>1, <3>2
    <2>2. [u \in call[k].on |-> [found[k] EXCEPT !.role = call[k].role]] \in [call[k].on -> Row]
        BY <2>1
    <2>3. QED BY <1>9, <2>1, <2>2, WroteType DEF UpdateRole, TypeOK
<1>10. ASSUME NEW k \in Call, RemoveRow(k) PROVE TypeOK'
    <2> DEFINE users == {t \in call[k].on : Active(t)}
    <2>1. users \in SUBSET User
        BY DEF TypeOK, Asked
    <2> DEFINE rows == [u \in users |-> [members[u] EXCEPT !.left = TRUE]]
    <2>2. rows \in [users -> Row]
        <3>1. \A row \in Row : [row EXCEPT !.left = TRUE] \in Row
            BY DEF Row
        <3>2. \A u \in users : members[u] \in Row
            BY <2>1 DEF TypeOK
        <3> HIDE DEF users
        <3>3. QED BY <3>1, <3>2
    <2>3. wrote' = [wrote EXCEPT ![k] = rows]
        BY <1>10 DEF RemoveRow
    <2> HIDE DEF rows, users
    <2>4. QED BY <1>10, <2>1, <2>2, <2>3, WroteType DEF RemoveRow, TypeOK
<1>11. ASSUME NEW k \in Call, CountActive(k) PROVE TypeOK'
    BY <1>11 DEF CountActive, TypeOK
<1>12. ASSUME NEW k \in Call, LookUpMembers(k) PROVE TypeOK'
    <2>1. Candidates(k) \in SUBSET User
        BY DEF Candidates, TypeOK, Asked
    <2>2. QED BY <1>12, <2>1 DEF LookUpMembers, TypeOK
<1>13. ASSUME NEW k \in Call, Upsert(k) PROVE TypeOK'
    <2>1. adding[k] \in SUBSET User
        BY DEF TypeOK
    <2>2. [u \in adding[k] |-> [members[u] EXCEPT !.left = FALSE, !.role = "member"]]
              \in [adding[k] -> Row]
        <3>1. \A row \in Row : [row EXCEPT !.left = FALSE, !.role = "member"] \in Row
            BY DEF Row, Roles
        <3>2. QED BY <2>1, <3>1 DEF TypeOK
    <2>3. QED BY <1>13, <2>1, <2>2, WroteType DEF Upsert, TypeOK
<1>14. ASSUME NEW k \in Call, Commit(k) PROVE TypeOK'
    <2>1. DOMAIN wrote[k] \subseteq User /\ wrote[k] \in [DOMAIN wrote[k] -> Row]
        BY DEF TypeOK
    <2>2. members' \in [User -> Row] /\ tombstoned' \in BOOLEAN
          /\ receipts' \subseteq Receipt /\ departed' \subseteq User
          /\ sent' \subseteq 1..MaxSeq /\ early' \subseteq User \X (1..MaxSeq)
        BY <1>14, <2>1 DEF Commit, TypeOK
    <2>3. QED BY <1>14, <2>2, EndType DEF Commit, TypeOK
<1>15. ASSUME NEW k \in Call, Fail(k) PROVE TypeOK'
    BY <1>15, EndType DEF Fail, TypeOK
<1>16. ASSUME UNCHANGED vars PROVE TypeOK'
    BY <1>16 DEF vars, TypeOK
<1>17. ASSUME NEW k \in Call, ListSenders(k) PROVE TypeOK'
    <2> DEFINE row == wrote[k][call[k].by]
    <2>1. ReadReceipts(k, row) \cup DeliveredReceipts(k, row) \in SUBSET Receipt
        BY ReceiptsType
    <2>2. {<<call[k].by, s>> : s \in Ahead(k, row)} \subseteq User \X (1..MaxSeq)
        BY DEF Ahead, TypeOK, Asked
    <2>3. /\ pc' = [pc EXCEPT ![k] = "commit"]
          /\ pending' = [pending EXCEPT ![k] =
                            ReadReceipts(k, row) \cup DeliveredReceipts(k, row)]
          /\ ahead' = [ahead EXCEPT ![k] = {<<call[k].by, s>> : s \in Ahead(k, row)}]
          /\ UNCHANGED <<tables, call, mine, found, adding, wrote, closing>>
        BY <1>17 DEF ListSenders
    <2> HIDE DEF row
    <2>4. QED BY <2>1, <2>2, <2>3 DEF TypeOK
<1>18. ASSUME NEW s \in 1..MaxSeq, Send(s) PROVE TypeOK'
    BY <1>18 DEF Send, TypeOK
<1>19. QED
    BY <1>2, <1>3, <1>4, <1>5, <1>6, <1>7, <1>8, <1>9, <1>10, <1>11, <1>12, <1>13,
       <1>14, <1>15, <1>16, <1>17, <1>18 DEF Next

\* Every row, receipt and copy keeps its type, and no receipt is appended for nobody
\* (receipts.go:61): TypeOK.
THEOREM MembershipTypes == Spec => []TypeOK
<1>1. QED BY TypeInit, TypeStep, PTL DEF Spec

-----------------------------------------------------------------------------
(***************************************************************************)
(* ReceiptsReachSenders.                                                   *)
(***************************************************************************)

\* Whose row the second read of a call returns.
Source(k) == IF call[k].op = "read" THEN {call[k].by} ELSE call[k].on

\* The row MarkRead has written before it lists the senders: an advance of a row
\* that has been told.
ToldBefore(k) ==
    /\ call[k].op = "read"
    /\ DOMAIN wrote[k] = {call[k].by}
    /\ \E cur \in Row :
          /\ Told(receipts, early, call[k].by, cur)
          /\ wrote[k][call[k].by] = Advance(cur, call[k].read, call[k].delivered)

\* Every copy a call holds has been told, and what it has written will be.
ToldCall(k) ==
    /\ Told(receipts, early, call[k].by, mine[k])
    /\ \A u \in Source(k) : Told(receipts, early, u, found[k])
    /\ pc[k] = "senders" => ToldBefore(k)
    /\ pc[k] # "senders" =>
          \A u \in DOMAIN wrote[k] :
              Told(receipts \cup pending[k], early \cup ahead[k], u, wrote[k][u])

ToldInv ==
    /\ \A u \in User : Told(receipts, early, u, members[u])
    /\ \A k \in Call : ToldCall(k)

\* More receipts tell more; the preferences and the role of a row do not matter.
LEMMA ToldMore ==
    ASSUME NEW told, NEW more, told \subseteq more, NEW un, NEW un2, un \subseteq un2,
           NEW u, NEW row, NEW row2,
           row2.read = row.read, row2.delivered = row.delivered, Told(told, un, u, row)
    PROVE  Told(more, un2, u, row2)
<1>1. ASSUME NEW s \in 1..MaxSeq, s <= row2.read
      PROVE \/ <<u, s>> \in un2
            \/ \E e \in more :
                  e.kind = "read" /\ e.user = u /\ s <= e.upTo /\ SenderOf[s] \in e.to
    BY <1>1 DEF Told
<1>2. row2.delivered > 0 => \E e \in more :
          e.kind = "delivered" /\ e.user = u /\ row2.delivered <= e.upTo
    BY DEF Told
<1>3. QED BY <1>1, <1>2 DEF Told

LEMMA ToldNoRow == \A told, un, u : Told(told, un, u, NoRow)
<1>1. NoRow.read = 0 /\ NoRow.delivered = 0
    BY DEF NoRow, NewRow
<1>2. \A s \in 1..MaxSeq : ~(s <= 0)
    BY SeqAssumption
<1>3. QED BY <1>1, <1>2 DEF Told

\* The heart of the argument: whichever committed state mine and found were read
\* in, the receipts MarkRead appends, and what it looked for too early, close the
\* gap to the row it writes.
LEMMA AdvanceTold ==
    ASSUME TypeOK, NEW k \in Call, NEW u \in User, u = call[k].by,
           NEW cur \in Row, Told(receipts, early, u, cur),
           Told(receipts, early, u, mine[k]), Told(receipts, early, u, found[k]),
           NEW row, row = Advance(cur, call[k].read, call[k].delivered)
    PROVE  Told(receipts \cup ReadReceipts(k, row) \cup DeliveredReceipts(k, row),
                early \cup {<<u, s>> : s \in Ahead(k, row)}, u, row)
<1> DEFINE told == receipts \cup ReadReceipts(k, row) \cup DeliveredReceipts(k, row)
           un == early \cup {<<u, s>> : s \in Ahead(k, row)}
           upToD == Greatest(mine[k].delivered, Greatest(call[k].delivered, call[k].read))
           Reached(s) == \/ <<u, s>> \in un
                         \/ \E e \in told : /\ e.kind = "read" /\ e.user = u
                                            /\ s <= e.upTo /\ SenderOf[s] \in e.to
<1>1. /\ mine[k] \in Row /\ found[k] \in Row
      /\ call[k].read \in Nat /\ call[k].delivered \in Nat
    BY DEF TypeOK, Asked
<1>2. /\ row.read = Greatest(cur.read, call[k].read)
      /\ row.delivered = Greatest(Greatest(cur.delivered, call[k].read), call[k].delivered)
    BY <1>1, AdvanceType
<1>3. /\ cur.read \in Nat /\ mine[k].read \in Nat /\ found[k].read \in Nat
      /\ cur.delivered \in Nat /\ mine[k].delivered \in Nat /\ found[k].delivered \in Nat
      /\ row.read \in Nat
    BY <1>1, <1>2 DEF Row, Greatest
<1>4. ASSUME NEW s \in 1..MaxSeq, s <= row.read PROVE Reached(s)
    <2>1. ASSUME NEW old, Told(receipts, early, u, old), s <= old.read PROVE Reached(s)
        BY <2>1 DEF Told
    <2>2. CASE s <= cur.read
        BY <2>1, <2>2
    <2>3. CASE s <= mine[k].read
        BY <2>1, <2>3
    <2>4. CASE s <= found[k].read
        BY <2>1, <2>4
    <2>5. CASE s > cur.read /\ s > mine[k].read /\ s > found[k].read
        <3> DEFINE e == [kind |-> "read", user |-> call[k].by, upTo |-> call[k].read,
                         to |-> SendersBetween(mine[k].read, call[k].read)]
        <3>1. s \in Nat
            BY SeqAssumption
        <3>2. s <= call[k].read /\ row.read > found[k].read /\ call[k].read > mine[k].read
            BY <1>1, <1>2, <1>3, <1>4, <2>5, <3>1 DEF Greatest
        <3>3. ReadsOn(k, row)
            BY <3>2 DEF ReadsOn
        <3>4. CASE s \notin sent
            <4>1. mine[k].read < s
                BY <1>3, <2>5, <3>1
            <4>2. s \in Ahead(k, row)
                BY <3>2, <3>3, <3>4, <4>1 DEF Ahead
            <4>3. QED BY <4>2
        <3>5. CASE s \in sent
            <4>1. mine[k].read < s
                BY <1>3, <2>5, <3>1
            <4>2. SenderOf[s] \in SendersBetween(mine[k].read, call[k].read)
                BY <3>2, <3>5, <4>1 DEF SendersBetween
            <4>3. e \in ReadReceipts(k, row)
                BY <3>3, <4>2 DEF ReadReceipts
            <4>4. e.kind = "read" /\ e.user = u /\ s <= e.upTo /\ SenderOf[s] \in e.to
                BY <3>2, <4>2
            <4>5. QED BY <4>3, <4>4
        <3>6. QED BY <3>4, <3>5
    <2>6. s \in Nat
        BY SeqAssumption
    <2>7. QED BY <2>2, <2>3, <2>4, <2>5, <2>6, <1>3
<1>5. ASSUME row.delivered > 0
      PROVE \E e \in told : e.kind = "delivered" /\ e.user = u /\ row.delivered <= e.upTo
    <2>5. row.delivered \in Nat
        BY <1>1, <1>2, <1>3 DEF Greatest
    <2>6. ASSUME NEW old \in Row, Told(receipts, early, u, old), row.delivered <= old.delivered,
                 old.delivered \in Nat
          PROVE \E e \in told : e.kind = "delivered" /\ e.user = u /\ row.delivered <= e.upTo
        <3>1. old.delivered > 0
            BY <1>5, <2>5, <2>6
        <3>2. PICK e \in receipts :
                  e.kind = "delivered" /\ e.user = u /\ old.delivered <= e.upTo
            BY <2>6, <3>1 DEF Told
        <3>3. e.upTo \in Nat
            BY DEF TypeOK, Receipt
        <3>4. QED BY <2>5, <2>6, <3>2, <3>3
    <2>1. CASE row.delivered <= cur.delivered
        BY <2>1, <2>6, <1>1, <1>3
    <2>2. CASE row.delivered <= mine[k].delivered
        BY <2>2, <2>6, <1>1, <1>3
    <2>3. CASE row.delivered <= found[k].delivered
        BY <2>3, <2>6, <1>1, <1>3
    <2>4. CASE /\ row.delivered > cur.delivered /\ row.delivered > mine[k].delivered
               /\ row.delivered > found[k].delivered
        <3> DEFINE e == [kind |-> "delivered", user |-> call[k].by, upTo |-> upToD,
                         to |-> {call[k].by}]
        <3>1. upToD > mine[k].delivered /\ row.delivered <= upToD
            BY <2>4, <1>1, <1>2, <1>3 DEF Greatest
        <3>2. e \in DeliveredReceipts(k, row)
            BY <2>4, <3>1 DEF DeliveredReceipts
        <3>3. e.kind = "delivered" /\ e.user = u /\ row.delivered <= e.upTo
            BY <3>1
        <3>4. QED BY <3>2, <3>3
    <2>7. QED BY <2>1, <2>2, <2>3, <2>4, <2>5, <1>3
<1>6. QED BY <1>4, <1>5 DEF Told

\* Steps that leave the tables alone need only look at their own call.
LEMMA ToldLocal ==
    ASSUME TypeOK, ToldInv, NEW k \in Call, UNCHANGED tables, ToldCall(k)',
           \A j \in Call \ {k} :
              /\ call'[j] = call[j] /\ mine'[j] = mine[j] /\ found'[j] = found[j]
              /\ wrote'[j] = wrote[j] /\ pending'[j] = pending[j]
              /\ ahead'[j] = ahead[j] /\ pc'[j] = pc[j]
    PROVE  ToldInv'
<1>1. ASSUME NEW j \in Call \ {k} PROVE ToldCall(j)'
    <2>1. ToldBefore(j) => ToldBefore(j)'
        BY DEF ToldBefore
    <2>2. QED BY <2>1 DEF ToldInv, ToldCall, Source
<1>2. QED BY <1>1 DEF ToldInv

\* A call that has ended holds no copy.
LEMMA ToldEnd == ASSUME TypeOK, NEW k \in Call, End(k) PROVE ToldCall(k)'
<1>1. /\ mine'[k] = NoRow /\ found'[k] = NoRow /\ wrote'[k] = NoRows /\ pc'[k] = "done"
    BY DEF End, TypeOK
<1>2. DOMAIN NoRows = {}
    BY DEF NoRows
<1>3. QED BY <1>1, <1>2, ToldNoRow DEF ToldCall

\* A call that has not begun holds no copy, and one that has is where its
\* operation goes; role changes and removals have one target.
CallInv(k) ==
    /\ pc[k] = "idle" => found[k] = NoRow /\ wrote[k] = NoRows
    /\ pc[k] \in {"select", "senders"} => call[k].op = "read"
    /\ pc[k] = "look" => call[k].op \notin Prefs \cup {"read"}
    /\ call[k].op \in {"role", "remove"} => \E t \in User : call[k].on = {t}

CallsInv == \A k \in Call : CallInv(k)

\* A rule for the steps of a call that keep what it was asked.
LEMMA CallLocal ==
    ASSUME TypeOK, CallsInv, NEW k \in Call, CallInv(k)',
           \A j \in Call \ {k} : /\ pc'[j] = pc[j] /\ call'[j] = call[j]
                                 /\ found'[j] = found[j] /\ wrote'[j] = wrote[j]
    PROVE  CallsInv'
    BY DEF CallsInv, CallInv

LEMMA CallsStep == ASSUME TypeOK, CallsInv, [Next]_vars PROVE CallsInv'
<1>1. ASSUME NEW k \in Call, NEW asked, NEW next, Begin(k, asked, next),
             next # "idle",
             next \in {"select", "senders"} => asked.op = "read",
             next = "look" => asked.op \notin Prefs \cup {"read"},
             asked.op \in {"role", "remove"} => \E t \in User : asked.on = {t}
      PROVE CallsInv'
    <2>1. /\ pc' = [pc EXCEPT ![k] = next] /\ call' = [call EXCEPT ![k] = asked]
          /\ UNCHANGED <<found, wrote>>
        BY <1>1 DEF Begin
    <2>2. CallInv(k)'
        BY <1>1, <2>1 DEF CallInv, TypeOK
    <2>3. QED BY <2>1, <2>2, CallLocal DEF TypeOK
<1>2. ASSUME NEW k \in Call, BeginMarkRead(k) PROVE CallsInv'
    BY <1>1, <1>2 DEF BeginMarkRead, Asking
<1>3. ASSUME NEW k \in Call, BeginPrefs(k) PROVE CallsInv'
    BY <1>1, <1>3 DEF BeginPrefs, Asking, Prefs
<1>4. ASSUME NEW k \in Call, BeginMembers(k) PROVE CallsInv'
    BY <1>1, <1>4 DEF BeginMembers, Asking, Prefs
<1>5. ASSUME NEW k \in Call, pc[k] # "idle", call' = call,
             \E l \in {"update", "senders", "count", "commit"} :
                /\ pc' = [pc EXCEPT ![k] = l]
                /\ l = "senders" => call[k].op = "read",
             \A j \in Call \ {k} : found'[j] = found[j] /\ wrote'[j] = wrote[j]
      PROVE CallsInv'
    <2>1. CallInv(k)'
        BY <1>5 DEF CallsInv, CallInv, TypeOK
    <2>2. QED BY <1>5, <2>1, CallLocal DEF TypeOK
<1>6. ASSUME NEW k \in Call, SelectCursors(k) \/ LookUpTarget(k) \/ LookUpMembers(k)
      PROVE CallsInv'
    BY <1>5, <1>6 DEF SelectCursors, LookUpTarget, LookUpMembers, TypeOK
<1>7. ASSUME NEW k \in Call, \/ UpdateCursors(k) \/ ListSenders(k) \/ UpdatePrefs(k)
                             \/ UpdateRole(k) \/ RemoveRow(k) \/ CountActive(k) \/ Upsert(k)
      PROVE CallsInv'
    BY <1>5, <1>7
       DEF UpdateCursors, ListSenders, UpdatePrefs, UpdateRole, RemoveRow, CountActive, Upsert, TypeOK
<1>8. ASSUME NEW k \in Call, Commit(k) \/ Fail(k) PROVE CallsInv'
    <2>1. End(k)
        BY <1>8 DEF Commit, Fail
    <2>2. CallInv(k)'
        BY <2>1 DEF End, CallInv, TypeOK, Asking
    <2>3. QED BY <2>1, <2>2, CallLocal DEF End, TypeOK
<1>9. ASSUME UNCHANGED <<pc, call, found, wrote>> PROVE CallsInv'
    BY <1>9 DEF CallsInv, CallInv
<1>10. QED BY <1>2, <1>3, <1>4, <1>6, <1>7, <1>8, <1>9 DEF Next, Send, vars

LEMMA ToldStep == ASSUME TypeOK, CallsInv, ToldInv, [Next]_vars PROVE ToldInv'
<1>1. ASSUME NEW k \in Call, NEW asked, NEW next, asked.by \in User, Begin(k, asked, next),
             next # "senders"
      PROVE ToldInv'
    <2>1. /\ call'[k] = asked /\ mine'[k] = members[asked.by] /\ UNCHANGED tables
          /\ found'[k] = NoRow /\ wrote'[k] = NoRows /\ pc'[k] = next
        BY <1>1 DEF Begin, TypeOK, CallsInv, CallInv
    <2>2. DOMAIN NoRows = {}
        BY DEF NoRows
    <2>3. ToldCall(k)'
        BY <1>1, <2>1, <2>2, ToldNoRow DEF ToldInv, ToldCall
    <2>4. QED BY <1>1, <2>1, <2>3, ToldLocal DEF Begin, TypeOK
<1>2. ASSUME NEW k \in Call, BeginMarkRead(k) \/ BeginPrefs(k) \/ BeginMembers(k)
      PROVE ToldInv'
    BY <1>1, <1>2 DEF BeginMarkRead, BeginPrefs, BeginMembers, Asking
<1>3. ASSUME NEW k \in Call, NEW u \in User, Source(k) = {u}, pc[k] # "senders",
             pc' = [pc EXCEPT ![k] = "update"],
             UNCHANGED <<tables, call, mine, wrote, pending, ahead>>,
             found' = [found EXCEPT ![k] = members[u]]
      PROVE ToldInv'
    <2>1. ToldCall(k)'
        BY <1>3 DEF ToldInv, ToldCall, Source, TypeOK
    <2>2. QED BY <1>3, <2>1, ToldLocal DEF TypeOK
<1>4. ASSUME NEW k \in Call, SelectCursors(k) PROVE ToldInv'
    BY <1>3, <1>4 DEF SelectCursors, CallsInv, CallInv, Source, TypeOK, Asked
<1>5. ASSUME NEW k \in Call, LookUpTarget(k) PROVE ToldInv'
    <2>1. PICK t \in call[k].on : found' = [found EXCEPT ![k] = members[t]]
        BY <1>5 DEF LookUpTarget
    <2>2. /\ call[k].op \in {"role", "remove"} /\ pc[k] # "senders"
          /\ UNCHANGED <<tables, call, mine, wrote, pending, ahead>>
          /\ pc' = [pc EXCEPT ![k] = "update"]
        BY <1>5 DEF LookUpTarget
    <2>3. t \in User /\ Source(k) = {t}
        BY <2>2 DEF CallsInv, CallInv, Source
    <2>4. QED BY <1>3, <2>1, <2>2, <2>3
<1>6. ASSUME NEW k \in Call, NEW users \in SUBSET User, NEW rows, DOMAIN rows = users,
             UNCHANGED <<tables, call, mine, found>>,
             wrote' = [wrote EXCEPT ![k] = rows], UNCHANGED <<pending, ahead>>,
             NEW l \in {"commit", "count"}, pc' = [pc EXCEPT ![k] = l],
             \A u \in users : Told(receipts \cup pending[k], early \cup ahead[k], u, rows[u])
      PROVE ToldInv'
    <2>1. pc'[k] # "senders" /\ wrote'[k] = rows
        BY <1>6 DEF TypeOK
    <2>2. ToldCall(k)'
        BY <1>6, <2>1 DEF ToldInv, ToldCall, Source
    <2>3. QED BY <1>6, <2>2, ToldLocal DEF TypeOK
<1>7. ASSUME NEW k \in Call, UpdateCursors(k) PROVE ToldInv'
    <2> DEFINE u == call[k].by
               cur == members[u]
               row == Advance(cur, call[k].read, call[k].delivered)
    <2>1. u \in User /\ cur \in Row
        BY DEF TypeOK, Asked
    <2>2. Told(receipts, early, u, cur)
        BY <2>1 DEF ToldInv
    <2>3. /\ wrote' = [wrote EXCEPT ![k] = [v \in {u} |-> row]]
          /\ pc' = [pc EXCEPT ![k] = "senders"] /\ call[k].op = "read"
          /\ UNCHANGED <<tables, call, mine, found, pending, ahead>>
        BY <1>7 DEF UpdateCursors
    <2>4. wrote'[k] = [v \in {u} |-> row] /\ pc'[k] = "senders"
        BY <2>3 DEF TypeOK
    <2>5. DOMAIN wrote'[k] = {u} /\ wrote'[k][u] = row
        BY <2>4
    <2>6. ToldBefore(k)'
        BY <2>1, <2>2, <2>3, <2>5 DEF ToldBefore
    <2>7. ToldCall(k)'
        BY <2>3, <2>4, <2>6 DEF ToldInv, ToldCall, Source
    <2>8. \A j \in Call \ {k} : wrote'[j] = wrote[j] /\ pc'[j] = pc[j]
        BY <2>3 DEF TypeOK
    <2> HIDE DEF row, cur, u
    <2>9. QED BY <2>3, <2>7, <2>8, ToldLocal
<1>17. ASSUME NEW k \in Call, ListSenders(k) PROVE ToldInv'
    <2> DEFINE u == call[k].by
               row == wrote[k][u]
               told == receipts \cup ReadReceipts(k, row) \cup DeliveredReceipts(k, row)
               un == early \cup {<<u, s>> : s \in Ahead(k, row)}
    <2>1. /\ call[k].op = "read" /\ DOMAIN wrote[k] = {u} /\ u \in User
          /\ Told(receipts, early, u, mine[k]) /\ Told(receipts, early, u, found[k])
        BY <1>17 DEF ListSenders, ToldInv, ToldCall, ToldBefore, Source, TypeOK, Asked
    <2>2. PICK cur \in Row : /\ Told(receipts, early, u, cur)
                             /\ row = Advance(cur, call[k].read, call[k].delivered)
        BY <1>17 DEF ListSenders, ToldInv, ToldCall, ToldBefore
    <2>3. Told(told, un, u, row)
        <3> HIDE DEF row
        <3>1. QED BY <2>1, <2>2, AdvanceTold
    <2>4. /\ pending'[k] = ReadReceipts(k, row) \cup DeliveredReceipts(k, row)
          /\ ahead'[k] = {<<u, s>> : s \in Ahead(k, row)} /\ pc'[k] = "commit"
          /\ UNCHANGED <<tables, call, mine, found, wrote>>
        BY <1>17 DEF ListSenders, TypeOK
    <2>5. receipts \cup pending'[k] = told /\ early \cup ahead'[k] = un
        BY <2>4
    <2>6. \A v \in DOMAIN wrote[k] : Told(told, un, v, wrote[k][v])
        BY <2>1, <2>3
    <2> HIDE DEF row, told, un, u
    <2>7. ToldCall(k)'
        BY <2>4, <2>5, <2>6 DEF ToldInv, ToldCall, Source
    <2>8. \A j \in Call \ {k} : pending'[j] = pending[j] /\ ahead'[j] = ahead[j]
                                /\ pc'[j] = pc[j]
        BY <1>17 DEF ListSenders, TypeOK
    <2>9. QED BY <2>4, <2>7, <2>8, ToldLocal
<1>8. ASSUME NEW k \in Call, UpdatePrefs(k) PROVE ToldInv'
    <2> DEFINE u == call[k].by
               rows == [v \in {u} |-> Changed(mine[k], call[k].op)]
    <2>1. u \in User /\ mine[k] \in Row /\ call[k].op \in Prefs
        BY <1>8 DEF TypeOK, Asked, UpdatePrefs
    <2>2. Told(receipts \cup pending[k], early \cup ahead[k], u, Changed(mine[k], call[k].op))
        <3> DEFINE row == Changed(mine[k], call[k].op)
        <3>1. row.read = mine[k].read /\ row.delivered = mine[k].delivered
            BY <2>1, ChangedType
        <3>2. Told(receipts, early, u, mine[k])
            BY DEF ToldInv, ToldCall
        <3> HIDE DEF row, u
        <3>3. Told(receipts \cup pending[k], early \cup ahead[k], u, row)
            BY <3>1, <3>2, ToldMore
        <3>4. QED BY <3>3 DEF row
    <2>3. /\ wrote' = [wrote EXCEPT ![k] = rows]
          /\ pc' = [pc EXCEPT ![k] = "commit"]
          /\ UNCHANGED <<tables, call, mine, found, pending, ahead>>
        BY <1>8 DEF UpdatePrefs
    <2>4. DOMAIN rows = {u} /\ rows[u] = Changed(mine[k], call[k].op) /\ {u} \in SUBSET User
        BY <2>1
    <2>5. \A v \in {u} : Told(receipts \cup pending[k], early \cup ahead[k], v, rows[v])
        BY <2>2, <2>4
    <2> HIDE DEF rows, u
    <2>6. QED BY <1>6, <2>3, <2>4, <2>5
<1>9. ASSUME NEW k \in Call, UpdateRole(k) PROVE ToldInv'
    <2> DEFINE row == [found[k] EXCEPT !.role = call[k].role]
               rows == [v \in call[k].on |-> row]
    <2>1. found[k] \in Row /\ call[k].on \in SUBSET User
        BY DEF TypeOK, Asked
    <2>2. row.read = found[k].read /\ row.delivered = found[k].delivered
        BY <2>1 DEF Row
    <2>3. \A v \in call[k].on : Told(receipts, early, v, found[k])
        BY <1>9 DEF UpdateRole, ToldInv, ToldCall, Source
    <2>4. \A v \in call[k].on : Told(receipts \cup pending[k], early \cup ahead[k], v, row)
        <3> HIDE DEF row
        <3>1. receipts \subseteq receipts \cup pending[k] /\ early \subseteq early \cup ahead[k]
            OBVIOUS
        <3>2. QED BY <2>2, <2>3, <3>1, ToldMore
    <2>5. /\ wrote' = [wrote EXCEPT ![k] = rows]
          /\ pc' = [pc EXCEPT ![k] = "commit"]
          /\ UNCHANGED <<tables, call, mine, found, pending, ahead>>
        BY <1>9 DEF UpdateRole
    <2>6. DOMAIN rows = call[k].on /\ \A v \in call[k].on : rows[v] = row
        OBVIOUS
    <2>7. \A v \in call[k].on : Told(receipts \cup pending[k], early \cup ahead[k], v, rows[v])
        BY <2>4, <2>6
    <2> HIDE DEF rows, row
    <2>8. QED BY <1>6, <2>1, <2>5, <2>6, <2>7
<1>10. ASSUME NEW k \in Call, RemoveRow(k) PROVE ToldInv'
    <2> DEFINE users == {t \in call[k].on : Active(t)}
               rows == [v \in users |-> [members[v] EXCEPT !.left = TRUE]]
    <2>1. users \in SUBSET User
        BY DEF TypeOK, Asked
    <2>2. \A v \in users : rows[v].read = members[v].read
                           /\ rows[v].delivered = members[v].delivered
        BY <2>1 DEF TypeOK, Row
    <2>3. \A v \in users : Told(receipts, early, v, members[v])
        BY <2>1 DEF ToldInv
    <2>4. /\ wrote' = [wrote EXCEPT ![k] = rows] /\ DOMAIN rows = users
          /\ pc' = [pc EXCEPT ![k] = "count"]
          /\ UNCHANGED <<tables, call, mine, found, pending, ahead>>
        BY <1>10 DEF RemoveRow
    <2> HIDE DEF rows, users
    <2>5. \A v \in users : Told(receipts \cup pending[k], early \cup ahead[k], v, rows[v])
        BY <2>2, <2>3, ToldMore
    <2>6. QED BY <1>6, <2>1, <2>4, <2>5
<1>11. ASSUME NEW k \in Call, CountActive(k) \/ LookUpMembers(k) PROVE ToldInv'
    <2>1. /\ pc[k] # "senders" /\ pc'[k] # "senders"
          /\ UNCHANGED <<tables, call, mine, found, wrote, pending, ahead>>
          /\ \A j \in Call \ {k} : pc'[j] = pc[j]
        BY <1>11 DEF CountActive, LookUpMembers, TypeOK
    <2>2. ToldCall(k)'
        BY <2>1 DEF ToldInv, ToldCall, Source
    <2>3. QED BY <2>1, <2>2, ToldLocal
<1>12. ASSUME NEW k \in Call, Upsert(k) PROVE ToldInv'
    <2> DEFINE users == adding[k]
               rows == [v \in users |-> [members[v] EXCEPT !.left = FALSE, !.role = "member"]]
    <2>1. users \in SUBSET User
        BY DEF TypeOK
    <2>2. \A v \in users : rows[v].read = members[v].read
                           /\ rows[v].delivered = members[v].delivered
        BY <2>1 DEF TypeOK, Row
    <2>3. \A v \in users : Told(receipts, early, v, members[v])
        BY <2>1 DEF ToldInv
    <2>4. /\ wrote' = [wrote EXCEPT ![k] = rows] /\ DOMAIN rows = users
          /\ pc' = [pc EXCEPT ![k] = "commit"]
          /\ UNCHANGED <<tables, call, mine, found, pending, ahead>>
        BY <1>12 DEF Upsert
    <2> HIDE DEF rows, users
    <2>5. \A v \in users : Told(receipts \cup pending[k], early \cup ahead[k], v, rows[v])
        BY <2>2, <2>3, ToldMore
    <2>6. QED BY <1>6, <2>1, <2>4, <2>5
<1>13. ASSUME NEW k \in Call, Commit(k) PROVE ToldInv'
    <2>1. /\ receipts' = receipts \cup pending[k] /\ early' = early \cup ahead[k]
          /\ End(k) /\ pc[k] # "senders"
          /\ members' = [u \in User |-> IF u \in DOMAIN wrote[k] THEN wrote[k][u] ELSE members[u]]
        BY <1>13 DEF Commit
    <2>2. ASSUME NEW u \in User PROVE Told(receipts', early', u, members'[u])
        <3>1. Told(receipts, early, u, members[u])
            BY DEF ToldInv
        <3>2. u \in DOMAIN wrote[k] => Told(receipts', early', u, wrote[k][u])
            BY <2>1 DEF ToldInv, ToldCall
        <3>3. CASE u \in DOMAIN wrote[k]
            BY <2>1, <3>2, <3>3
        <3>4. CASE u \notin DOMAIN wrote[k]
            BY <2>1, <3>1, <3>4, ToldMore
        <3>5. QED BY <3>3, <3>4
    <2>3. ASSUME NEW j \in Call \ {k} PROVE ToldCall(j)'
        <3>1. /\ call'[j] = call[j] /\ mine'[j] = mine[j] /\ found'[j] = found[j]
              /\ wrote'[j] = wrote[j] /\ pending'[j] = pending[j] /\ ahead'[j] = ahead[j]
              /\ pc'[j] = pc[j]
            BY <2>1 DEF End, TypeOK
        <3>2. /\ receipts \subseteq receipts' /\ receipts \cup pending[j] \subseteq receipts' \cup pending[j]
              /\ early \subseteq early' /\ early \cup ahead[j] \subseteq early' \cup ahead[j]
            BY <2>1
        <3>3. ToldCall(j)
            BY DEF ToldInv
        <3>4. \A u, row : Told(receipts, early, u, row) => Told(receipts', early', u, row)
            BY <3>2, ToldMore
        <3>5. \A u, row : Told(receipts \cup pending[j], early \cup ahead[j], u, row)
                             => Told(receipts' \cup pending[j], early' \cup ahead[j], u, row)
            BY <3>2, ToldMore
        <3>6. ToldBefore(j) => ToldBefore(j)'
            BY <3>1, <3>4 DEF ToldBefore
        <3>7. QED BY <3>1, <3>3, <3>4, <3>5, <3>6 DEF ToldCall, Source
    <2>4. QED BY <2>1, <2>2, <2>3, ToldEnd DEF ToldInv
<1>14. ASSUME NEW k \in Call, Fail(k) PROVE ToldInv'
    <2>1. End(k) /\ UNCHANGED tables
        BY <1>14 DEF Fail
    <2>2. QED BY <2>1, ToldEnd, ToldLocal DEF End, TypeOK
<1>15. ASSUME UNCHANGED vars PROVE ToldInv'
    BY <1>15 DEF vars, ToldInv, ToldCall, ToldBefore, Source
<1>16. ASSUME NEW s \in 1..MaxSeq, Send(s) PROVE ToldInv'
    BY <1>16 DEF Send, ToldInv, ToldCall, ToldBefore, Source
<1>18. QED
    BY <1>2, <1>4, <1>5, <1>7, <1>8, <1>9, <1>10, <1>11, <1>12, <1>13, <1>14, <1>15,
       <1>16, <1>17 DEF Next

LEMMA ToldInit == ASSUME Init PROVE CallsInv /\ ToldInv
<1>1. \A u \in User : members[u].read = 0 /\ members[u].delivered = 0
    BY DEF Init, NewRow, NoRow
<1>2. /\ \A k \in Call : pc[k] = "idle" /\ call[k] = Asking("none", Creator)
                         /\ mine[k] = NoRow /\ found[k] = NoRow /\ wrote[k] = NoRows
    BY DEF Init
<1>3. CallsInv
    BY <1>2 DEF CallsInv, CallInv, Asking
<1>4. \A u \in User : Told(receipts, early, u, members[u])
    <2>1. \A s \in 1..MaxSeq : ~(s <= 0)
        BY SeqAssumption
    <2>2. QED BY <1>1, <2>1 DEF Told
<1>5. DOMAIN NoRows = {}
    BY DEF NoRows
<1>6. QED BY <1>2, <1>3, <1>4, <1>5, ToldNoRow DEF ToldInv, ToldCall

\* Whatever sequences requests name and in whatever order messages commit, a message
\* that shows as read has had its receipt sent to its sender, unless it committed
\* after a MarkRead had looked for it (receipts.go:36-84): ReceiptsReachSenders.
THEOREM MembershipReceiptsReachSenders == Spec => []ReceiptsReachSenders
<1>1. Init => TypeOK /\ CallsInv /\ ToldInv
    BY TypeInit, ToldInit
<1>2. (TypeOK /\ CallsInv /\ ToldInv) /\ [Next]_vars => (TypeOK /\ CallsInv /\ ToldInv)'
    BY TypeStep, CallsStep, ToldStep
<1>3. TypeOK /\ CallsInv /\ ToldInv => ReceiptsReachSenders
    BY DEF ToldInv, ReceiptsReachSenders
<1>4. QED BY <1>1, <1>2, <1>3, PTL DEF Spec

-----------------------------------------------------------------------------
(***************************************************************************)
(* ConstraintsHold.                                                        *)
(***************************************************************************)

Sound(row) == row.read <= row.delivered /\ ~(row.pinned /\ row.archived)

SoundCall(k) ==
    /\ Sound(mine[k])
    /\ Sound(found[k])
    /\ \A u \in DOMAIN wrote[k] : Sound(wrote[k][u])

SoundInv ==
    /\ \A u \in User : Sound(members[u])
    /\ \A k \in Call : SoundCall(k)

LEMMA SoundNewRows == Sound(NoRow) /\ \A role \in Roles : Sound(NewRow(role))
    BY DEF Sound, NoRow, NewRow

LEMMA SoundAdvance ==
    ASSUME NEW row \in Row, NEW r \in Nat, NEW d \in Nat, Sound(row)
    PROVE  Sound(Advance(row, r, d))
<1>1. /\ row.read \in Nat /\ row.delivered \in Nat /\ r \in Nat /\ d \in Nat
    BY DEF Row
<1>2. Greatest(row.read, r) <= Greatest(Greatest(row.delivered, r), d)
    BY <1>1 DEF Sound, Greatest
<1>3. QED BY <1>2, AdvanceType DEF Sound

\* A rule for the steps that change the copies of one call and no table.
LEMMA SoundLocal ==
    ASSUME TypeOK, SoundInv, NEW k \in Call, members' = members,
           \A j \in Call \ {k} : /\ mine'[j] = mine[j] /\ found'[j] = found[j]
                                 /\ wrote'[j] = wrote[j],
           SoundCall(k)'
    PROVE  SoundInv'
    BY DEF SoundInv, SoundCall

LEMMA SoundStep == ASSUME TypeOK, CallsInv, SoundInv, [Next]_vars PROVE SoundInv'
<1>1. ASSUME NEW k \in Call, NEW asked, NEW next, asked.by \in User, Begin(k, asked, next)
      PROVE SoundInv'
    BY <1>1 DEF Begin, TypeOK, SoundInv, SoundCall
<1>2. ASSUME NEW k \in Call, BeginMarkRead(k) \/ BeginPrefs(k) \/ BeginMembers(k)
      PROVE SoundInv'
    BY <1>1, <1>2 DEF BeginMarkRead, BeginPrefs, BeginMembers, Asking
<1>3. ASSUME NEW k \in Call, SelectCursors(k) PROVE SoundInv'
    BY <1>3 DEF SelectCursors, TypeOK, Asked, SoundInv, SoundCall
<1>4. ASSUME NEW k \in Call, LookUpTarget(k) PROVE SoundInv'
    BY <1>4 DEF LookUpTarget, TypeOK, Asked, SoundInv, SoundCall
<1>5. ASSUME NEW k \in Call, NEW users \in SUBSET User, NEW rows, DOMAIN rows = users,
             UNCHANGED <<members, mine, found>>, wrote' = [wrote EXCEPT ![k] = rows],
             \A u \in users : Sound(rows[u])
      PROVE SoundInv'
    BY <1>5, SoundLocal DEF SoundInv, SoundCall, TypeOK
<1>6. ASSUME NEW k \in Call, UpdateCursors(k) PROVE SoundInv'
    <2> DEFINE u == call[k].by
               row == Advance(members[u], call[k].read, call[k].delivered)
               rows == [v \in {u} |-> row]
    <2>1. u \in User /\ Sound(row)
        BY SoundAdvance DEF SoundInv, TypeOK, Asked
    <2>2. wrote' = [wrote EXCEPT ![k] = rows] /\ UNCHANGED <<members, mine, found>>
        BY <1>6 DEF UpdateCursors
    <2> HIDE DEF row, u
    <2>3. DOMAIN rows = {u} /\ (\A v \in {u} : Sound(rows[v])) /\ {u} \in SUBSET User
        BY <2>1
    <2> HIDE DEF rows
    <2>4. QED BY <1>5, <2>2, <2>3
<1>7. ASSUME NEW k \in Call, UpdatePrefs(k) PROVE SoundInv'
    <2> DEFINE u == call[k].by
               row == Changed(mine[k], call[k].op)
               rows == [v \in {u} |-> row]
    <2>1. u \in User /\ mine[k] \in Row /\ call[k].op \in Prefs /\ Sound(mine[k])
        BY <1>7 DEF UpdatePrefs, SoundInv, SoundCall, TypeOK, Asked
    <2>2. Sound(row)
        BY <2>1, ChangedType DEF Sound
    <2>3. wrote' = [wrote EXCEPT ![k] = rows] /\ UNCHANGED <<members, mine, found>>
        BY <1>7 DEF UpdatePrefs
    <2> HIDE DEF row, u
    <2>4. DOMAIN rows = {u} /\ (\A v \in {u} : Sound(rows[v])) /\ {u} \in SUBSET User
        BY <2>1, <2>2
    <2> HIDE DEF rows
    <2>5. QED BY <1>5, <2>3, <2>4
<1>8. ASSUME NEW k \in Call, UpdateRole(k) PROVE SoundInv'
    <2> DEFINE row == [found[k] EXCEPT !.role = call[k].role]
               rows == [v \in call[k].on |-> row]
    <2>1. found[k] \in Row /\ call[k].on \in SUBSET User /\ Sound(found[k])
        BY DEF SoundInv, SoundCall, TypeOK, Asked
    <2>2. Sound(row)
        BY <2>1 DEF Sound, Row
    <2>3. wrote' = [wrote EXCEPT ![k] = rows] /\ UNCHANGED <<members, mine, found>>
        BY <1>8 DEF UpdateRole
    <2> HIDE DEF row
    <2>4. DOMAIN rows = call[k].on /\ \A v \in call[k].on : Sound(rows[v])
        BY <2>2
    <2> HIDE DEF rows
    <2>5. QED BY <1>5, <2>1, <2>3, <2>4
<1>9. ASSUME NEW k \in Call, RemoveRow(k) PROVE SoundInv'
    <2> DEFINE users == {t \in call[k].on : Active(t)}
               rows == [v \in users |-> [members[v] EXCEPT !.left = TRUE]]
    <2>1. users \in SUBSET User
        BY DEF TypeOK, Asked
    <2>2. \A v \in users : Sound(rows[v])
        BY <2>1 DEF SoundInv, Sound, TypeOK, Row
    <2>3. wrote' = [wrote EXCEPT ![k] = rows] /\ UNCHANGED <<members, mine, found>>
          /\ DOMAIN rows = users
        BY <1>9 DEF RemoveRow
    <2> HIDE DEF rows, users
    <2>4. QED BY <1>5, <2>1, <2>2, <2>3
<1>10. ASSUME NEW k \in Call, CountActive(k) \/ LookUpMembers(k) PROVE SoundInv'
    BY <1>10 DEF CountActive, LookUpMembers, SoundInv, SoundCall
<1>11. ASSUME NEW k \in Call, Upsert(k) PROVE SoundInv'
    <2> DEFINE users == adding[k]
               rows == [v \in users |-> [members[v] EXCEPT !.left = FALSE, !.role = "member"]]
    <2>1. users \in SUBSET User
        BY DEF TypeOK
    <2>2. \A v \in users : Sound(rows[v])
        BY <2>1 DEF SoundInv, Sound, TypeOK, Row
    <2>3. wrote' = [wrote EXCEPT ![k] = rows] /\ UNCHANGED <<members, mine, found>>
          /\ DOMAIN rows = users
        BY <1>11 DEF Upsert
    <2> HIDE DEF rows, users
    <2>4. QED BY <1>5, <2>1, <2>2, <2>3
<1>12. ASSUME NEW k \in Call, End(k), \A u \in User : Sound(members'[u]) PROVE SoundInv'
    <2>1. DOMAIN NoRows = {}
        BY DEF NoRows
    <2>2. SoundCall(k)'
        BY <1>12, <2>1, SoundNewRows DEF End, SoundCall, TypeOK
    <2>3. \A j \in Call \ {k} : SoundCall(j)'
        BY <1>12 DEF End, SoundInv, SoundCall, TypeOK
    <2>4. QED BY <1>12, <2>2, <2>3 DEF SoundInv
<1>13. ASSUME NEW k \in Call, Commit(k) PROVE SoundInv'
    BY <1>12, <1>13 DEF Commit, SoundInv, SoundCall
<1>14. ASSUME NEW k \in Call, Fail(k) PROVE SoundInv'
    BY <1>12, <1>14 DEF Fail, SoundInv
<1>15. ASSUME UNCHANGED vars PROVE SoundInv'
    BY <1>15 DEF vars, SoundInv, SoundCall
<1>16. ASSUME NEW k \in Call, ListSenders(k) PROVE SoundInv'
    BY <1>16 DEF ListSenders, SoundInv, SoundCall
<1>17. ASSUME NEW s \in 1..MaxSeq, Send(s) PROVE SoundInv'
    BY <1>17 DEF Send, SoundInv, SoundCall
<1>18. QED
    BY <1>2, <1>3, <1>4, <1>6, <1>7, <1>8, <1>9, <1>10, <1>11, <1>13, <1>14, <1>15,
       <1>16, <1>17 DEF Next

LEMMA SoundInit == ASSUME Init PROVE SoundInv
<1>1. DOMAIN NoRows = {}
    BY DEF NoRows
<1>2. QED BY <1>1, SoundNewRows DEF Init, SoundInv, SoundCall, Roles

\* No interleaving of these calls trips a CHECK of conversation_members:
\* ConstraintsHold.
THEOREM MembershipConstraintsHold == Spec => []ConstraintsHold
<1>1. Init => TypeOK /\ CallsInv /\ SoundInv
    BY TypeInit, ToldInit, SoundInit
<1>2. (TypeOK /\ CallsInv /\ SoundInv) /\ [Next]_vars => (TypeOK /\ CallsInv /\ SoundInv)'
    BY TypeStep, CallsStep, SoundStep
<1>3. TypeOK /\ CallsInv /\ SoundInv => ConstraintsHold
    BY DEF SoundInv, Sound, ConstraintsHold
<1>4. QED BY <1>1, <1>2, <1>3, PTL DEF Spec

-----------------------------------------------------------------------------
(***************************************************************************)
(* CreatorStaysOwner.                                                      *)
(***************************************************************************)

Owns(row) == ~row.left /\ row.role = "owner"

\* Nothing a call holds would take the group from its creator, but for the
\* creator's own departure.
OwnerCall(k) ==
    /\ call[k].op \in Prefs /\ call[k].by = Creator => Owns(mine[k])
    /\ call[k].op = "role" /\ pc[k] = "update" => Creator \notin call[k].on
    /\ Creator \notin adding[k]
    /\ Creator \in DOMAIN wrote[k] => wrote[k][Creator].left \/ Owns(wrote[k][Creator])

OwnerInv ==
    Creator \notin departed => Owns(members[Creator]) /\ \A k \in Call : OwnerCall(k)

\* A rule for the steps of one call that change no table.
LEMMA OwnerLocal ==
    ASSUME TypeOK, OwnerInv, NEW k \in Call, UNCHANGED tables,
           \A j \in Call \ {k} : /\ pc'[j] = pc[j] /\ call'[j] = call[j] /\ mine'[j] = mine[j]
                                 /\ adding'[j] = adding[j] /\ wrote'[j] = wrote[j],
           Creator \notin departed => OwnerCall(k)'
    PROVE  OwnerInv'
    BY CreatorAssumption DEF OwnerInv, OwnerCall

LEMMA OwnerStep == ASSUME TypeOK, CallsInv, OwnerInv, [Next]_vars PROVE OwnerInv'
<1> USE CreatorAssumption
<1>1. ASSUME NEW k \in Call, NEW asked, NEW next \in Steps, Begin(k, asked, next),
             asked.op = "role" => next # "update"
      PROVE OwnerInv'
    <2>1. /\ pc' = [pc EXCEPT ![k] = next] /\ call' = [call EXCEPT ![k] = asked]
          /\ mine' = [mine EXCEPT ![k] = members[asked.by]]
          /\ UNCHANGED <<tables, adding, wrote>>
        BY <1>1 DEF Begin
    <2>2. Creator \notin departed => OwnerCall(k)'
        BY <1>1, <2>1 DEF OwnerInv, OwnerCall, TypeOK
    <2>3. QED BY <2>1, <2>2, OwnerLocal DEF TypeOK
<1>2. ASSUME NEW k \in Call, BeginMarkRead(k) \/ BeginPrefs(k) \/ BeginMembers(k)
      PROVE OwnerInv'
    BY <1>1, <1>2 DEF BeginMarkRead, BeginPrefs, BeginMembers, Asking, Prefs
<1>3. ASSUME NEW k \in Call, SelectCursors(k) PROVE OwnerInv'
    <2>1. Creator \notin departed => OwnerCall(k)'
        BY <1>3 DEF SelectCursors, OwnerInv, OwnerCall, CallsInv, CallInv, TypeOK
    <2>2. QED BY <1>3, <2>1, OwnerLocal DEF SelectCursors, TypeOK
<1>4. ASSUME NEW k \in Call, LookUpTarget(k) PROVE OwnerInv'
    <2>1. PICK t \in call[k].on :
              call[k].op = "role" => members[t].role # "owner"
        BY <1>4 DEF LookUpTarget, MayChangeRole
    <2>2. call[k].op \in {"role", "remove"}
        BY <1>4 DEF LookUpTarget
    <2>3. call[k].on = {t}
        BY <2>1, <2>2 DEF CallsInv, CallInv
    <2>4. /\ pc' = [pc EXCEPT ![k] = "update"]
          /\ UNCHANGED <<tables, call, mine, adding, wrote>>
        BY <1>4 DEF LookUpTarget
    <2>5. Creator \notin departed => OwnerCall(k)'
        BY <2>1, <2>3, <2>4 DEF OwnerInv, OwnerCall, Owns, TypeOK
    <2>6. QED BY <2>4, <2>5, OwnerLocal DEF TypeOK
<1>5. ASSUME NEW k \in Call, NEW users \in SUBSET User, NEW rows, DOMAIN rows = users,
             NEW l \in {"commit", "count", "senders"}, pc' = [pc EXCEPT ![k] = l],
             UNCHANGED <<tables, call, mine, adding>>, wrote' = [wrote EXCEPT ![k] = rows],
             Creator \notin departed /\ Creator \in users
                => rows[Creator].left \/ Owns(rows[Creator])
      PROVE OwnerInv'
    <2>1. Creator \notin departed => OwnerCall(k)'
        BY <1>5 DEF OwnerInv, OwnerCall, TypeOK
    <2>2. QED BY <1>5, <2>1, OwnerLocal DEF TypeOK
<1>6. ASSUME NEW k \in Call, UpdateCursors(k) PROVE OwnerInv'
    <2> DEFINE u == call[k].by
               row == Advance(members[u], call[k].read, call[k].delivered)
               rows == [v \in {u} |-> row]
    <2>1. u \in User /\ row.left = members[u].left /\ row.role = members[u].role
        <3>1. /\ u \in User /\ members[u] \in Row
              /\ call[k].read \in Nat /\ call[k].delivered \in Nat
            BY DEF TypeOK, Asked
        <3>2. QED BY <3>1, AdvanceType
    <2>2. /\ pc' = [pc EXCEPT ![k] = "senders"] /\ wrote' = [wrote EXCEPT ![k] = rows]
          /\ UNCHANGED <<tables, call, mine, adding>>
        BY <1>6 DEF UpdateCursors
    <2> HIDE DEF row, u
    <2>3. DOMAIN rows = {u} /\ rows[u] = row /\ {u} \in SUBSET User
        BY <2>1
    <2> HIDE DEF rows
    <2>4. Creator \notin departed /\ Creator \in {u} => Owns(rows[Creator])
        BY <2>1, <2>3 DEF OwnerInv, Owns
    <2>5. QED BY <1>5, <2>2, <2>3, <2>4
<1>7. ASSUME NEW k \in Call, UpdatePrefs(k) PROVE OwnerInv'
    <2> DEFINE u == call[k].by
               row == Changed(mine[k], call[k].op)
               rows == [v \in {u} |-> row]
    <2>1. /\ u \in User /\ call[k].op \in Prefs
          /\ row.left = mine[k].left /\ row.role = mine[k].role
        BY <1>7, ChangedType DEF UpdatePrefs, TypeOK, Asked
    <2>2. /\ pc' = [pc EXCEPT ![k] = "commit"] /\ wrote' = [wrote EXCEPT ![k] = rows]
          /\ UNCHANGED <<tables, call, mine, adding>>
        BY <1>7 DEF UpdatePrefs
    <2>3. Creator \notin departed /\ Creator = u => Owns(mine[k])
        BY <2>1 DEF OwnerInv, OwnerCall
    <2> HIDE DEF row, u
    <2>4. DOMAIN rows = {u} /\ rows[u] = row /\ {u} \in SUBSET User
        BY <2>1
    <2> HIDE DEF rows
    <2>5. Creator \notin departed /\ Creator \in {u} => Owns(rows[Creator])
        BY <2>1, <2>3, <2>4 DEF Owns
    <2>6. QED BY <1>5, <2>2, <2>4, <2>5
<1>8. ASSUME NEW k \in Call, UpdateRole(k) PROVE OwnerInv'
    <2> DEFINE rows == [v \in call[k].on |-> [found[k] EXCEPT !.role = call[k].role]]
    <2>1. /\ pc' = [pc EXCEPT ![k] = "commit"] /\ wrote' = [wrote EXCEPT ![k] = rows]
          /\ UNCHANGED <<tables, call, mine, adding>>
          /\ DOMAIN rows = call[k].on /\ call[k].on \in SUBSET User
        BY <1>8 DEF UpdateRole, TypeOK, Asked
    <2>2. Creator \notin departed => Creator \notin call[k].on
        BY <1>8 DEF UpdateRole, OwnerInv, OwnerCall
    <2> HIDE DEF rows
    <2>3. QED BY <1>5, <2>1, <2>2
<1>9. ASSUME NEW k \in Call, RemoveRow(k) PROVE OwnerInv'
    <2> DEFINE users == {t \in call[k].on : Active(t)}
               rows == [v \in users |-> [members[v] EXCEPT !.left = TRUE]]
    <2>1. users \in SUBSET User /\ \A v \in users : rows[v].left
        BY DEF TypeOK, Asked, Row
    <2>2. /\ pc' = [pc EXCEPT ![k] = "count"] /\ wrote' = [wrote EXCEPT ![k] = rows]
          /\ UNCHANGED <<tables, call, mine, adding>> /\ DOMAIN rows = users
        BY <1>9 DEF RemoveRow
    <2> HIDE DEF rows, users
    <2>3. QED BY <1>5, <2>1, <2>2
<1>10. ASSUME NEW k \in Call, CountActive(k) PROVE OwnerInv'
    BY <1>10 DEF CountActive, OwnerInv, OwnerCall, TypeOK
<1>11. ASSUME NEW k \in Call, LookUpMembers(k) PROVE OwnerInv'
    <2>1. /\ pc' = [pc EXCEPT ![k] = "update"] /\ call[k].op = "add"
          /\ adding' = [adding EXCEPT ![k] = Candidates(k)]
          /\ UNCHANGED <<tables, call, mine, wrote>>
        BY <1>11 DEF LookUpMembers
    <2>2. Creator \notin departed => Creator \notin Candidates(k)
        BY DEF OwnerInv, Owns, Candidates, Active
    <2>3. Creator \notin departed => OwnerCall(k)'
        BY <2>1, <2>2 DEF OwnerInv, OwnerCall, TypeOK, Prefs
    <2>4. QED BY <2>1, <2>3, OwnerLocal DEF TypeOK
<1>12. ASSUME NEW k \in Call, Upsert(k) PROVE OwnerInv'
    <2> DEFINE users == adding[k]
               rows == [v \in users |-> [members[v] EXCEPT !.left = FALSE, !.role = "member"]]
    <2>1. users \in SUBSET User /\ DOMAIN rows = users
        BY DEF TypeOK
    <2>2. /\ pc' = [pc EXCEPT ![k] = "commit"] /\ wrote' = [wrote EXCEPT ![k] = rows]
          /\ UNCHANGED <<tables, call, mine, adding>>
        BY <1>12 DEF Upsert
    <2>3. Creator \notin departed => Creator \notin users
        BY DEF OwnerInv, OwnerCall
    <2> HIDE DEF rows, users
    <2>4. QED BY <1>5, <2>1, <2>2, <2>3
<1>13. ASSUME NEW k \in Call, End(k), departed \subseteq departed',
              Creator \notin departed' => Owns(members'[Creator])
       PROVE OwnerInv'
    <2>1. DOMAIN NoRows = {}
        BY DEF NoRows
    <2>2. OwnerCall(k)'
        BY <1>13, <2>1 DEF End, OwnerCall, TypeOK, Asking, Prefs
    <2>3. Creator \notin departed' => \A j \in Call \ {k} : OwnerCall(j)'
        BY <1>13 DEF End, OwnerInv, OwnerCall, TypeOK
    <2>4. QED BY <1>13, <2>2, <2>3 DEF OwnerInv
<1>14. ASSUME NEW k \in Call, Commit(k) PROVE OwnerInv'
    <2>1. /\ End(k)
          /\ members' = [u \in User |-> IF u \in DOMAIN wrote[k] THEN wrote[k][u] ELSE members[u]]
          /\ departed' = departed \cup {u \in DOMAIN wrote[k] : wrote[k][u].left}
        BY <1>14 DEF Commit
    <2>2. Creator \notin departed' => Owns(members'[Creator])
        BY <2>1 DEF OwnerInv, OwnerCall
    <2>3. QED BY <1>13, <2>1, <2>2
<1>15. ASSUME NEW k \in Call, Fail(k) PROVE OwnerInv'
    BY <1>13, <1>15 DEF Fail, OwnerInv
<1>16. ASSUME UNCHANGED vars PROVE OwnerInv'
    BY <1>16 DEF vars, OwnerInv, OwnerCall
<1>17. ASSUME NEW k \in Call, ListSenders(k) PROVE OwnerInv'
    BY <1>17 DEF ListSenders, OwnerInv, OwnerCall, TypeOK
<1>18. ASSUME NEW s \in 1..MaxSeq, Send(s) PROVE OwnerInv'
    BY <1>18 DEF Send, OwnerInv, OwnerCall
<1>19. QED
    BY <1>2, <1>3, <1>4, <1>6, <1>7, <1>8, <1>9, <1>10, <1>11, <1>12, <1>14, <1>15,
       <1>16, <1>17, <1>18 DEF Next

LEMMA OwnerInit == ASSUME Init PROVE OwnerInv
<1>1. DOMAIN NoRows = {}
    BY DEF NoRows
<1>2. members[Creator] = NewRow("owner")
    BY CreatorAssumption DEF Init
<1>3. \A k \in Call : OwnerCall(k)
    BY <1>1 DEF Init, OwnerCall, Asking, Prefs
<1>4. QED BY <1>2, <1>3 DEF OwnerInv, Owns, NewRow

\* Whatever role changes, preference writes, additions and removals race, the
\* creator owns the group until the creator leaves: CreatorStaysOwner.
THEOREM MembershipCreatorStaysOwner == Spec => []CreatorStaysOwner
<1>1. Init => TypeOK /\ CallsInv /\ OwnerInv
    BY TypeInit, ToldInit, OwnerInit
<1>2. (TypeOK /\ CallsInv /\ OwnerInv) /\ [Next]_vars => (TypeOK /\ CallsInv /\ OwnerInv)'
    BY TypeStep, CallsStep, OwnerStep
<1>3. TypeOK /\ CallsInv /\ OwnerInv => CreatorStaysOwner
    BY DEF OwnerInv, Owns, CreatorStaysOwner, Active
<1>4. QED BY <1>1, <1>2, <1>3, PTL DEF Spec
=============================================================================
