--------------------------- MODULE OutboxProofs ----------------------------
(***************************************************************************)
(* Proofs about Outbox for every set of conversations, writers and         *)
(* instances, every batch, dedupe and ring size and every number of        *)
(* faults.                                                                 *)
(*                                                                         *)
(* OutboxInv adds to the properties what makes them inductive: a           *)
(* global_seq belongs to one row, and an open transaction's row is not in  *)
(* the log (RowsApart); a relay's batch is all that could be read between  *)
(* its cursor and the batch's last row (BatchIsWhole); the dispatcher's    *)
(* set is the end of what it routed (SeenIsRecent); and a ring is the end  *)
(* of its conversation's events, if those came in order (RingsReach).      *)
(*                                                                         *)
(* The last part is about Presence, the other component that spreads over  *)
(* the api-server instances, for every set of instances and sockets.       *)
(***************************************************************************)
EXTENDS Outbox, PresencePromises, SequenceTheorems, FiniteSetTheorems, WellFoundedInduction,
        TLAPS

Row == [global : Nat, conv : Conv \cup {NoConv}]

WriterTypes ==
    /\ nextGlobal \in Nat
    /\ txn \in [Writer -> {"idle", "open", "committed", "rolledback"}]
    /\ row \in [Writer -> Row]
    /\ changeLog \in SUBSET Row
    /\ IsFiniteSet(changeLog)

RelayTypes ==
    /\ relay \in [Instance -> {"starting", "running", "stopped"}]
    /\ cursor \in [Instance -> Nat]
    /\ batch \in [Instance -> Seq(Row)]
    /\ start \in [Instance -> Nat]
    /\ published \in [Instance -> SUBSET Nat]
    /\ late \in [Instance -> SUBSET Nat]

DispatcherTypes ==
    /\ subscribed \in [Instance -> BOOLEAN]
    /\ inbox \in [Instance -> Seq(Row)]
    /\ seen \in [Instance -> Seq(Nat)]
    /\ ring \in [Instance -> [Conv -> Seq(Nat)]]
    /\ dispatched \in [Instance -> Seq(Nat)]
    /\ lost \in [Instance -> SUBSET Nat]

OutboxTypes == WriterTypes /\ RelayTypes /\ DispatcherTypes /\ faults \in Nat

\* A global_seq is drawn once.
RowsApart ==
    /\ 0 < nextGlobal
    /\ \A r \in changeLog : 0 < r.global /\ r.global < nextGlobal
    /\ \A r, s \in changeLog : r.global = s.global => r = s
    /\ \A w \in Writer : txn[w] = "open" =>
         /\ 0 < row[w].global /\ row[w].global < nextGlobal
         /\ \A r \in changeLog : r.global # row[w].global
         /\ \A v \in Writer \ {w} : txn[v] = "open" => row[v].global # row[w].global

\* The rows of a batch are ahead of the cursor and in order, and between them
\* there is only what became visible too late.
WholeFrom(i) ==
    \A n \in 1 .. Len(batch[i]) :
        /\ batch[i][n] \in changeLog
        /\ cursor[i] < batch[i][n].global
        /\ \A m \in 1 .. n - 1 : batch[i][m].global < batch[i][n].global
        /\ \A r \in changeLog :
             cursor[i] < r.global /\ r.global <= batch[i][n].global =>
                \/ r.global \in late[i]
                \/ \E m \in 1 .. n : batch[i][m].global = r.global

BatchIsWhole ==
    \A i \in Instance :
        /\ cursor[i] \in {0} \cup Globals(changeLog)
        /\ relay[i] = "starting" => batch[i] = <<>>
        /\ WholeFrom(i)

\* What a dispatcher gets and has routed are rows of the log.
EventsAreRows ==
    \A i \in Instance :
        /\ \A n \in 1 .. Len(inbox[i]) : inbox[i][n] \in changeLog
        /\ Elements(dispatched[i]) \subseteq Globals(changeLog)

\* dedupeSet holds the last DedupeMax events routed.
SeenIsRecent ==
    \A i \in Instance :
        /\ Len(seen[i]) = IF Len(dispatched[i]) < DedupeMax THEN Len(dispatched[i]) ELSE DedupeMax
        /\ \A k \in 1 .. Len(seen[i]) :
             seen[i][k] = dispatched[i][Len(dispatched[i]) - Len(seen[i]) + k]

\* A ring that lost nothing of the conversation's events but its first ones.
ReachesBack(s, c, i) ==
    /\ \A m, n \in 1 .. Len(s) : m < n => s[m] < s[n]
    /\ \A r \in changeLog : r.conv = c /\ r.global \in Elements(dispatched[i]) =>
         Len(s) > 0 /\ (s[1] <= r.global => \E n \in 1 .. Len(s) : s[n] = r.global)

RingsReach ==
    \A i \in Instance, c \in Conv :
        /\ Elements(ring[i][c]) \subseteq Elements(dispatched[i])
        /\ Ascending(dispatched[i]) => ReachesBack(ring[i][c], c, i)

OutboxInv ==
    /\ OutboxTypes
    /\ RowsApart
    /\ BatchIsWhole
    /\ NoReadableRowSkipped
    /\ EventsAreRows
    /\ SeenIsRecent
    /\ DuplicatesOnlyAfterEviction
    /\ RingsReach

-----------------------------------------------------------------------------
(* Sequences.                                                              *)

LEMMA ElementsOf ==
    ASSUME NEW S, NEW s \in Seq(S), NEW x
    PROVE  x \in Elements(s) <=> \E n \in 1 .. Len(s) : s[n] = x
BY DEF Elements

LEMMA AscendingIs ==
    ASSUME NEW S, NEW s \in Seq(S)
    PROVE  Ascending(s) <=> \A m, n \in 1 .. Len(s) : m < n => s[m] < s[n]
BY DEF Ascending

-----------------------------------------------------------------------------
(* Least and greatest numbers of a set.                                    *)

Less == {p \in Nat \X Nat : p[1] < p[2]}

LEMMA LessIsWellFounded == IsWellFoundedOn(Less, Nat)
BY NatLessThanWellFounded DEF OpToRel, Less

LEMMA HasLeast == ASSUME NEW T \in SUBSET Nat, T # {} PROVE \E x \in T : \A y \in T : x <= y
<1>1. PICK x \in T : \A y \in T : <<y, x>> \notin Less
    BY LessIsWellFounded, WFMin
<1>2. ASSUME NEW y \in T, y < x PROVE FALSE
    <2>1. <<y, x>> \in Nat \X Nat /\ <<y, x>>[1] = y /\ <<y, x>>[2] = x
        OBVIOUS
    <2>2. <<y, x>> \in Less
        BY <1>2, <2>1 DEF Less
    <2>3. QED BY <1>1, <2>2
<1>3. QED BY <1>2

\* The least bound of a set is in it.
LEMMA HasGreatest ==
    ASSUME NEW T \in SUBSET Nat, T # {}, NEW b \in Nat, \A y \in T : y <= b
    PROVE  \E x \in T : \A y \in T : y <= x
<1> DEFINE U == {k \in Nat : \A y \in T : y <= k}
<1>1. PICK k \in U : \A j \in U : k <= j
    <2>1. U \in SUBSET Nat /\ b \in U /\ U # {}
        OBVIOUS
    <2> HIDE DEF U
    <2>2. QED BY <2>1, HasLeast
<1>2. k \in T
    <2>1. SUFFICES ASSUME k \notin T PROVE FALSE
        OBVIOUS
    <2>2. \A y \in T : y <= k - 1
        BY <2>1
    <2>3. k - 1 \in Nat
        <3>1. PICK y \in T : TRUE
            OBVIOUS
        <3>2. y \in Nat /\ y <= k - 1
            BY <2>2
        <3>3. QED BY <3>2
    <2>4. k - 1 \in U
        BY <2>2, <2>3
    <2>5. QED BY <1>1, <2>4
<1>3. QED BY <1>1, <1>2

-----------------------------------------------------------------------------
(* What the relay reads.                                                   *)

LEMMA NewestIsHead ==
    ASSUME WriterTypes, RowsApart
    PROVE  /\ Newest(changeLog) \in {0} \cup Globals(changeLog)
           /\ Newest(changeLog) \in Nat
<1>1. CASE changeLog = {}
    BY <1>1 DEF Newest
<1>2. CASE changeLog # {}
    <2>1. Globals(changeLog) \in SUBSET Nat /\ Globals(changeLog) # {}
        BY <1>2 DEF Globals, WriterTypes, Row
    <2>2. nextGlobal \in Nat /\ \A g \in Globals(changeLog) : g <= nextGlobal
        BY DEF Globals, RowsApart, WriterTypes, Row
    <2>3. \E g \in Globals(changeLog) : \A h \in Globals(changeLog) : h <= g
        BY <2>1, <2>2, HasGreatest
    <2>4. Newest(changeLog) \in Globals(changeLog)
        BY <1>2, <2>3 DEF Newest
    <2>5. QED BY <2>1, <2>4
<1>3. QED BY <1>1, <1>2

\* A number for each row past g, in the order of their global_seqs.
Rank(g, r) == Cardinality({s \in {t \in changeLog : t.global > g} : s.global <= r.global})

LEMMA RanksAreAscending ==
    ASSUME WriterTypes, NEW g \in Nat,
           NEW r \in changeLog, r.global > g, NEW s \in changeLog, s.global > g
    PROVE  /\ Rank(g, r) \in 1 .. Cardinality({t \in changeLog : t.global > g})
           /\ r.global <= s.global => Rank(g, r) <= Rank(g, s)
           /\ r.global < s.global => Rank(g, r) < Rank(g, s)
<1> DEFINE rows == {t \in changeLog : t.global > g}
           upTo(x) == {t \in rows : t.global <= x.global}
<1>1. IsFiniteSet(rows) /\ Cardinality(rows) \in Nat
    BY FS_Subset, FS_CardinalityType DEF WriterTypes
<1>2. \A x \in rows : /\ x.global \in Nat /\ upTo(x) \in SUBSET rows /\ x \in upTo(x)
                      /\ Rank(g, x) = Cardinality(upTo(x))
    BY DEF WriterTypes, Row, Rank
<1>3. r \in rows /\ s \in rows
    OBVIOUS
<1> HIDE DEF rows
<1>4. \A x \in rows : IsFiniteSet(upTo(x)) /\ Cardinality(upTo(x)) <= Cardinality(rows)
    BY <1>1, <1>2, FS_Subset
<1>5. \A x \in rows : Cardinality(upTo(x)) \in Nat /\ Cardinality(upTo(x)) # 0
    BY <1>2, <1>4, FS_CardinalityType, FS_EmptySet
<1>6. \A x \in rows : x.global \in Nat
    BY <1>2
<1>7. Rank(g, r) \in 1 .. Cardinality(rows)
    <2>1. Rank(g, r) = Cardinality(upTo(r))
        BY <1>2, <1>3
    <2>2. Cardinality(upTo(r)) \in Nat /\ Cardinality(upTo(r)) # 0
        BY <1>3, <1>5
    <2>3. Cardinality(upTo(r)) <= Cardinality(rows)
        BY <1>3, <1>4
    <2> HIDE DEF upTo
    <2>4. QED BY <1>1, <2>1, <2>2, <2>3
<1>8. ASSUME r.global <= s.global
      PROVE  upTo(r) \in SUBSET upTo(s) /\ Cardinality(upTo(r)) <= Cardinality(upTo(s))
    <2>1. upTo(r) \in SUBSET upTo(s)
        <3>1. \A t \in rows : t.global <= r.global => t.global <= s.global
            BY <1>3, <1>6, <1>8
        <3>2. QED BY <3>1
    <2>2. QED BY <2>1, <1>3, <1>4, FS_Subset
<1>9. ASSUME r.global < s.global PROVE Cardinality(upTo(r)) < Cardinality(upTo(s))
    <2>1. s \in upTo(s) /\ s \notin upTo(r)
        BY <1>3, <1>6, <1>9
    <2>2. upTo(r) \in SUBSET upTo(s) /\ Cardinality(upTo(r)) <= Cardinality(upTo(s))
        BY <1>3, <1>6, <1>8, <1>9
    <2>3. Cardinality(upTo(s)) # Cardinality(upTo(r))
        BY <1>3, <1>4, <2>1, <2>2, FS_Subset
    <2>4. QED BY <1>3, <1>5, <2>2, <2>3
<1>10. QED BY <1>2, <1>3, <1>7, <1>8, <1>9 DEF rows

\* Every number up to that of the rows is the rank of one.
LEMMA RanksAreAll ==
    ASSUME WriterTypes, RowsApart, NEW g \in Nat,
           NEW n \in 1 .. Cardinality({t \in changeLog : t.global > g})
    PROVE  \E r \in {t \in changeLog : t.global > g} : Rank(g, r) = n
<1> DEFINE rows == {t \in changeLog : t.global > g}
           k == Cardinality(rows)
           rest == (1 .. k) \ {n}
           f == [r \in rows |-> Rank(g, r)]
<1>1. SUFFICES ASSUME \A r \in rows : Rank(g, r) # n PROVE FALSE
    OBVIOUS
<1>2. IsFiniteSet(rows) /\ k \in Nat
    BY FS_Subset, FS_CardinalityType DEF WriterTypes
<1>3. IsFiniteSet(rest) /\ Cardinality(rest) < Cardinality(rows)
    <2>1. IsFiniteSet(1 .. k) /\ Cardinality(1 .. k) = k
        BY <1>2, FS_Interval
    <2>2. n \in 1 .. k
        OBVIOUS
    <2> HIDE DEF k
    <2>3. IsFiniteSet(rest) /\ Cardinality(rest) = k - 1
        BY <2>1, <2>2, FS_RemoveElement
    <2>4. QED BY <1>2, <2>3 DEF k
<1>4. f \in [rows -> rest]
    BY <1>1, RanksAreAscending
<1>5. PICK x, y \in rows : x # y /\ f[x] = f[y]
    <2> HIDE DEF rows, rest, f
    <2>1. QED BY <1>2, <1>3, <1>4, FS_PigeonHole
<1>6. x.global # y.global /\ x.global \in Nat /\ y.global \in Nat
    BY <1>5 DEF RowsApart, WriterTypes, Row
<1>7. Rank(g, x) < Rank(g, y) \/ Rank(g, y) < Rank(g, x)
    BY <1>6, RanksAreAscending
<1>8. Rank(g, x) = Rank(g, y) /\ Rank(g, x) \in Nat
    BY <1>5, RanksAreAscending
<1>9. QED BY <1>7, <1>8

\* The rows of a batch are past g and in order, and no row between them is left out.
LEMMA ListAfterIsWhole ==
    ASSUME WriterTypes, RowsApart, NEW g \in Nat
    PROVE  /\ ListAfter(g) \in Seq(Row)
           /\ \A n \in 1 .. Len(ListAfter(g)) :
                /\ ListAfter(g)[n] \in changeLog
                /\ g < ListAfter(g)[n].global
                /\ \A m \in 1 .. n - 1 : ListAfter(g)[m].global < ListAfter(g)[n].global
                /\ \A r \in changeLog :
                     g < r.global /\ r.global <= ListAfter(g)[n].global =>
                        \E m \in 1 .. n : ListAfter(g)[m].global = r.global
<1> DEFINE rows == {t \in changeLog : t.global > g}
           k == Cardinality(rows)
           size == IF k < BatchSize THEN k ELSE BatchSize
           L == [n \in 1 .. size |-> CHOOSE r \in rows : Rank(g, r) = n]
<1>1. ListAfter(g) = L
    BY DEF ListAfter, Rank
<1>2. k \in Nat /\ size \in Nat /\ size <= k
    BY FS_Subset, FS_CardinalityType, BatchAssumption DEF WriterTypes
<1>3. \A n \in 1 .. size : L[n] \in rows /\ Rank(g, L[n]) = n
    <2>1. SUFFICES ASSUME NEW n \in 1 .. size PROVE L[n] \in rows /\ Rank(g, L[n]) = n
        OBVIOUS
    <2>2. n \in 1 .. Cardinality({t \in changeLog : t.global > g})
        BY <1>2
    <2>3. \E r \in rows : Rank(g, r) = n
        BY <2>2, RanksAreAll
    <2>4. QED BY <2>3
<1>4. \A r \in rows : r \in changeLog /\ r \in Row /\ r.global \in Nat /\ g < r.global
    BY DEF WriterTypes, Row
<1> HIDE DEF L, size, k
<1>5. L \in Seq(Row) /\ Len(L) = size
    <2>1. L \in [1 .. size -> Row]
        <3>1. \A n \in 1 .. size : L[n] \in Row
            BY <1>3, <1>4
        <3>2. L = [n \in 1 .. size |-> L[n]]
            BY DEF L
        <3>3. QED BY <3>1, <3>2
    <2>2. QED BY <1>2, <2>1
<1>6. ASSUME NEW n \in 1 .. size
      PROVE  /\ L[n] \in changeLog
             /\ g < L[n].global
             /\ \A m \in 1 .. n - 1 : L[m].global < L[n].global
             /\ \A r \in changeLog :
                  g < r.global /\ r.global <= L[n].global =>
                     \E m \in 1 .. n : L[m].global = r.global
    <2>1. L[n] \in rows /\ Rank(g, L[n]) = n
        BY <1>3
    <2>2. ASSUME NEW m \in 1 .. n - 1 PROVE L[m].global < L[n].global
        <3>1. m \in 1 .. size /\ m < n
            BY <1>2
        <3>2. L[m] \in rows /\ Rank(g, L[m]) = m
            BY <1>3, <3>1
        <3>3. ~(Rank(g, L[n]) <= Rank(g, L[m]))
            BY <2>1, <3>1, <3>2
        <3>4. ~(L[n].global <= L[m].global)
            BY <2>1, <3>2, <3>3, RanksAreAscending
        <3>5. QED BY <1>4, <2>1, <3>2, <3>4
    <2>3. ASSUME NEW r \in changeLog, g < r.global, r.global <= L[n].global
          PROVE  \E m \in 1 .. n : L[m].global = r.global
        <3>1. r \in rows
            BY <2>3, <1>4 DEF WriterTypes, Row
        <3>2. Rank(g, r) <= n /\ Rank(g, r) \in 1 .. Cardinality(rows)
            BY <2>1, <2>3, <3>1, RanksAreAscending
        <3>3. Rank(g, r) \in 1 .. n /\ Rank(g, r) \in 1 .. size
            BY <1>2, <3>2
        <3>4. L[Rank(g, r)] \in rows /\ Rank(g, L[Rank(g, r)]) = Rank(g, r)
            BY <1>3, <3>3
        <3>5. L[Rank(g, r)].global = r.global
            <4>1. ~(Rank(g, r) < Rank(g, L[Rank(g, r)])) /\ ~(Rank(g, L[Rank(g, r)]) < Rank(g, r))
                BY <3>3, <3>4
            <4>2. /\ ~(r.global < L[Rank(g, r)].global)
                  /\ ~(L[Rank(g, r)].global < r.global)
                BY <3>1, <3>4, <4>1, RanksAreAscending
            <4>3. QED BY <1>4, <3>1, <3>4, <4>2
        <3>6. QED BY <3>3, <3>5
    <2>4. QED BY <1>4, <2>1, <2>2, <2>3
<1>7. QED BY <1>1, <1>5, <1>6

-----------------------------------------------------------------------------
(* Types.                                                                  *)

LEMMA InitTypes == Init => OutboxTypes
<1> SUFFICES ASSUME Init PROVE OutboxTypes
    OBVIOUS
<1> USE DEF Init
<1>1. <<>> \in Seq(Row) /\ <<>> \in Seq(Nat)
    OBVIOUS
<1>2. WriterTypes
    <2>1. row \in [Writer -> Row]
        BY DEF Row
    <2>2. QED BY <2>1, FS_EmptySet DEF WriterTypes
<1>3. RelayTypes
    BY <1>1 DEF RelayTypes
<1>4. DispatcherTypes
    <2>1. ring \in [Instance -> [Conv -> Seq(Nat)]]
        BY <1>1
    <2>2. QED BY <1>1, <2>1 DEF DispatcherTypes
<1>5. QED BY <1>2, <1>3, <1>4 DEF OutboxTypes

\* Only transactions write the log.
LEMMA LogWriters ==
    ASSUME Next
    PROVE  \/ UNCHANGED writers
           \/ \E w \in Writer : Insert(w) \/ Commit(w) \/ Rollback(w)
BY DEF Next, Relaying, Dispatching, StartRelay, Poll, Publish, PublishFails, Subscribe, Drop,
       Dispatch, Restart, writers

LEMMA WriterTypesStep == ASSUME OutboxTypes, Next PROVE WriterTypes'
<1> WriterTypes BY DEF OutboxTypes
<1>1. CASE UNCHANGED writers
    BY <1>1 DEF WriterTypes, writers
<1>2. ASSUME NEW w \in Writer, Insert(w) PROVE WriterTypes'
    <2>1. PICK c \in Conv \cup {NoConv} :
             row' = [row EXCEPT ![w] = [global |-> nextGlobal, conv |-> c]]
        BY <1>2 DEF Insert
    <2>2. [global |-> nextGlobal, conv |-> c] \in Row
        BY DEF WriterTypes, Row
    <2>3. row' \in [Writer -> Row]
        BY <2>1, <2>2 DEF WriterTypes
    <2>4. QED BY <1>2, <2>3 DEF Insert, WriterTypes
<1>3. ASSUME NEW w \in Writer, Commit(w) PROVE WriterTypes'
    <2>1. changeLog' = changeLog \cup {row[w]} /\ row[w] \in Row
        BY <1>3 DEF Commit, WriterTypes
    <2>2. IsFiniteSet(changeLog') /\ changeLog' \in SUBSET Row
        BY <2>1, FS_AddElement DEF WriterTypes
    <2>3. QED BY <1>3, <2>2 DEF Commit, WriterTypes
<1>4. ASSUME NEW w \in Writer, Rollback(w) PROVE WriterTypes'
    BY <1>4 DEF Rollback, WriterTypes
<1>5. QED BY <1>1, <1>2, <1>3, <1>4, LogWriters

LEMMA RowsApartStep == ASSUME OutboxTypes, RowsApart, Next PROVE RowsApart'
<1> WriterTypes BY DEF OutboxTypes
<1>1. CASE UNCHANGED writers
    BY <1>1 DEF RowsApart, writers
<1>2. ASSUME NEW w \in Writer, Insert(w) PROVE RowsApart'
    <2>1. PICK c \in Conv \cup {NoConv} :
             row' = [row EXCEPT ![w] = [global |-> nextGlobal, conv |-> c]]
        BY <1>2 DEF Insert
    <2>2. /\ row'[w].global = nextGlobal
          /\ \A v \in Writer \ {w} : row'[v] = row[v] /\ txn'[v] = txn[v]
          /\ changeLog' = changeLog /\ nextGlobal' = nextGlobal + 1
          /\ txn'[w] = "open"
        BY <1>2, <2>1 DEF Insert, WriterTypes
    <2>3. /\ nextGlobal \in Nat
          /\ \A r \in changeLog : r.global \in Nat
          /\ \A v \in Writer : row[v].global \in Nat
        BY DEF WriterTypes, Row
    <2>4. 0 < nextGlobal
        BY DEF RowsApart
    <2>5. QED BY <2>2, <2>3, <2>4 DEF RowsApart
<1>3. ASSUME NEW w \in Writer, Commit(w) PROVE RowsApart'
    <2>1. /\ row' = row /\ nextGlobal' = nextGlobal
          /\ changeLog' = changeLog \cup {row[w]} /\ txn[w] = "open" /\ txn'[w] # "open"
          /\ \A v \in Writer \ {w} : txn'[v] = txn[v]
        BY <1>3 DEF Commit, WriterTypes
    <2>2. QED BY <2>1 DEF RowsApart
<1>4. ASSUME NEW w \in Writer, Rollback(w) PROVE RowsApart'
    <2>1. /\ row' = row /\ nextGlobal' = nextGlobal
          /\ changeLog' = changeLog /\ txn'[w] # "open"
          /\ \A v \in Writer \ {w} : txn'[v] = txn[v]
        BY <1>4 DEF Rollback, WriterTypes
    <2>2. QED BY <2>1 DEF RowsApart
<1>5. QED BY <1>1, <1>2, <1>3, <1>4, LogWriters

\* The actions that move a relay.
LEMMA RelayWriters ==
    ASSUME Next
    PROVE  \/ UNCHANGED <<relays, late>>
           \/ \E w \in Writer : Commit(w)
           \/ \E i \in Instance :
                StartRelay(i) \/ Poll(i) \/ Publish(i) \/ PublishFails(i) \/ Restart(i)
BY DEF Next, Relaying, Dispatching, Insert, Rollback, Subscribe, Drop, Dispatch, relays

\* The first of a batch, and the rest of it.
LEMMA BatchParts ==
    ASSUME OutboxTypes, NEW i \in Instance, batch[i] # <<>>
    PROVE  /\ Len(batch[i]) > 0 /\ Head(batch[i]) = batch[i][1] /\ Head(batch[i]) \in Row
           /\ Tail(batch[i]) \in Seq(Row) /\ Len(Tail(batch[i])) = Len(batch[i]) - 1
           /\ \A n \in 1 .. Len(Tail(batch[i])) : Tail(batch[i])[n] = batch[i][n + 1]
<1>1. batch[i] \in Seq(Row)
    BY DEF OutboxTypes, RelayTypes
<1>2. Len(batch[i]) > 0 /\ Head(batch[i]) = batch[i][1]
    BY <1>1
<1>3. QED BY <1>1, <1>2, HeadTailProperties

LEMMA InboxParts ==
    ASSUME OutboxTypes, NEW i \in Instance, inbox[i] # <<>>
    PROVE  /\ Len(inbox[i]) > 0 /\ Head(inbox[i]) = inbox[i][1] /\ Head(inbox[i]) \in Row
           /\ Tail(inbox[i]) \in Seq(Row) /\ Len(Tail(inbox[i])) = Len(inbox[i]) - 1
           /\ \A n \in 1 .. Len(Tail(inbox[i])) : Tail(inbox[i])[n] = inbox[i][n + 1]
<1>1. inbox[i] \in Seq(Row)
    BY DEF OutboxTypes, DispatcherTypes
<1>2. Len(inbox[i]) > 0 /\ Head(inbox[i]) = inbox[i][1]
    BY <1>1
<1>3. QED BY <1>1, <1>2, HeadTailProperties

LEMMA RelayTypesStep == ASSUME OutboxTypes, RowsApart, Next PROVE RelayTypes'
<1> RelayTypes /\ WriterTypes BY DEF OutboxTypes
<1>1. CASE UNCHANGED <<relays, late>>
    BY <1>1 DEF RelayTypes, relays
<1>2. ASSUME NEW w \in Writer, Commit(w) PROVE RelayTypes'
    <2>1. row[w].global \in Nat
        BY DEF WriterTypes, Row
    <2>2. late' \in [Instance -> SUBSET Nat]
        BY <1>2, <2>1 DEF Commit, RelayTypes
    <2>3. QED BY <1>2, <2>2 DEF Commit, relays, RelayTypes
<1>3. ASSUME NEW i \in Instance, StartRelay(i) PROVE RelayTypes'
    <2>1. UNCHANGED <<batch, published, late>>
        BY <1>3 DEF StartRelay
    <2>2. cursor' \in [Instance -> Nat] /\ start' \in [Instance -> Nat]
        BY <1>3, NewestIsHead DEF StartRelay, RelayTypes
    <2>3. relay' \in [Instance -> {"starting", "running", "stopped"}]
        BY <1>3 DEF StartRelay, RelayTypes
    <2>4. QED BY <2>1, <2>2, <2>3 DEF RelayTypes
<1>4. ASSUME NEW i \in Instance, Poll(i) PROVE RelayTypes'
    <2>1. ListAfter(cursor[i]) \in Seq(Row)
        BY ListAfterIsWhole DEF RelayTypes
    <2>2. QED BY <1>4, <2>1 DEF Poll, RelayTypes
<1>5. ASSUME NEW i \in Instance, Publish(i) PROVE RelayTypes'
    <2>1. Head(batch[i]).global \in Nat /\ Tail(batch[i]) \in Seq(Row)
        BY <1>5, BatchParts DEF Publish, Row
    <2>2. /\ UNCHANGED <<relay, start, late>>
          /\ cursor' = [cursor EXCEPT ![i] = Head(batch[i]).global]
          /\ published' = [published EXCEPT ![i] = @ \cup {Head(batch[i]).global}]
          /\ batch' = [batch EXCEPT ![i] = Tail(@)]
        BY <1>5 DEF Publish
    <2>3. QED BY <2>1, <2>2 DEF RelayTypes
<1>6. ASSUME NEW i \in Instance, PublishFails(i) PROVE RelayTypes'
    <2>1. <<>> \in Seq(Row)
        OBVIOUS
    <2>2. QED BY <1>6, <2>1 DEF PublishFails, RelayTypes
<1>7. ASSUME NEW i \in Instance, Restart(i) PROVE RelayTypes'
    <2>1. <<>> \in Seq(Row)
        OBVIOUS
    <2>2. QED BY <1>7, <2>1 DEF Restart, RelayTypes
<1>8. QED BY <1>1, <1>2, <1>3, <1>4, <1>5, <1>6, <1>7, RelayWriters

\* The actions that move a dispatcher.
LEMMA DispatcherWriters ==
    ASSUME Next
    PROVE  \/ UNCHANGED <<dispatchers, subscribed, lost>>
           \/ \E i \in Instance :
                \/ Publish(i) \/ PublishFails(i) \/ Subscribe(i) \/ Drop(i)
                \/ Dispatch(i) \/ Restart(i)
BY DEF Next, Relaying, Dispatching, Insert, Commit, Rollback, StartRelay, Poll, dispatchers

LEMMA BroadcastTypes ==
    ASSUME OutboxTypes, NEW r \in Row, Broadcast(r)
    PROVE  /\ inbox' \in [Instance -> Seq(Row)] /\ lost' \in [Instance -> SUBSET Nat]
           /\ \A j \in Instance :
                inbox'[j] = IF subscribed[j] THEN Append(inbox[j], r) ELSE inbox[j]
<1>1. \A j \in Instance : inbox[j] \in Seq(Row) /\ lost[j] \in SUBSET Nat
    BY DEF OutboxTypes, DispatcherTypes
<1>2. \A j \in Instance : Append(inbox[j], r) \in Seq(Row)
    BY <1>1, AppendProperties
<1>3. r.global \in Nat
    BY DEF Row
<1>4. /\ inbox' = [j \in Instance |-> IF subscribed[j] THEN Append(inbox[j], r) ELSE inbox[j]]
      /\ lost' = [j \in Instance |-> IF subscribed[j] THEN lost[j] ELSE lost[j] \cup {r.global}]
    BY DEF Broadcast
<1>5. QED BY <1>1, <1>2, <1>3, <1>4

\* dedupeSet after a new event: it grows, or it loses the oldest.
LEMMA RememberFacts ==
    ASSUME NEW s \in Seq(Nat), NEW g \in Nat, Len(s) <= DedupeMax
    PROVE  /\ Remember(s, g) \in Seq(Nat)
           /\ Len(Remember(s, g)) = IF Len(s) < DedupeMax THEN Len(s) + 1 ELSE Len(s)
           /\ Remember(s, g)[Len(Remember(s, g))] = g
           /\ \A k \in 1 .. Len(Remember(s, g)) - 1 :
                Remember(s, g)[k] = IF Len(s) < DedupeMax THEN s[k] ELSE s[k + 1]
<1> DEFINE t == Append(s, g)
<1>1. /\ t \in Seq(Nat) /\ t # <<>> /\ Len(t) = Len(s) + 1 /\ t[Len(s) + 1] = g
      /\ \A k \in 1 .. Len(s) : t[k] = s[k]
    BY AppendProperties
<1> HIDE DEF t
<1>2. CASE Len(s) < DedupeMax
    <2>1. Remember(s, g) = t
        BY <1>2 DEF Remember, t
    <2>2. QED BY <1>1, <1>2, <2>1
<1>3. CASE ~(Len(s) < DedupeMax)
    <2>1. Remember(s, g) = Tail(t)
        BY <1>3 DEF Remember, t
    <2>2. /\ Tail(t) \in Seq(Nat) /\ Len(Tail(t)) = Len(t) - 1
          /\ \A k \in 1 .. Len(Tail(t)) : Tail(t)[k] = t[k + 1]
        BY <1>1, HeadTailProperties
    <2>3. Len(Tail(t)) = Len(s) /\ Len(s) \in Nat \ {0}
        BY <1>1, <1>3, <2>2, DedupeAssumption
    <2>4. /\ Tail(t)[Len(s)] = g
          /\ \A k \in 1 .. Len(s) - 1 : Tail(t)[k] = s[k + 1]
        BY <1>1, <2>2, <2>3
    <2>5. QED BY <1>3, <2>1, <2>2, <2>3, <2>4
<1>4. QED BY <1>2, <1>3

\* What a ring keeps is a suffix of it.
LEMMA KeptIsSuffix ==
    ASSUME NEW s \in Seq(Nat), NEW n \in 0 .. Len(s)
    PROVE  \E i \in 1 .. Len(s) + 1 :
              /\ Kept(s, n) \in Seq(Nat)
              /\ Len(Kept(s, n)) = Len(s) + 1 - i
              /\ \A j \in 1 .. Len(s) + 1 - i : Kept(s, n)[j] = s[i + j - 1]
<1> DEFINE young == SubSeq(s, n + 1, Len(s))
           m == Len(young) - RingMax + 2
           young2 == SubSeq(young, m, Len(young))
<1>1. /\ young \in Seq(Nat) /\ Len(young) = Len(s) - n
      /\ \A j \in 1 .. Len(s) - n : young[j] = s[n + j]
    <2>1. /\ young \in Seq(Nat)
          /\ Len(young) = IF n + 1 <= Len(s) THEN Len(s) - (n + 1) + 1 ELSE 0
          /\ \A j \in 1 .. Len(s) - (n + 1) + 1 : young[j] = s[(n + 1) + j - 1]
        <3>1. n + 1 \in Int /\ Len(s) \in Int /\ \A j \in n + 1 .. Len(s) : s[j] \in Nat
            OBVIOUS
        <3>2. QED BY <3>1, SubSeqProperties
    <2> HIDE DEF young
    <2>2. QED BY <2>1
<1>2. CASE Len(young) < RingMax
    <2>1. Kept(s, n) = young
        BY <1>2 DEF Kept
    <2> HIDE DEF young
    <2>2. n + 1 \in 1 .. Len(s) + 1 /\ Len(s) + 1 - (n + 1) = Len(s) - n
        OBVIOUS
    <2>3. \A j \in 1 .. Len(s) - n : young[j] = s[(n + 1) + j - 1]
        <3>1. \A j \in 1 .. Len(s) - n : n + j = (n + 1) + j - 1
            OBVIOUS
        <3>2. QED BY <1>1, <3>1
    <2>4. Len(young) = Len(s) + 1 - (n + 1)
        BY <1>1, <2>2
    <2>5. WITNESS n + 1 \in 1 .. Len(s) + 1
    <2>6. QED BY <1>1, <2>1, <2>2, <2>3, <2>4
<1>3. CASE ~(Len(young) < RingMax)
    <2>1. Kept(s, n) = young2
        BY <1>3 DEF Kept
    <2>2. Len(young) \in Nat /\ m \in 1 .. Len(young) + 1 /\ m \in Int
        BY <1>1, <1>3, RingAssumption
    <2>3. /\ young2 \in Seq(Nat)
          /\ Len(young2) = IF m <= Len(young) THEN Len(young) - m + 1 ELSE 0
          /\ \A j \in 1 .. Len(young) - m + 1 : young2[j] = young[m + j - 1]
        <3> HIDE DEF young, m
        <3>1. \A j \in m .. Len(young) : j \in 1 .. Len(young)
            BY <2>2
        <3>2. \A j \in m .. Len(young) : young[j] \in Nat
            BY <1>1, <3>1, ElementOfSeq
        <3>3. QED BY <1>1, <2>2, <3>2, SubSeqProperties
    <2> HIDE DEF young2, m, young
    <2>4. n + m \in 1 .. Len(s) + 1 /\ Len(young2) = Len(s) + 1 - (n + m)
        BY <1>1, <2>2, <2>3
    <2>5. ASSUME NEW j \in 1 .. Len(s) + 1 - (n + m) PROVE young2[j] = s[(n + m) + j - 1]
        <3>1. j \in 1 .. Len(young) - m + 1 /\ m + j - 1 \in 1 .. Len(s) - n
            <4>1. \A a, b, d \in Int : \A k \in 1 .. a + 1 - (b + d) :
                     d >= 1 => k \in 1 .. (a - b) - d + 1 /\ d + k - 1 \in 1 .. a - b
                OBVIOUS
            <4>2. Len(s) \in Int /\ n \in Int /\ m \in Int /\ m >= 1
                BY <2>2
            <4>3. Len(young) = Len(s) - n
                BY <1>1
            <4>4. QED BY <4>1, <4>2, <4>3
        <3>2. young2[j] = young[m + j - 1] /\ young[m + j - 1] = s[n + (m + j - 1)]
            BY <1>1, <2>3, <3>1
        <3>3. n + (m + j - 1) = (n + m) + j - 1
            BY <2>2
        <3>4. QED BY <3>2, <3>3
    <2>6. QED BY <2>1, <2>3, <2>4, <2>5
<1>4. QED BY <1>2, <1>3

\* What a new event does to its conversation's ring, and to no other.
LEMMA RingAfterDispatch ==
    ASSUME OutboxTypes, NEW i \in Instance, Dispatch(i),
           ~UNCHANGED <<seen, ring, dispatched>>, Head(inbox[i]).conv \in Conv
    PROVE  LET e == Head(inbox[i])
               s == ring[i][e.conv]
           IN  /\ ring' \in [Instance -> [Conv -> Seq(Nat)]]
               /\ \A j \in Instance, c \in Conv :
                    j # i \/ c # e.conv => ring'[j][c] = ring[j][c]
               /\ \E k \in 1 .. Len(s) + 1 :
                    /\ Len(ring'[i][e.conv]) = Len(s) + 2 - k
                    /\ \A j \in 1 .. Len(s) + 1 - k : ring'[i][e.conv][j] = s[k + j - 1]
                    /\ ring'[i][e.conv][Len(s) + 2 - k] = e.global
<1> DispatcherTypes BY DEF OutboxTypes
<1> DEFINE e == Head(inbox[i])
           s == ring[i][e.conv]
<1>1. e \in Row /\ e.global \in Nat
    BY InboxParts DEF Dispatch, Row
<1>2. PICK n \in 0 .. Len(s) :
         ring' = [ring EXCEPT ![i][e.conv] = Append(Kept(s, n), e.global)]
    BY NoConvAssumption DEF Dispatch
<1>3. s \in Seq(Nat)
    BY DEF DispatcherTypes
<1> DEFINE t == Append(Kept(s, n), e.global)
<1>4. PICK k \in 1 .. Len(s) + 1 :
         /\ Kept(s, n) \in Seq(Nat)
         /\ Len(Kept(s, n)) = Len(s) + 1 - k
         /\ \A j \in 1 .. Len(s) + 1 - k : Kept(s, n)[j] = s[k + j - 1]
    <2> HIDE DEF s, e
    <2>1. QED BY <1>3, KeptIsSuffix
<1>5. /\ t \in Seq(Nat)
      /\ Len(t) = Len(s) + 2 - k
      /\ \A j \in 1 .. Len(s) + 1 - k : t[j] = s[k + j - 1]
      /\ t[Len(s) + 2 - k] = e.global
    <2> HIDE DEF s, e
    <2>1. /\ t \in Seq(Nat)
          /\ Len(t) = Len(Kept(s, n)) + 1
          /\ \A j \in 1 .. Len(Kept(s, n)) : t[j] = Kept(s, n)[j]
          /\ t[Len(Kept(s, n)) + 1] = e.global
        <3> DEFINE kept == Kept(s, n)
        <3>1. kept \in Seq(Nat) /\ e.global \in Nat
            BY <1>1, <1>4
        <3> HIDE DEF kept
        <3>2. /\ Append(kept, e.global) \in Seq(Nat)
              /\ Len(Append(kept, e.global)) = Len(kept) + 1
              /\ \A j \in 1 .. Len(kept) : Append(kept, e.global)[j] = kept[j]
              /\ Append(kept, e.global)[Len(kept) + 1] = e.global
            BY <3>1, AppendProperties
        <3>3. QED BY <3>2 DEF kept
    <2>2. Len(Kept(s, n)) + 1 = Len(s) + 2 - k
        BY <1>3, <1>4
    <2> HIDE DEF t
    <2>3. QED BY <1>4, <2>1, <2>2
<1>6. /\ ring' = [ring EXCEPT ![i][e.conv] = t]
      /\ ring \in [Instance -> [Conv -> Seq(Nat)]] /\ e.conv \in Conv
    BY <1>2 DEF DispatcherTypes
<1> HIDE DEF t, e
<1>7. /\ ring' \in [Instance -> [Conv -> Seq(Nat)]] /\ ring'[i][e.conv] = t
      /\ \A j \in Instance, c \in Conv : j # i \/ c # e.conv => ring'[j][c] = ring[j][c]
    BY <1>5, <1>6
<1>8. QED BY <1>2, <1>5, <1>7 DEF e

\* What a new event does to the dedupe set and to the history of events.
LEMMA SeenAfterDispatch ==
    ASSUME OutboxTypes, SeenIsRecent, NEW i \in Instance, Dispatch(i)
    PROVE  \/ UNCHANGED <<seen, ring, dispatched>>
           \/ LET g == Head(inbox[i]).global
                  s == seen[i]
                  d == dispatched[i]
              IN  /\ g \in Nat /\ g \notin Elements(s)
                  /\ seen' \in [Instance -> Seq(Nat)]
                  /\ dispatched' \in [Instance -> Seq(Nat)]
                  /\ \A j \in Instance \ {i} : seen'[j] = seen[j] /\ dispatched'[j] = dispatched[j]
                  /\ Len(dispatched'[i]) = Len(d) + 1
                  /\ \A n \in 1 .. Len(d) : dispatched'[i][n] = d[n]
                  /\ dispatched'[i][Len(d) + 1] = g
                  /\ Len(seen'[i]) = IF Len(s) < DedupeMax THEN Len(s) + 1 ELSE Len(s)
                  /\ seen'[i][Len(seen'[i])] = g
                  /\ \A k \in 1 .. Len(seen'[i]) - 1 :
                       seen'[i][k] = IF Len(s) < DedupeMax THEN s[k] ELSE s[k + 1]
<1> DispatcherTypes BY DEF OutboxTypes
<1> DEFINE g == Head(inbox[i]).global
           s == seen[i]
           d == dispatched[i]
<1>1. SUFFICES ASSUME ~UNCHANGED <<seen, ring, dispatched>>
               PROVE  /\ g \in Nat /\ g \notin Elements(s)
                      /\ seen' \in [Instance -> Seq(Nat)]
                      /\ dispatched' \in [Instance -> Seq(Nat)]
                      /\ \A j \in Instance \ {i} :
                           seen'[j] = seen[j] /\ dispatched'[j] = dispatched[j]
                      /\ Len(dispatched'[i]) = Len(d) + 1
                      /\ \A n \in 1 .. Len(d) : dispatched'[i][n] = d[n]
                      /\ dispatched'[i][Len(d) + 1] = g
                      /\ Len(seen'[i]) = IF Len(s) < DedupeMax THEN Len(s) + 1 ELSE Len(s)
                      /\ seen'[i][Len(seen'[i])] = g
                      /\ \A k \in 1 .. Len(seen'[i]) - 1 :
                           seen'[i][k] = IF Len(s) < DedupeMax THEN s[k] ELSE s[k + 1]
    OBVIOUS
<1>2. /\ g \notin Elements(s)
      /\ seen' = [seen EXCEPT ![i] = Remember(s, g)]
      /\ dispatched' = [dispatched EXCEPT ![i] = Append(d, g)]
    BY <1>1 DEF Dispatch
<1>3. g \in Nat /\ s \in Seq(Nat) /\ d \in Seq(Nat) /\ Len(s) <= DedupeMax
    <2>1. g \in Nat
        BY InboxParts DEF Dispatch, Row
    <2>2. s \in Seq(Nat) /\ d \in Seq(Nat)
        BY DEF DispatcherTypes
    <2>3. Len(s) <= DedupeMax
        <3>1. Len(s) = IF Len(d) < DedupeMax THEN Len(d) ELSE DedupeMax
            BY DEF SeenIsRecent
        <3>2. Len(d) \in Nat /\ DedupeMax \in Nat
            BY <2>2, DedupeAssumption
        <3>3. QED BY <3>1, <3>2
    <2>4. QED BY <2>1, <2>2, <2>3
<1> HIDE DEF g, s, d
<1>4. /\ Remember(s, g) \in Seq(Nat)
      /\ Len(Remember(s, g)) = IF Len(s) < DedupeMax THEN Len(s) + 1 ELSE Len(s)
      /\ Remember(s, g)[Len(Remember(s, g))] = g
      /\ \A k \in 1 .. Len(Remember(s, g)) - 1 :
           Remember(s, g)[k] = IF Len(s) < DedupeMax THEN s[k] ELSE s[k + 1]
    BY <1>3, RememberFacts
<1>5. /\ Append(d, g) \in Seq(Nat) /\ Len(Append(d, g)) = Len(d) + 1
      /\ \A n \in 1 .. Len(d) : Append(d, g)[n] = d[n]
      /\ Append(d, g)[Len(d) + 1] = g
    BY <1>3, AppendProperties
<1>6. /\ seen' \in [Instance -> Seq(Nat)] /\ seen'[i] = Remember(s, g)
      /\ dispatched' \in [Instance -> Seq(Nat)] /\ dispatched'[i] = Append(d, g)
      /\ \A j \in Instance \ {i} : seen'[j] = seen[j] /\ dispatched'[j] = dispatched[j]
    BY <1>2, <1>4, <1>5 DEF DispatcherTypes
<1>7. QED BY <1>2, <1>3, <1>4, <1>5, <1>6

LEMMA DispatcherTypesStep == ASSUME OutboxTypes, SeenIsRecent, Next PROVE DispatcherTypes'
<1> DispatcherTypes BY DEF OutboxTypes
<1>1. CASE UNCHANGED <<dispatchers, subscribed, lost>>
    BY <1>1 DEF DispatcherTypes, dispatchers
<1>2. ASSUME NEW i \in Instance, Publish(i) \/ PublishFails(i) PROVE DispatcherTypes'
    <2>1. Head(batch[i]) \in Row
        BY <1>2, BatchParts DEF Publish, PublishFails
    <2>2. inbox' \in [Instance -> Seq(Row)] /\ lost' \in [Instance -> SUBSET Nat]
        BY <1>2, <2>1, BroadcastTypes DEF Publish, PublishFails, DispatcherTypes
    <2>3. UNCHANGED <<subscribed, seen, ring, dispatched>>
        BY <1>2 DEF Publish, PublishFails
    <2>4. QED BY <2>2, <2>3 DEF DispatcherTypes
<1>3. ASSUME NEW i \in Instance, Subscribe(i) PROVE DispatcherTypes'
    BY <1>3 DEF Subscribe, DispatcherTypes, dispatchers
<1>4. \A i \in Instance : Globals(Elements(inbox[i])) \subseteq Nat /\ Elements(dispatched[i]) \subseteq Nat
    <2>1. ASSUME NEW i \in Instance, NEW n \in DOMAIN inbox[i] PROVE inbox[i][n].global \in Nat
        <3>1. inbox[i] \in Seq(Row) /\ n \in 1 .. Len(inbox[i])
            BY DEF DispatcherTypes
        <3>2. inbox[i][n] \in Row
            BY <3>1, ElementOfSeq
        <3>3. QED BY <3>2 DEF Row
    <2>2. ASSUME NEW i \in Instance, NEW n \in DOMAIN dispatched[i] PROVE dispatched[i][n] \in Nat
        <3>1. dispatched[i] \in Seq(Nat) /\ n \in 1 .. Len(dispatched[i])
            BY DEF DispatcherTypes
        <3>2. QED BY <3>1, ElementOfSeq
    <2>3. QED BY <2>1, <2>2 DEF Globals, Elements
<1>5. <<>> \in Seq(Row) /\ <<>> \in Seq(Nat)
    OBVIOUS
<1>6. ASSUME NEW i \in Instance, Drop(i) PROVE DispatcherTypes'
    <2>1. inbox' \in [Instance -> Seq(Row)]
        BY <1>5, <1>6 DEF Drop, DispatcherTypes
    <2>2. lost' \in [Instance -> SUBSET Nat]
        BY <1>4, <1>6 DEF Drop, DispatcherTypes
    <2>3. subscribed' \in [Instance -> BOOLEAN]
        BY <1>6 DEF Drop, DispatcherTypes
    <2>4. QED BY <1>6, <2>1, <2>2, <2>3 DEF Drop, DispatcherTypes
<1>7. ASSUME NEW i \in Instance, Dispatch(i) PROVE DispatcherTypes'
    <2>1. inbox' \in [Instance -> Seq(Row)]
        BY <1>7, InboxParts DEF Dispatch, DispatcherTypes
    <2>2. UNCHANGED <<subscribed, lost>>
        BY <1>7 DEF Dispatch
    <2>3. seen' \in [Instance -> Seq(Nat)] /\ dispatched' \in [Instance -> Seq(Nat)]
        BY <1>7, SeenAfterDispatch DEF DispatcherTypes
    <2>4. ring' \in [Instance -> [Conv -> Seq(Nat)]]
        <3>1. CASE UNCHANGED <<seen, ring, dispatched>> \/ Head(inbox[i]).conv \notin Conv
            BY <1>7, <3>1 DEF Dispatch, DispatcherTypes
        <3>2. CASE ~UNCHANGED <<seen, ring, dispatched>> /\ Head(inbox[i]).conv \in Conv
            BY <1>7, <3>2, RingAfterDispatch
        <3>3. QED BY <3>1, <3>2
    <2>5. QED BY <2>1, <2>2, <2>3, <2>4 DEF DispatcherTypes
<1>8. ASSUME NEW i \in Instance, Restart(i) PROVE DispatcherTypes'
    <2>1. inbox' \in [Instance -> Seq(Row)] /\ seen' \in [Instance -> Seq(Nat)]
        BY <1>5, <1>8 DEF Restart, DispatcherTypes
    <2>2. dispatched' \in [Instance -> Seq(Nat)] /\ subscribed' \in [Instance -> BOOLEAN]
        BY <1>5, <1>8 DEF Restart, DispatcherTypes
    <2>3. ring' \in [Instance -> [Conv -> Seq(Nat)]]
        <3>1. [c \in Conv |-> <<>>] \in [Conv -> Seq(Nat)]
            BY <1>5
        <3>2. QED BY <1>8, <3>1 DEF Restart, DispatcherTypes
    <2>4. lost' \in [Instance -> SUBSET Nat]
        BY <1>4, <1>8 DEF Restart, DispatcherTypes
    <2>5. QED BY <2>1, <2>2, <2>3, <2>4 DEF DispatcherTypes
<1>9. QED BY <1>1, <1>2, <1>3, <1>6, <1>7, <1>8, DispatcherWriters

LEMMA TypesStep == ASSUME OutboxTypes, RowsApart, SeenIsRecent, Next PROVE OutboxTypes'
<1>1. faults' \in Nat
    <2>1. UNCHANGED faults \/ Fault
        <3>1. \A w \in Writer : Insert(w) \/ Commit(w) \/ Rollback(w) => UNCHANGED faults
            BY DEF Insert, Commit, Rollback
        <3>2. \A i \in Instance : Relaying(i) \/ Dispatching(i) => UNCHANGED faults
            BY DEF Relaying, Dispatching, StartRelay, Poll, Publish, Subscribe, Dispatch
        <3>3. \A i \in Instance : PublishFails(i) \/ Drop(i) \/ Restart(i) => Fault
            BY DEF PublishFails, Drop, Restart
        <3>4. QED BY <3>1, <3>2, <3>3 DEF Next
    <2>2. QED BY <2>1 DEF OutboxTypes, Fault
<1>2. QED
    BY <1>1, WriterTypesStep, RelayTypesStep, DispatcherTypesStep DEF OutboxTypes

-----------------------------------------------------------------------------
(* The relay skips nothing it could read.                                  *)

\* What a commit adds is past by a relay whose batch or cursor is past it.
LEMMA CommitFacts ==
    ASSUME OutboxTypes, RowsApart, BatchIsWhole, NEW w \in Writer, Commit(w), NEW i \in Instance
    PROVE  /\ row[w] \in Row /\ row[w].global \in Nat
           /\ row[w].global \notin {0} \cup Globals(changeLog)
           /\ changeLog' = changeLog \cup {row[w]}
           /\ UNCHANGED <<relay, cursor, batch, start, published>>
           /\ late[i] \subseteq late'[i]
           /\ PassedBy(i, row[w].global) => row[w].global \in late'[i]
<1>1. row[w] \in Row /\ row[w].global \in Nat
    BY DEF OutboxTypes, WriterTypes, Row
<1>2. row[w].global \notin {0} \cup Globals(changeLog)
    BY DEF Commit, RowsApart, Globals
<1>3. late[i] \subseteq late'[i] /\ (PassedBy(i, row[w].global) => row[w].global \in late'[i])
    BY DEF Commit
<1>4. QED BY <1>1, <1>2, <1>3 DEF Commit, relays

LEMMA OnlyCommitsAdd ==
    ASSUME Next
    PROVE  changeLog' = changeLog \/ \E w \in Writer : Commit(w)
BY LogWriters DEF writers, Insert, Rollback

LEMMA BatchIsWholeStep ==
    ASSUME OutboxTypes, RowsApart, BatchIsWhole, Next PROVE BatchIsWhole'
<1> SUFFICES ASSUME NEW i \in Instance
             PROVE  /\ cursor'[i] \in {0} \cup Globals(changeLog')
                    /\ relay'[i] = "starting" => batch'[i] = <<>>
                    /\ WholeFrom(i)'
    BY DEF BatchIsWhole
<1> RelayTypes /\ WriterTypes BY DEF OutboxTypes
<1>1. /\ cursor[i] \in {0} \cup Globals(changeLog)
      /\ relay[i] = "starting" => batch[i] = <<>>
      /\ WholeFrom(i)
    BY DEF BatchIsWhole
<1>2. /\ cursor[i] \in Nat /\ \A r \in changeLog : r.global \in Nat /\ r \in Row
      /\ batch[i] \in Seq(Row) /\ Len(batch[i]) \in Nat
    <2>1. cursor[i] \in Nat /\ batch[i] \in Seq(Row)
        BY DEF RelayTypes
    <2>2. \A r \in changeLog : r.global \in Nat /\ r \in Row
        BY DEF WriterTypes, Row
    <2>3. QED BY <2>1, <2>2
<1>3. ASSUME NEW w \in Writer, Commit(w)
      PROVE  /\ cursor'[i] \in {0} \cup Globals(changeLog')
             /\ relay'[i] = "starting" => batch'[i] = <<>>
             /\ WholeFrom(i)'
    <2>1. /\ UNCHANGED <<relay, cursor, batch>>
          /\ changeLog' = changeLog \cup {row[w]} /\ late[i] \subseteq late'[i]
          /\ row[w].global \in Nat /\ row[w].global \notin {0} \cup Globals(changeLog)
          /\ PassedBy(i, row[w].global) => row[w].global \in late'[i]
        BY <1>3, CommitFacts
    <2>2. ASSUME NEW n \in 1 .. Len(batch[i]), row[w].global <= batch[i][n].global
          PROVE  row[w].global \in late'[i]
        <3>1. batch[i][n] \in changeLog
            BY <1>1 DEF WholeFrom
        <3>2. batch[i][n].global # row[w].global /\ batch[i][n].global \in Nat
            BY <1>2, <2>1, <3>1 DEF Globals
        <3>3. batch[i][n] \in Elements(batch[i])
            BY <1>2 DEF Elements
        <3>4. batch[i][n].global > row[w].global
            BY <2>1, <2>2, <3>2
        <3>5. PassedBy(i, row[w].global)
            BY <3>3, <3>4 DEF PassedBy
        <3>6. QED BY <2>1, <3>5
    <2>3. Globals(changeLog) \subseteq Globals(changeLog')
        BY <2>1 DEF Globals
    <2>4. WholeFrom(i)'
        BY <1>1, <2>1, <2>2 DEF WholeFrom
    <2>5. QED BY <1>1, <2>1, <2>3, <2>4
<1>4. ASSUME changeLog' = changeLog, late'[i] = late[i], cursor'[i] = cursor[i],
             batch'[i] = batch[i], relay'[i] = relay[i]
      PROVE  /\ cursor'[i] \in {0} \cup Globals(changeLog')
             /\ relay'[i] = "starting" => batch'[i] = <<>>
             /\ WholeFrom(i)'
    BY <1>1, <1>4 DEF WholeFrom
<1>5. ASSUME changeLog' = changeLog, batch'[i] = <<>>, cursor'[i] \in {0} \cup Globals(changeLog)
      PROVE  /\ cursor'[i] \in {0} \cup Globals(changeLog')
             /\ relay'[i] = "starting" => batch'[i] = <<>>
             /\ WholeFrom(i)'
    BY <1>5 DEF WholeFrom
<1>6. ASSUME StartRelay(i)
      PROVE  changeLog' = changeLog /\ batch'[i] = <<>> /\ cursor'[i] \in {0} \cup Globals(changeLog)
    <2>1. changeLog' = changeLog /\ batch'[i] = <<>>
        BY <1>1, <1>6 DEF StartRelay, writers
    <2>2. cursor'[i] = cursor[i] \/ cursor'[i] = Newest(changeLog)
        BY <1>6 DEF StartRelay, RelayTypes
    <2>3. QED BY <1>1, <2>1, <2>2, NewestIsHead
<1>7. ASSUME Poll(i)
      PROVE  /\ cursor'[i] \in {0} \cup Globals(changeLog')
             /\ relay'[i] = "starting" => batch'[i] = <<>>
             /\ WholeFrom(i)'
    <2>1. /\ changeLog' = changeLog /\ cursor' = cursor /\ relay'[i] = "running"
          /\ batch'[i] = ListAfter(cursor[i])
        BY <1>7 DEF Poll, writers, RelayTypes
    <2>2. WholeFrom(i)'
        <3> DEFINE L == ListAfter(cursor[i])
        <3>1. \A n \in 1 .. Len(L) :
                /\ L[n] \in changeLog
                /\ cursor[i] < L[n].global
                /\ \A m \in 1 .. n - 1 : L[m].global < L[n].global
                /\ \A r \in changeLog :
                     cursor[i] < r.global /\ r.global <= L[n].global =>
                        \E m \in 1 .. n : L[m].global = r.global
            BY <1>2, ListAfterIsWhole
        <3>2. batch'[i] = L
            BY <2>1
        <3> HIDE DEF L
        <3>3. QED BY <2>1, <3>1, <3>2 DEF WholeFrom
    <2>3. QED BY <1>1, <2>1, <2>2
<1>8. ASSUME Publish(i)
      PROVE  /\ cursor'[i] \in {0} \cup Globals(changeLog')
             /\ relay'[i] = "starting" => batch'[i] = <<>>
             /\ WholeFrom(i)'
    <2>1. /\ changeLog' = changeLog /\ late' = late /\ relay' = relay
          /\ cursor'[i] = batch[i][1].global /\ batch'[i] = Tail(batch[i])
          /\ batch[i] # <<>>
        BY <1>8, BatchParts DEF Publish, writers, RelayTypes
    <2>2. /\ Len(batch[i]) > 0 /\ Len(batch'[i]) = Len(batch[i]) - 1
          /\ \A n \in 1 .. Len(batch'[i]) : batch'[i][n] = batch[i][n + 1]
        BY <2>1, BatchParts
    <2>3. batch[i][1] \in changeLog /\ cursor[i] < cursor'[i] /\ cursor'[i] \in Nat
        BY <1>1, <1>2, <2>1, <2>2 DEF WholeFrom
    <2>4. ASSUME NEW n \in 1 .. Len(batch'[i])
          PROVE  /\ batch'[i][n] \in changeLog
                 /\ cursor'[i] < batch'[i][n].global
                 /\ \A m \in 1 .. n - 1 : batch'[i][m].global < batch'[i][n].global
                 /\ \A r \in changeLog :
                      cursor'[i] < r.global /\ r.global <= batch'[i][n].global =>
                         \/ r.global \in late[i]
                         \/ \E m \in 1 .. n : batch'[i][m].global = r.global
        <3>1. /\ n + 1 \in 1 .. Len(batch[i]) /\ batch'[i][n] = batch[i][n + 1]
              /\ 1 \in 1 .. (n + 1) - 1
            BY <1>2, <2>2
        <3>2. batch[i][n + 1] \in changeLog /\ cursor'[i] < batch[i][n + 1].global
            BY <1>1, <2>1, <3>1 DEF WholeFrom
        <3>3. ASSUME NEW m \in 1 .. n - 1 PROVE batch'[i][m].global < batch'[i][n].global
            <4>1. m + 1 \in 1 .. (n + 1) - 1 /\ m \in 1 .. Len(batch'[i])
                BY <1>2, <2>2
            <4>2. batch[i][m + 1].global < batch[i][n + 1].global
                BY <1>1, <3>1, <4>1 DEF WholeFrom
            <4>3. QED BY <2>2, <3>1, <4>1, <4>2
        <3>4. ASSUME NEW r \in changeLog, cursor'[i] < r.global, r.global <= batch'[i][n].global,
                     r.global \notin late[i]
              PROVE  \E m \in 1 .. n : batch'[i][m].global = r.global
            <4>1. cursor[i] < r.global /\ r.global <= batch[i][n + 1].global
                BY <1>2, <2>3, <3>1, <3>4
            <4>2. PICK m \in 1 .. n + 1 : batch[i][m].global = r.global
                BY <1>1, <3>1, <3>4, <4>1 DEF WholeFrom
            <4>3. m # 1
                BY <1>2, <2>1, <2>3, <3>4, <4>2
            <4>4. /\ m - 1 \in 1 .. n /\ m - 1 \in 1 .. Len(batch'[i]) /\ (m - 1) + 1 = m
                BY <1>2, <2>2, <4>3
            <4>5. batch'[i][m - 1] = batch[i][m]
                BY <2>2, <4>4
            <4>6. QED BY <4>2, <4>4, <4>5
        <3>5. QED BY <3>1, <3>2, <3>3, <3>4
    <2>5. WholeFrom(i)'
        BY <2>1, <2>4 DEF WholeFrom
    <2>6. cursor'[i] \in Globals(changeLog')
        BY <2>1, <2>3 DEF Globals
    <2>7. relay'[i] # "starting"
        BY <1>1, <2>1
    <2>8. QED BY <2>5, <2>6, <2>7
<1>9. ASSUME PublishFails(i) \/ Restart(i)
      PROVE  changeLog' = changeLog /\ batch'[i] = <<>> /\ cursor'[i] \in {0} \cup Globals(changeLog)
    BY <1>1, <1>9 DEF PublishFails, Restart, writers, RelayTypes
<1>10. ASSUME NEW j \in Instance, j # i,
              StartRelay(j) \/ Poll(j) \/ Publish(j) \/ PublishFails(j) \/ Restart(j)
       PROVE  /\ changeLog' = changeLog /\ late'[i] = late[i] /\ cursor'[i] = cursor[i]
              /\ batch'[i] = batch[i] /\ relay'[i] = relay[i]
    BY <1>10 DEF StartRelay, Poll, Publish, PublishFails, Restart, writers, RelayTypes
<1>11. CASE UNCHANGED <<relays, late>>
    BY <1>3, <1>4, <1>11, OnlyCommitsAdd DEF relays
<1>12. QED
    BY <1>3, <1>4, <1>5, <1>6, <1>7, <1>8, <1>9, <1>10, <1>11, RelayWriters

LEMMA NoRowSkippedStep ==
    ASSUME OutboxTypes, RowsApart, BatchIsWhole, NoReadableRowSkipped, Next
    PROVE  NoReadableRowSkipped'
<1> SUFFICES ASSUME NEW i \in Instance, relay'[i] = "running",
                    NEW r \in changeLog', start'[i] < r.global, r.global <= cursor'[i]
             PROVE  r.global \in published'[i] \cup late'[i]
    BY DEF NoReadableRowSkipped
<1> RelayTypes /\ WriterTypes BY DEF OutboxTypes
<1>1. ASSUME NEW w \in Writer, Commit(w) PROVE r.global \in published'[i] \cup late'[i]
    <2>1. /\ UNCHANGED <<relay, cursor, start, published>>
          /\ changeLog' = changeLog \cup {row[w]} /\ late[i] \subseteq late'[i]
          /\ row[w].global \in Nat /\ row[w].global \notin {0} \cup Globals(changeLog)
          /\ PassedBy(i, row[w].global) => row[w].global \in late'[i]
        BY <1>1, CommitFacts
    <2>2. CASE r = row[w]
        <3>1. cursor[i] \in {0} \cup Globals(changeLog) /\ cursor[i] \in Nat
            BY DEF BatchIsWhole, RelayTypes
        <3>2. cursor[i] > r.global
            BY <2>1, <2>2, <3>1
        <3>3. QED BY <2>1, <2>2, <3>2 DEF PassedBy
    <2>3. CASE r \in changeLog
        BY <2>1, <2>3 DEF NoReadableRowSkipped
    <2>4. QED BY <2>1, <2>2, <2>3
<1>2. ASSUME changeLog' = changeLog, late'[i] = late[i], cursor'[i] = cursor[i],
             start'[i] = start[i], relay'[i] = relay[i], published'[i] = published[i]
      PROVE  r.global \in published'[i] \cup late'[i]
    BY <1>2 DEF NoReadableRowSkipped
<1>3. ASSUME NEW j \in Instance, j # i,
             StartRelay(j) \/ Poll(j) \/ Publish(j) \/ PublishFails(j) \/ Restart(j)
      PROVE  /\ changeLog' = changeLog /\ late'[i] = late[i] /\ cursor'[i] = cursor[i]
             /\ start'[i] = start[i] /\ relay'[i] = relay[i] /\ published'[i] = published[i]
    BY <1>3 DEF StartRelay, Poll, Publish, PublishFails, Restart, writers, RelayTypes
<1>4. ASSUME Poll(i) \/ PublishFails(i)
      PROVE  /\ changeLog' = changeLog /\ late'[i] = late[i] /\ cursor'[i] = cursor[i]
             /\ start'[i] = start[i] /\ relay'[i] = relay[i] /\ published'[i] = published[i]
    BY <1>4 DEF Poll, PublishFails, writers
\* The cursor starts at the head: nothing lies between.
<1>5. ASSUME StartRelay(i) PROVE FALSE
    <2>1. relay'[i] = "running" => cursor'[i] = start'[i]
        BY <1>5 DEF StartRelay, RelayTypes
    <2>2. r.global \in Nat /\ cursor'[i] \in Nat
        BY <1>5, RelayTypesStep, WriterTypesStep DEF RelayTypes, WriterTypes, Row
    <2>3. QED BY <2>1, <2>2
<1>6. ASSUME Publish(i) PROVE r.global \in published'[i] \cup late'[i]
    <2>1. /\ changeLog' = changeLog /\ late' = late /\ relay' = relay /\ start' = start
          /\ cursor'[i] = batch[i][1].global /\ batch[i] # <<>>
          /\ published'[i] = published[i] \cup {batch[i][1].global}
        BY <1>6, BatchParts DEF Publish, writers, RelayTypes
    <2>2. CASE r.global <= cursor[i]
        BY <2>1, <2>2 DEF NoReadableRowSkipped
    <2>3. CASE ~(r.global <= cursor[i])
        <3>1. cursor[i] < r.global /\ r.global <= batch[i][1].global
            BY <2>1, <2>3 DEF RelayTypes, WriterTypes, Row
        <3>2. 1 \in 1 .. Len(batch[i]) /\ WholeFrom(i)
            BY <2>1, BatchParts DEF BatchIsWhole, RelayTypes
        <3>3. r.global \in late[i] \/ \E m \in 1 .. 1 : batch[i][m].global = r.global
            BY <2>1, <3>1, <3>2 DEF WholeFrom
        <3>4. QED BY <2>1, <3>3
    <2>4. QED BY <2>2, <2>3
<1>7. ASSUME Restart(i) PROVE FALSE
    BY <1>7 DEF Restart, RelayTypes
<1>8. CASE UNCHANGED <<relays, late>>
    BY <1>1, <1>2, <1>8, OnlyCommitsAdd DEF relays
<1>9. QED BY <1>1, <1>2, <1>3, <1>4, <1>5, <1>6, <1>7, <1>8, RelayWriters

-----------------------------------------------------------------------------
(* What dispatchers get and route.                                         *)

LEMMA LogGrows == ASSUME Next PROVE changeLog \subseteq changeLog'
BY OnlyCommitsAdd DEF Commit

LEMMA EventsAreRowsStep ==
    ASSUME OutboxTypes, RowsApart, BatchIsWhole, SeenIsRecent, EventsAreRows, Next
    PROVE  EventsAreRows'
<1> SUFFICES ASSUME NEW i \in Instance
             PROVE  /\ \A n \in 1 .. Len(inbox'[i]) : inbox'[i][n] \in changeLog'
                    /\ Elements(dispatched'[i]) \subseteq Globals(changeLog')
    BY DEF EventsAreRows
<1> DispatcherTypes BY DEF OutboxTypes
<1>1. /\ \A n \in 1 .. Len(inbox[i]) : inbox[i][n] \in changeLog'
      /\ Elements(dispatched[i]) \subseteq Globals(changeLog')
    BY LogGrows DEF EventsAreRows, Globals
<1>2. ASSUME NEW j \in Instance, Publish(j) \/ PublishFails(j)
      PROVE  /\ \A n \in 1 .. Len(inbox'[i]) : inbox'[i][n] \in changeLog'
             /\ dispatched'[i] = dispatched[i]
    <2>1. Head(batch[j]) \in Row /\ Head(batch[j]) \in changeLog
        <3>1. Head(batch[j]) \in Row /\ Head(batch[j]) = batch[j][1] /\ 1 \in 1 .. Len(batch[j])
            BY <1>2, BatchParts DEF Publish, PublishFails, OutboxTypes, RelayTypes
        <3>2. batch[j][1] \in changeLog
            BY <3>1 DEF BatchIsWhole, WholeFrom
        <3>3. QED BY <3>1, <3>2
    <2>2. \/ inbox'[i] = inbox[i]
          \/ inbox'[i] = Append(inbox[i], Head(batch[j]))
        BY <1>2, <2>1, BroadcastTypes DEF Publish, PublishFails
    <2>3. \A n \in 1 .. Len(Append(inbox[i], Head(batch[j]))) :
             Append(inbox[i], Head(batch[j]))[n] \in changeLog'
        <3>1. inbox[i] \in Seq(Row) /\ Head(batch[j]) \in Row
            BY <2>1 DEF DispatcherTypes
        <3>2. Head(batch[j]) \in changeLog'
            BY <2>1, LogGrows
        <3> DEFINE r == Head(batch[j])
                   s == inbox[i]
        <3>3. s \in Seq(Row) /\ r \in Row /\ r \in changeLog' /\ \A n \in 1 .. Len(s) : s[n] \in changeLog'
            BY <1>1, <3>1, <3>2
        <3> HIDE DEF r, s
        <3>4. \A n \in 1 .. Len(Append(s, r)) : Append(s, r)[n] \in changeLog'
            BY <3>3, AppendProperties
        <3>5. QED BY <3>4 DEF r, s
    <2>4. QED BY <1>1, <1>2, <2>2, <2>3 DEF Publish, PublishFails
<1>3. ASSUME Dispatch(i)
      PROVE  /\ \A n \in 1 .. Len(inbox'[i]) : inbox'[i][n] \in changeLog'
             /\ Elements(dispatched'[i]) \subseteq Globals(changeLog')
    <2>1. /\ inbox'[i] = Tail(inbox[i]) /\ inbox[i] # <<>>
        BY <1>3 DEF Dispatch, DispatcherTypes
    <2>2. /\ Head(inbox[i]) = inbox[i][1] /\ 1 \in 1 .. Len(inbox[i])
          /\ Len(inbox[i]) \in Nat
          /\ Len(Tail(inbox[i])) = Len(inbox[i]) - 1
          /\ \A n \in 1 .. Len(Tail(inbox[i])) : Tail(inbox[i])[n] = inbox[i][n + 1]
        BY <2>1, InboxParts DEF DispatcherTypes
    <2>3. \A n \in 1 .. Len(inbox'[i]) : inbox'[i][n] \in changeLog'
        <3>1. \A n \in 1 .. Len(Tail(inbox[i])) : n + 1 \in 1 .. Len(inbox[i])
            BY <2>2
        <3>2. QED BY <1>1, <2>1, <2>2, <3>1
    <2>4. Head(inbox[i]).global \in Globals(changeLog')
        BY <1>1, <2>2 DEF Globals
    <2>5. CASE dispatched' = dispatched
        BY <1>1, <2>3, <2>5
    <2>6. CASE dispatched' # dispatched
        <3>1. /\ dispatched'[i] \in Seq(Nat) /\ Len(dispatched'[i]) = Len(dispatched[i]) + 1
              /\ \A n \in 1 .. Len(dispatched[i]) : dispatched'[i][n] = dispatched[i][n]
              /\ dispatched'[i][Len(dispatched[i]) + 1] = Head(inbox[i]).global
            BY <1>3, <2>6, SeenAfterDispatch
        <3>2. dispatched[i] \in Seq(Nat)
            BY DEF DispatcherTypes
        <3>3. \A n \in 1 .. Len(dispatched'[i]) : dispatched'[i][n] \in Globals(changeLog')
            <4>1. \A n \in 1 .. Len(dispatched'[i]) :
                     n \in 1 .. Len(dispatched[i]) \/ n = Len(dispatched[i]) + 1
                BY <3>1, <3>2
            <4>2. \A n \in 1 .. Len(dispatched[i]) : dispatched[i][n] \in Globals(changeLog')
                BY <1>1, <3>2 DEF Elements
            <4>3. QED BY <2>4, <3>1, <4>1, <4>2
        <3>4. Elements(dispatched'[i]) \subseteq Globals(changeLog')
            BY <3>1, <3>3 DEF Elements
        <3>5. QED BY <2>3, <3>4
    <2>7. QED BY <2>5, <2>6
<1>4. ASSUME Drop(i) \/ Restart(i)
      PROVE  inbox'[i] = <<>> /\ (dispatched'[i] = dispatched[i] \/ dispatched'[i] = <<>>)
    BY <1>4 DEF Drop, Restart, DispatcherTypes
<1>5. ASSUME NEW j \in Instance, Subscribe(j) \/ (j # i /\ (Drop(j) \/ Dispatch(j) \/ Restart(j)))
      PROVE  inbox'[i] = inbox[i] /\ dispatched'[i] = dispatched[i]
    BY <1>5 DEF Subscribe, Drop, Dispatch, Restart, DispatcherTypes, dispatchers
<1>6. CASE UNCHANGED <<dispatchers, subscribed, lost>>
    BY <1>1, <1>6 DEF dispatchers
<1>7. Elements(<<>>) = {} /\ 1 .. Len(<<>>) = {}
    BY DEF Elements
<1> DEFINE Good(s, d) == /\ \A n \in 1 .. Len(s) : s[n] \in changeLog'
                         /\ Elements(d) \subseteq Globals(changeLog')
<1>8. Good(inbox[i], dispatched[i]) /\ Good(<<>>, dispatched[i]) /\ Good(<<>>, <<>>)
    BY <1>1, <1>7
<1>9. Good(inbox'[i], dispatched'[i])
    <2>1. CASE \E j \in Instance : Publish(j) \/ PublishFails(j)
        BY <1>1, <1>2, <2>1
    <2>2. CASE Dispatch(i)
        BY <1>3, <2>2
    <2> HIDE DEF Good
    <2>3. CASE Drop(i) \/ Restart(i)
        BY <1>4, <1>8, <2>3
    <2>4. CASE \E j \in Instance : Subscribe(j) \/ (j # i /\ (Drop(j) \/ Dispatch(j) \/ Restart(j)))
        BY <1>5, <1>8, <2>4
    <2>5. CASE UNCHANGED <<dispatchers, subscribed, lost>>
        BY <1>6, <2>5 DEF Good
    <2>6. QED BY <2>1, <2>2, <2>3, <2>4, <2>5, DispatcherWriters
<1>10. QED BY <1>9

\* The actions that route an event or forget them all.
LEMMA RoutingWriters ==
    ASSUME Next
    PROVE  \/ UNCHANGED <<seen, ring, dispatched>>
           \/ \E i \in Instance : Dispatch(i) \/ Restart(i)
BY DEF Next, Relaying, Dispatching, Insert, Commit, Rollback, StartRelay, Poll, Publish,
       PublishFails, Subscribe, Drop, dispatchers

LEMMA SeenIsRecentStep ==
    ASSUME OutboxTypes, SeenIsRecent, DuplicatesOnlyAfterEviction, Next
    PROVE  SeenIsRecent' /\ DuplicatesOnlyAfterEviction'
<1> DEFINE Recent(s, d) ==
              /\ Len(s) = IF Len(d) < DedupeMax THEN Len(d) ELSE DedupeMax
              /\ \A k \in 1 .. Len(s) : s[k] = d[Len(d) - Len(s) + k]
           Apart(d) == \A m, n \in DOMAIN d : m < n /\ d[m] = d[n] => n - m > DedupeMax
<1> SUFFICES ASSUME NEW i \in Instance
             PROVE  Recent(seen'[i], dispatched'[i]) /\ Apart(dispatched'[i])
    BY DEF SeenIsRecent, DuplicatesOnlyAfterEviction
<1> DispatcherTypes BY DEF OutboxTypes
<1>1. Recent(seen[i], dispatched[i]) /\ Apart(dispatched[i])
    BY DEF SeenIsRecent, DuplicatesOnlyAfterEviction
<1>2. seen[i] \in Seq(Nat) /\ dispatched[i] \in Seq(Nat) /\ DedupeMax \in Nat \ {0}
    BY DedupeAssumption DEF DispatcherTypes
<1>3. ASSUME Dispatch(i), ~UNCHANGED <<seen, ring, dispatched>>
      PROVE  Recent(seen'[i], dispatched'[i]) /\ Apart(dispatched'[i])
    <2> DEFINE g == Head(inbox[i]).global
               s == seen[i]
               d == dispatched[i]
               t == seen'[i]
               e == dispatched'[i]
    <2>1. /\ g \in Nat /\ g \notin Elements(s) /\ t \in Seq(Nat) /\ e \in Seq(Nat)
          /\ Len(e) = Len(d) + 1 /\ e[Len(d) + 1] = g
          /\ \A n \in 1 .. Len(d) : e[n] = d[n]
          /\ Len(t) = IF Len(s) < DedupeMax THEN Len(s) + 1 ELSE Len(s)
          /\ t[Len(t)] = g
          /\ \A k \in 1 .. Len(t) - 1 : t[k] = IF Len(s) < DedupeMax THEN s[k] ELSE s[k + 1]
        BY <1>3, SeenAfterDispatch
    <2>2. s \in Seq(Nat) /\ d \in Seq(Nat) /\ Recent(s, d) /\ Apart(d)
        BY <1>1, <1>2
    <2> HIDE DEF g, s, d, t, e
    <2>3. Recent(t, e)
        <3>1. /\ Len(s) \in Nat /\ Len(d) \in Nat
              /\ Len(s) = IF Len(d) < DedupeMax THEN Len(d) ELSE DedupeMax
              /\ Len(e) = Len(d) + 1
              /\ Len(t) = IF Len(s) < DedupeMax THEN Len(s) + 1 ELSE Len(s)
            BY <2>1, <2>2
        <3>2. Len(t) = IF Len(e) < DedupeMax THEN Len(e) ELSE DedupeMax
            BY <1>2, <3>1
        <3>3. ASSUME NEW k \in 1 .. Len(t) PROVE t[k] = e[Len(e) - Len(t) + k]
            <4>1. CASE k = Len(t)
                <5>1. Len(e) - Len(t) + k = Len(d) + 1
                    BY <1>2, <3>1, <4>1
                <5>2. QED BY <2>1, <4>1, <5>1
            <4>2. CASE k # Len(t) /\ Len(s) < DedupeMax
                <5>1. Len(s) = Len(d) /\ Len(t) = Len(d) + 1
                    BY <1>2, <3>1, <4>2
                <5>2. k \in 1 .. Len(d) /\ k \in 1 .. Len(t) - 1
                    BY <3>1, <4>2, <5>1
                <5>3. Len(d) - Len(s) + k = k /\ Len(e) - Len(t) + k = k
                    BY <3>1, <5>1, <5>2
                <5>4. t[k] = s[k] /\ s[k] = d[Len(d) - Len(s) + k]
                    BY <2>1, <2>2, <4>2, <5>1, <5>2
                <5>5. QED BY <2>1, <5>2, <5>3, <5>4
            <4>3. CASE k # Len(t) /\ ~(Len(s) < DedupeMax)
                <5>1. Len(s) = DedupeMax /\ Len(t) = Len(s) /\ Len(s) <= Len(d)
                    BY <1>2, <3>1, <4>3
                <5>2. /\ k + 1 \in 1 .. Len(s) /\ k \in 1 .. Len(t) - 1
                      /\ Len(d) - Len(s) + (k + 1) \in 1 .. Len(d)
                    BY <3>1, <4>3, <5>1
                <5>3. Len(e) - Len(t) + k = Len(d) - Len(s) + (k + 1)
                    BY <3>1, <5>1, <5>2
                <5>4. t[k] = s[k + 1] /\ s[k + 1] = d[Len(d) - Len(s) + (k + 1)]
                    BY <2>1, <2>2, <4>3, <5>2
                <5>5. QED BY <2>1, <5>2, <5>3, <5>4
            <4>4. QED BY <4>1, <4>2, <4>3
        <3>4. QED BY <3>2, <3>3
    <2>4. Apart(e)
        <3>1. SUFFICES ASSUME NEW m \in DOMAIN e, NEW n \in DOMAIN e, m < n, e[m] = e[n]
                       PROVE  n - m > DedupeMax
            OBVIOUS
        <3>2. m \in 1 .. Len(d) + 1 /\ n \in 1 .. Len(d) + 1 /\ Len(d) \in Nat /\ Len(s) \in Nat
            BY <2>1, <2>2
        <3>3. CASE n \in 1 .. Len(d)
            <4>1. m \in 1 .. Len(d)
                BY <3>1, <3>2, <3>3
            <4>2. d[m] = d[n]
                BY <2>1, <3>1, <3>3, <4>1
            <4>3. m \in DOMAIN d /\ n \in DOMAIN d
                BY <2>2, <3>3, <4>1
            <4>4. QED BY <2>2, <3>1, <4>2, <4>3
        <3>4. CASE n = Len(d) + 1
            <4>1. SUFFICES ASSUME n - m <= DedupeMax PROVE FALSE
                BY <1>2, <3>2
            <4>2. m \in 1 .. Len(d) /\ d[m] = g
                BY <2>1, <3>1, <3>2, <3>4
            <4>3. Len(s) = IF Len(d) < DedupeMax THEN Len(d) ELSE DedupeMax
                BY <2>2
            <4>4. /\ m - (Len(d) - Len(s)) \in 1 .. Len(s)
                  /\ Len(d) - Len(s) + (m - (Len(d) - Len(s))) = m
                BY <1>2, <3>2, <3>4, <4>1, <4>2, <4>3
            <4>5. s[m - (Len(d) - Len(s))] = g
                BY <2>2, <4>2, <4>4
            <4>6. g \in Elements(s)
                BY <2>2, <4>4, <4>5 DEF Elements
            <4>7. QED BY <2>1, <4>6
        <3>5. QED BY <3>2, <3>3, <3>4
    <2>5. QED BY <2>3, <2>4 DEF t, e
<1>4. ASSUME Restart(i) PROVE Recent(seen'[i], dispatched'[i]) /\ Apart(dispatched'[i])
    <2>1. seen'[i] = <<>> /\ dispatched'[i] = <<>>
        BY <1>4 DEF Restart, DispatcherTypes
    <2>2. QED BY <1>2, <2>1
<1>5. ASSUME NEW j \in Instance, j # i, Dispatch(j) \/ Restart(j)
      PROVE  seen'[i] = seen[i] /\ dispatched'[i] = dispatched[i]
    BY <1>5 DEF Dispatch, Restart, DispatcherTypes
<1> HIDE DEF Recent, Apart
<1>6. QED BY <1>1, <1>3, <1>4, <1>5, RoutingWriters

-----------------------------------------------------------------------------
(* Replay buffers.                                                         *)

\* An ascending ring, cut at k and given a newer event.
Grown(s, t, g, k) ==
    /\ s \in Seq(Nat) /\ t \in Seq(Nat) /\ g \in Nat /\ k \in 1 .. Len(s) + 1
    /\ \A m, n \in 1 .. Len(s) : m < n => s[m] < s[n]
    /\ \A n \in 1 .. Len(s) : s[n] < g
    /\ Len(t) = Len(s) + 2 - k
    /\ \A j \in 1 .. Len(s) + 1 - k : t[j] = s[k + j - 1]
    /\ t[Len(s) + 2 - k] = g

LEMMA RingGrows ==
    ASSUME NEW s, NEW t, NEW g, NEW k, Grown(s, t, g, k)
    PROVE  /\ Elements(t) \subseteq Elements(s) \cup {g}
           /\ \A m, n \in 1 .. Len(t) : m < n => t[m] < t[n]
           /\ Len(t) > 0
           /\ \E n \in 1 .. Len(t) : t[n] = g
           /\ \A h \in Nat :
                /\ h < g /\ t[1] <= h
                /\ s[1] <= h => \E n \in 1 .. Len(s) : s[n] = h
                => \E n \in 1 .. Len(t) : t[n] = h
<1> DEFINE z == Len(s) + 2 - k
<1> /\ s \in Seq(Nat) /\ t \in Seq(Nat) /\ g \in Nat /\ k \in 1 .. Len(s) + 1
    BY DEF Grown
<1> /\ \A m, n \in 1 .. Len(s) : m < n => s[m] < s[n]
    /\ \A n \in 1 .. Len(s) : s[n] < g
    /\ Len(t) = Len(s) + 2 - k
    /\ \A j \in 1 .. Len(s) + 1 - k : t[j] = s[k + j - 1]
    /\ t[Len(s) + 2 - k] = g
    BY DEF Grown
<1>1. Len(s) \in Nat /\ z \in Nat \ {0} /\ Len(t) = z /\ t[z] = g
    OBVIOUS
<1>2. \A j \in 1 .. z - 1 : k + j - 1 \in 1 .. Len(s) /\ t[j] = s[k + j - 1]
    OBVIOUS
<1>3. \A j \in k .. Len(s) : j - k + 1 \in 1 .. z - 1 /\ k + (j - k + 1) - 1 = j
    OBVIOUS
<1> HIDE DEF z
<1>4. \A j \in 1 .. z - 1 : t[j] < g
    BY <1>2
<1>5. \A j \in 1 .. z : j = z \/ j \in 1 .. z - 1
    BY <1>1
<1>6. Elements(t) \subseteq Elements(s) \cup {g}
    <2>1. \A j \in 1 .. z : t[j] \in Elements(s) \cup {g}
        <3>1. \A j \in 1 .. z - 1 : t[j] \in Elements(s)
            BY <1>2, ElementsOf
        <3>2. QED BY <1>1, <1>5, <3>1
    <2>2. QED BY <1>1, <2>1, ElementsOf
<1>7. ASSUME NEW m \in 1 .. z, NEW n \in 1 .. z, m < n PROVE t[m] < t[n]
    <2>1. m \in 1 .. z - 1
        BY <1>1, <1>7
    <2>2. CASE n = z
        BY <1>1, <1>4, <2>1, <2>2
    <2>3. CASE n \in 1 .. z - 1
        <3>1. k + m - 1 < k + n - 1
            BY <1>1, <1>7
        <3>2. s[k + m - 1] < s[k + n - 1]
            BY <1>2, <2>1, <2>3, <3>1
        <3>3. QED BY <1>2, <2>1, <2>3, <3>2
    <2>4. QED BY <1>5, <2>2, <2>3
<1>8. ASSUME NEW h \in Nat, h < g, t[1] <= h,
             s[1] <= h => \E n \in 1 .. Len(s) : s[n] = h
      PROVE  \E n \in 1 .. Len(t) : t[n] = h
    <2>1. 1 \in 1 .. z - 1
        BY <1>1, <1>8
    <2>2. t[1] = s[k] /\ k \in 1 .. Len(s)
        <3>1. k + 1 - 1 = k
            OBVIOUS
        <3>2. QED BY <1>2, <2>1, <3>1
    <2>3. s[1] <= s[k] /\ s[1] \in Nat /\ s[k] \in Nat
        <3>1. s[k] \in Nat /\ 1 \in 1 .. Len(s) /\ s[1] \in Nat
            BY <1>1, <2>2
        <3>2. k = 1 \/ 1 < k
            OBVIOUS
        <3>3. QED BY <2>2, <3>1, <3>2
    <2>4. PICK n \in 1 .. Len(s) : s[n] = h
        BY <1>8, <2>2, <2>3
    <2>5. ~(n < k)
        BY <1>8, <2>2, <2>3, <2>4
    <2>6. n \in k .. Len(s)
        BY <1>1, <2>5
    <2>7. n - k + 1 \in 1 .. z - 1 /\ t[n - k + 1] = s[n]
        BY <1>2, <1>3, <2>6
    <2>8. n - k + 1 \in 1 .. Len(t)
        BY <1>1, <2>7
    <2>9. QED BY <2>4, <2>7, <2>8
<1>9. QED BY <1>1, <1>6, <1>7, <1>8

LEMMA RingsReachStep ==
    ASSUME OutboxTypes, RowsApart, SeenIsRecent, EventsAreRows, RingsReach, Next
    PROVE  RingsReach'
<1> SUFFICES ASSUME NEW i \in Instance, NEW c \in Conv
             PROVE  /\ Elements(ring'[i][c]) \subseteq Elements(dispatched'[i])
                    /\ Ascending(dispatched'[i]) => ReachesBack(ring[i][c], c, i)'
    BY DEF RingsReach
<1> DispatcherTypes /\ WriterTypes BY DEF OutboxTypes
<1>1. /\ Elements(ring[i][c]) \subseteq Elements(dispatched[i])
      /\ Ascending(dispatched[i]) => ReachesBack(ring[i][c], c, i)
    BY DEF RingsReach
\* A row that commits was not routed before.
<1>2. ASSUME ring'[i] = ring[i], dispatched'[i] = dispatched[i]
      PROVE  /\ Elements(ring'[i][c]) \subseteq Elements(dispatched'[i])
             /\ Ascending(dispatched'[i]) => ReachesBack(ring[i][c], c, i)'
    <2>1. ASSUME NEW r \in changeLog', r.global \in Elements(dispatched[i]) PROVE r \in changeLog
        <3>1. CASE changeLog' = changeLog
            BY <3>1
        <3>2. ASSUME NEW w \in Writer, Commit(w) PROVE r \in changeLog
            <4>1. changeLog' = changeLog \cup {row[w]} /\ row[w].global \notin Globals(changeLog)
                BY <3>2 DEF Commit, RowsApart, Globals
            <4>2. r.global \in Globals(changeLog)
                BY <2>1 DEF EventsAreRows
            <4>3. QED BY <4>1, <4>2
        <3>3. QED BY <3>1, <3>2, OnlyCommitsAdd
    <2>2. QED BY <1>1, <1>2, <2>1 DEF ReachesBack
<1>3. ASSUME Restart(i)
      PROVE  /\ Elements(ring'[i][c]) \subseteq Elements(dispatched'[i])
             /\ Ascending(dispatched'[i]) => ReachesBack(ring[i][c], c, i)'
    <2>1. ring'[i][c] = <<>> /\ dispatched'[i] = <<>>
        BY <1>3 DEF Restart, DispatcherTypes
    <2>2. Elements(<<>>) = {} /\ 1 .. Len(<<>>) = {}
        BY DEF Elements
    <2>3. QED BY <2>1, <2>2 DEF ReachesBack
<1>4. ASSUME Dispatch(i), ~UNCHANGED <<seen, ring, dispatched>>
      PROVE  /\ Elements(ring'[i][c]) \subseteq Elements(dispatched'[i])
             /\ Ascending(dispatched'[i]) => ReachesBack(ring[i][c], c, i)'
    <2> DEFINE e == Head(inbox[i])
               g == e.global
               d == dispatched[i]
               dd == dispatched'[i]
    <2>1. /\ g \in Nat /\ dd \in Seq(Nat) /\ d \in Seq(Nat)
          /\ Len(dd) = Len(d) + 1 /\ dd[Len(d) + 1] = g
          /\ \A n \in 1 .. Len(d) : dd[n] = d[n]
        BY <1>4, SeenAfterDispatch DEF DispatcherTypes
    <2>2. e \in changeLog /\ e.conv \in Conv \cup {NoConv}
        <3>1. e \in Row /\ e = inbox[i][1] /\ 1 \in 1 .. Len(inbox[i])
            BY <1>4, InboxParts DEF Dispatch, DispatcherTypes
        <3>2. QED BY <3>1 DEF EventsAreRows, Row
    <2>3. changeLog' = changeLog
        BY <1>4 DEF Dispatch, writers
    <2>4. \A r \in changeLog : r.global = g => r = e
        BY <2>2 DEF RowsApart
    <2> HIDE DEF g, d, dd
    <2>5. Elements(dd) = Elements(d) \cup {g} /\ Elements(d) \subseteq Nat
        <3>1. \A n \in 1 .. Len(dd) : n \in 1 .. Len(d) \/ n = Len(d) + 1
            BY <2>1
        <3>2. Len(d) + 1 \in 1 .. Len(dd) /\ 1 .. Len(d) \subseteq 1 .. Len(dd)
            BY <2>1
        <3>3. \A x : x \in Elements(dd) <=> x \in Elements(d) \cup {g}
            <4>1. \A x : x \in Elements(d) <=> \E n \in 1 .. Len(d) : d[n] = x
                BY <2>1, ElementsOf
            <4>2. \A x : x \in Elements(dd) <=> \E n \in 1 .. Len(dd) : dd[n] = x
                BY <2>1, ElementsOf
            <4>3. QED BY <2>1, <3>1, <3>2, <4>1, <4>2
        <3>4. \A n \in 1 .. Len(d) : d[n] \in Nat
            BY <2>1, ElementOfSeq
        <3>5. Elements(d) \subseteq Nat
            BY <2>1, <3>4, ElementsOf
        <3>6. QED BY <3>3, <3>5
    <2>6. ASSUME Ascending(dd)
          PROVE  Ascending(d) /\ \A h \in Elements(d) : h < g
        <3>1. \A n \in 1 .. Len(d) : n \in 1 .. Len(dd) /\ Len(d) + 1 \in 1 .. Len(dd) /\ n < Len(d) + 1
            BY <2>1
        <3>2. \A n \in 1 .. Len(d) : dd[n] < dd[Len(d) + 1]
            BY <2>1, <2>6, <3>1, AscendingIs
        <3>3. \A m, n \in 1 .. Len(d) : m < n => dd[m] < dd[n]
            BY <2>1, <2>6, <3>1, AscendingIs
        <3>4. Ascending(d)
            BY <2>1, <3>3, AscendingIs
        <3>5. \A n \in 1 .. Len(d) : d[n] < g
            BY <2>1, <3>2
        <3>6. QED BY <2>1, <3>4, <3>5, ElementsOf
    <2>7. CASE c # e.conv
        <3>1. ring'[i][c] = ring[i][c]
            <4>1. CASE e.conv \in Conv
                BY <1>4, <2>7, <4>1, RingAfterDispatch
            <4>2. CASE e.conv \notin Conv
                BY <1>4, <4>2 DEF Dispatch
            <4>3. QED BY <4>1, <4>2
        <3>2. Elements(ring'[i][c]) \subseteq Elements(dd)
            BY <1>1, <2>5, <3>1 DEF d
        <3>3. ASSUME Ascending(dd) PROVE ReachesBack(ring[i][c], c, i)'
            <4>1. ReachesBack(ring[i][c], c, i)
                BY <1>1, <2>6, <3>3 DEF d
            <4>2. \A r \in changeLog : r.conv = c /\ r.global \in Elements(dd) => r.global \in Elements(d)
                BY <2>4, <2>5, <2>7
            <4>3. QED BY <2>3, <3>1, <4>1, <4>2 DEF ReachesBack, d, dd
        <3>4. QED BY <3>2, <3>3 DEF dd
    <2>8. CASE c = e.conv
        <3> DEFINE s == ring[i][c]
                   t == ring'[i][c]
        <3>1. s \in Seq(Nat) /\ t \in Seq(Nat)
            BY <1>4, <2>8, RingAfterDispatch DEF DispatcherTypes
        <3>2. PICK k \in 1 .. Len(s) + 1 :
                 /\ Len(t) = Len(s) + 2 - k
                 /\ \A j \in 1 .. Len(s) + 1 - k : t[j] = s[k + j - 1]
                 /\ t[Len(s) + 2 - k] = g
            BY <1>4, <2>8, RingAfterDispatch DEF g
        <3>3. Elements(s) \subseteq Elements(d)
            BY <1>1 DEF d
        <3>4. Ascending(dd) => /\ \A m, n \in 1 .. Len(s) : m < n => s[m] < s[n]
                               /\ \A r \in changeLog : r.conv = c /\ r.global \in Elements(d) =>
                                    (s[1] <= r.global => \E n \in 1 .. Len(s) : s[n] = r.global)
            BY <1>1, <2>6 DEF ReachesBack, d
        <3>5. t = ring'[i][c]
            OBVIOUS
        <3> HIDE DEF s, t
        <3>6. Elements(t) \subseteq Elements(dd)
            <4>1. ASSUME NEW n \in 1 .. Len(t) PROVE t[n] \in Elements(s) \cup {g}
                <5>1. n \in 1 .. Len(s) + 1 - k \/ n = Len(s) + 2 - k
                    BY <3>1, <3>2
                <5>2. CASE n \in 1 .. Len(s) + 1 - k
                    <6>1. k + n - 1 \in 1 .. Len(s)
                        BY <3>1, <5>2
                    <6>2. QED BY <3>1, <3>2, <5>2, <6>1, ElementsOf
                <5>3. QED BY <3>2, <5>1, <5>2
            <4>2. Elements(t) \subseteq Elements(s) \cup {g}
                BY <3>1, <4>1, ElementsOf
            <4>3. QED BY <2>5, <3>3, <4>2
        <3>7. ASSUME Ascending(dd) PROVE ReachesBack(ring[i][c], c, i)'
            <4>1. \A n \in 1 .. Len(s) : s[n] < g
                BY <2>6, <3>1, <3>3, <3>7, ElementsOf
            <4>2. /\ \A m, n \in 1 .. Len(t) : m < n => t[m] < t[n]
                  /\ Len(t) > 0
                  /\ \E n \in 1 .. Len(t) : t[n] = g
                  /\ \A h \in Nat :
                       /\ h < g /\ t[1] <= h
                       /\ s[1] <= h => \E n \in 1 .. Len(s) : s[n] = h
                       => \E n \in 1 .. Len(t) : t[n] = h
                <5>1. \A m, n \in 1 .. Len(s) : m < n => s[m] < s[n]
                    BY <3>4, <3>7
                <5>2. /\ s \in Seq(Nat) /\ t \in Seq(Nat) /\ g \in Nat /\ k \in 1 .. Len(s) + 1
                      /\ Len(t) = Len(s) + 2 - k
                      /\ \A j \in 1 .. Len(s) + 1 - k : t[j] = s[k + j - 1]
                      /\ t[Len(s) + 2 - k] = g
                    BY <2>1, <3>1, <3>2
                <5>3. Grown(s, t, g, k)
                    BY <4>1, <5>1, <5>2 DEF Grown
                <5>4. QED BY <5>3, RingGrows
            <4>3. ASSUME NEW r \in changeLog, r.conv = c, r.global \in Elements(dd), t[1] <= r.global
                  PROVE  \E n \in 1 .. Len(t) : t[n] = r.global
                <5>1. CASE r.global = g
                    BY <4>2, <5>1
                <5>2. CASE r.global \in Elements(d)
                    <6>1. r.global \in Nat /\ r.global < g
                        BY <2>5, <2>6, <3>7, <5>2
                    <6>2. s[1] <= r.global => \E n \in 1 .. Len(s) : s[n] = r.global
                        BY <3>4, <3>7, <4>3, <5>2
                    <6>3. QED BY <4>2, <4>3, <6>1, <6>2
                <5>3. QED BY <2>5, <4>3, <5>1, <5>2
            <4>4. QED BY <2>3, <3>5, <4>2, <4>3 DEF ReachesBack, dd
        <3>8. QED BY <3>5, <3>6, <3>7 DEF dd
    <2>9. QED BY <2>7, <2>8
<1>5. ASSUME NEW j \in Instance, j # i, Dispatch(j) \/ Restart(j)
      PROVE  ring'[i] = ring[i] /\ dispatched'[i] = dispatched[i]
    <2>1. dispatched'[i] = dispatched[i]
        BY <1>5 DEF Dispatch, Restart, DispatcherTypes
    <2>2. ring'[i] = ring[i]
        BY <1>5 DEF Dispatch, Restart, DispatcherTypes
    <2>3. QED BY <2>1, <2>2
<1>6. QED BY <1>2, <1>3, <1>4, <1>5, RoutingWriters

-----------------------------------------------------------------------------
(* The invariant.                                                          *)

LEMMA InitInv == Init => OutboxInv
<1> SUFFICES ASSUME Init PROVE OutboxInv
    OBVIOUS
<1>1. OutboxTypes
    BY InitTypes
<1>2. RowsApart
    BY DEF Init, RowsApart
<1>3. BatchIsWhole
    BY DEF Init, BatchIsWhole, WholeFrom
<1>4. NoReadableRowSkipped
    BY DEF Init, NoReadableRowSkipped
<1>5. EventsAreRows
    BY DEF Init, EventsAreRows, Elements
<1>6. SeenIsRecent /\ DuplicatesOnlyAfterEviction
    BY DedupeAssumption DEF Init, SeenIsRecent, DuplicatesOnlyAfterEviction
<1>7. RingsReach
    BY DEF Init, RingsReach, ReachesBack, Elements
<1>8. QED BY <1>1, <1>2, <1>3, <1>4, <1>5, <1>6, <1>7 DEF OutboxInv

LEMMA NextInv == OutboxInv /\ Next => OutboxInv'
BY TypesStep, RowsApartStep, BatchIsWholeStep, NoRowSkippedStep, EventsAreRowsStep,
   SeenIsRecentStep, RingsReachStep DEF OutboxInv

LEMMA StutterInv == OutboxInv /\ UNCHANGED vars => OutboxInv'
<1> SUFFICES ASSUME OutboxInv, UNCHANGED vars PROVE OutboxInv'
    OBVIOUS
<1> USE DEF vars, OutboxInv
<1>1. OutboxTypes'
    BY DEF OutboxTypes, WriterTypes, RelayTypes, DispatcherTypes
<1>2. RowsApart'
    BY DEF RowsApart
<1>3. BatchIsWhole' /\ NoReadableRowSkipped'
    BY DEF BatchIsWhole, WholeFrom, NoReadableRowSkipped
<1>4. EventsAreRows'
    BY DEF EventsAreRows
<1>5. SeenIsRecent' /\ DuplicatesOnlyAfterEviction'
    BY DEF SeenIsRecent, DuplicatesOnlyAfterEviction
<1>6. RingsReach'
    BY DEF RingsReach, ReachesBack
<1>7. QED BY <1>1, <1>2, <1>3, <1>4, <1>5, <1>6

LEMMA InvHolds == Spec => []OutboxInv
<1>1. Init => OutboxInv
    BY InitInv
<1>2. OutboxInv /\ [Next]_vars => OutboxInv'
    BY NextInv, StutterInv
<1>3. QED BY <1>1, <1>2, PTL DEF Spec

-----------------------------------------------------------------------------
(* The theorems.                                                           *)

\* Every variable keeps its type: cursors and event numbers are naturals, batches
\* and inboxes are sequences of outbox rows, and the log is finite.
THEOREM OutboxTypesHold == Spec => []OutboxTypes
<1>1. OutboxInv => OutboxTypes
    BY DEF OutboxInv
<1>2. QED BY <1>1, InvHolds, PTL

\* The relay's cursor never passes a row it could have read and has not published,
\* whatever polls and publishes fail, for every number of relays and every batch
\* size: what lies behind the cursor was published or became visible too late
\* (relay.go:99-137).
THEOREM OutboxNoReadableRowSkipped == Spec => []NoReadableRowSkipped
<1>1. OutboxInv => NoReadableRowSkipped
    BY DEF OutboxInv
<1>2. QED BY <1>1, InvHolds, PTL

\* The dispatcher routes an event twice only when DedupeMax others or more came
\* between: until then the dedupe set, which forgets its oldest member, still
\* holds it (dispatcher.go:80-85, 311-325).
THEOREM OutboxDuplicatesOnlyAfterEviction == Spec => []DuplicatesOnlyAfterEviction
<1>1. OutboxInv => DuplicatesOnlyAfterEviction
    BY DEF OutboxInv
<1>2. QED BY <1>1, InvHolds, PTL

\* When events came in order, a cursor that CanReplay accepts is one from which
\* the rings have every event the dispatcher routed: pruning by age and the cut to
\* capacity take events off the front only, and CanReplay looks at the front of
\* every ring (dispatcher.go:218-293).
THEOREM OutboxAcceptedWindowIsWhole == Spec => []AcceptedWindowIsWhole
<1>1. OutboxInv => AcceptedWindowIsWhole
    <2> SUFFICES ASSUME OutboxInv,
                        NEW i \in Instance, Ascending(dispatched[i]),
                        NEW g \in Cursors, CanReplay(i, g),
                        NEW r \in changeLog, r.conv \in Conv, r.global > g,
                        r.global \in Elements(dispatched[i])
                 PROVE  r.global \in ReplaySince(i, g)
        BY DEF AcceptedWindowIsWhole
    <2> DEFINE s == ring[i][r.conv]
    <2>1. s \in Seq(Nat) /\ r.global \in Nat /\ g \in Nat
        BY DEF OutboxInv, OutboxTypes, DispatcherTypes, WriterTypes, Row, Cursors, Globals
    <2>2. Len(s) > 0 /\ (s[1] <= r.global => \E n \in 1 .. Len(s) : s[n] = r.global)
        BY DEF OutboxInv, RingsReach, ReachesBack
    <2>3. s # <<>> /\ Head(s) = s[1] /\ s[1] \in Nat
        BY <2>1, <2>2
    <2>4. g + 1 >= s[1]
        BY <2>3 DEF CanReplay
    <2>5. s[1] <= r.global
        BY <2>1, <2>3, <2>4
    <2>6. r.global \in Elements(s)
        BY <2>1, <2>2, <2>5, ElementsOf
    <2>7. QED BY <2>6 DEF ReplaySince
<1>2. QED BY <1>1, InvHolds, PTL
-----------------------------------------------------------------------------
(* Presence.  Its scripts tell the first and the last socket of a user     *)
(* from the others by what is in Redis, so PresenceInv says how far Redis  *)
(* knows the sockets: until a call fails it has every connected one, under *)
(* keys with time left (Held), and until the first fault it has no others  *)
(* (Exact).  What a broadcast that nothing overtook says is then true      *)
(* (FarewellsTrue, PeerTold).                                              *)

CONSTANT MaxId

VARIABLES nextId, ttl, sweep, interest, presenceFaults

P == INSTANCE Presence WITH faults <- presenceFaults

Life == {"registered", "announce", "live", "leaving", "farewell"}
Socket == [step : Life, at : Instance, id : Nat \ {0}, overtaken : BOOLEAN]

PresenceTypes ==
    /\ nextId \in [Instance -> Nat \ {0}]
    /\ sock \in [Slot -> {P!Free} \cup Socket]
    /\ online \in SUBSET Instance
    /\ conns \in [Instance -> SUBSET (Nat \ {0})]
    /\ ttl \in [P!Key -> 0 .. P!TTL]
    /\ sweep \in [Instance -> {"due", "hash", "set", "done"}]
    /\ interest \in BOOLEAN
    /\ presenceFaults \in Nat
    /\ failed \in BOOLEAN
    /\ told \in {"gone", "stale", "lost"} \cup P!Statuses

\* Two sockets of a process have two ids.
IdsApart ==
    \A k \in Slot : sock[k] # P!Free =>
        /\ sock[k].id < nextId[sock[k].at]
        /\ \A j \in Slot \ {k} :
             sock[j] # P!Free /\ sock[j].at = sock[k].at => sock[j].id # sock[k].id

\* A connected socket is in Redis, under keys that its Connect or a sweep has
\* touched in time.
Shown(k) == sock[k].at \in online /\ sock[k].id \in conns[sock[k].at]
Fresh(k) ==
    LET i == sock[k].at IN
    /\ 0 < ttl[P!connsKey(i)] /\ 0 < ttl[P!onlineKey]
    /\ ~P!At(k, "leaving") /\ sweep[i] \in {"set", "done"} => ttl[P!onlineKey] = P!TTL
    /\ ~P!At(k, "leaving") /\ sweep[i] = "done" => ttl[P!connsKey(i)] = P!TTL
Held == \A k \in P!Connected : Shown(k) /\ Fresh(k)

\* Redis has the connected sockets and no others.
IdsOf(i) == {sock[k].id : k \in {j \in P!Connected : sock[j].at = i}}
Exact ==
    /\ \A i \in Instance : conns[i] = IdsOf(i)
    /\ online = {sock[k].at : k \in P!Connected}

\* Only a farewell may have been overtaken.
OnTime ==
    /\ \A k \in P!Connected : ~sock[k].overtaken
    /\ \A k \in Slot : P!At(k, "registered") => ~sock[k].overtaken

\* A farewell that nothing has overtaken is true.
FarewellsTrue == \A k \in Slot : P!At(k, "farewell") /\ ~sock[k].overtaken => P!Connected = {}

\* With nothing to come but what was overtaken, the peer has been told.
PeerTold ==
    told # "stale" /\ (\A k \in P!Transitions : sock[k].overtaken) =>
        (told = "gone" <=> P!Connected = {})

PresenceInv ==
    /\ PresenceTypes
    /\ IdsApart
    /\ ~failed => Held
    /\ failed => told = "lost"
    /\ told # "lost" => Exact /\ OnTime /\ FarewellsTrue /\ PeerTold

-----------------------------------------------------------------------------
(* Sockets.                                                                *)

SameSocket(j) ==
    /\ sock'[j].step = sock[j].step
    /\ sock'[j].at = sock[j].at
    /\ sock'[j].id = sock[j].id

Stepped(k, s) ==
    /\ sock'[k] \in Socket
    /\ sock'[k].step = s
    /\ sock'[k].at = sock[k].at
    /\ sock'[k].id = sock[k].id
    /\ sock'[k].overtaken = sock[k].overtaken

SockTypes == sock \in [Slot -> {P!Free} \cup Socket]

LEMMA FreeIsNoSocket ==
    /\ P!Free \notin Socket
    /\ P!Free.step = "free"
    /\ \A r \in Socket : r.step # "free"
BY DEF P!Free, Socket, Life

LEMMA OpenSlots ==
    ASSUME SockTypes, NEW k \in Slot
    PROVE  /\ sock[k] = P!Free <=> sock[k].step = "free"
           /\ sock[k] # P!Free <=> sock[k] \in Socket
           /\ sock[k] # P!Free => sock[k].at \in Instance /\ sock[k].id \in Nat \ {0}
                                /\ sock[k].step \in Life /\ sock[k].overtaken \in BOOLEAN
BY FreeIsNoSocket DEF SockTypes, Socket

LEMMA SteppedSocket ==
    ASSUME NEW r \in Socket, NEW s \in Life
    PROVE  /\ [r EXCEPT !.step = s] \in Socket
           /\ [r EXCEPT !.step = s].step = s
           /\ [r EXCEPT !.step = s].at = r.at
           /\ [r EXCEPT !.step = s].id = r.id
           /\ [r EXCEPT !.step = s].overtaken = r.overtaken
BY DEF Socket

LEMMA OvertakenSocket ==
    ASSUME NEW r \in Socket
    PROVE  /\ [r EXCEPT !.overtaken = TRUE] \in Socket
           /\ [r EXCEPT !.overtaken = TRUE].step = r.step
           /\ [r EXCEPT !.overtaken = TRUE].at = r.at
           /\ [r EXCEPT !.overtaken = TRUE].id = r.id
           /\ [r EXCEPT !.overtaken = TRUE].overtaken = TRUE
BY DEF Socket

LEMMA GotoMoves ==
    ASSUME SockTypes, NEW k \in Slot, sock[k] # P!Free, NEW s \in Life, P!Goto(k, s)
    PROVE  SockTypes' /\ Stepped(k, s) /\ \A j \in Slot \ {k} : sock'[j] = sock[j]
<1>1. sock[k] \in Socket
  BY OpenSlots
<1> DEFINE r == [sock[k] EXCEPT !.step = s]
<1>2. sock' = [sock EXCEPT ![k] = r]
  BY <1>1 DEF P!Goto, SockTypes
<1>3. /\ r \in Socket /\ r.step = s /\ r.at = sock[k].at /\ r.id = sock[k].id
      /\ r.overtaken = sock[k].overtaken
  BY <1>1, SteppedSocket
<1> HIDE DEF r
<1>4. sock'[k] = r /\ \A j \in Slot \ {k} : sock'[j] = sock[j]
  BY <1>2 DEF SockTypes
<1>5. SockTypes'
  BY <1>2, <1>3 DEF SockTypes
<1> QED BY <1>3, <1>4, <1>5 DEF Stepped

LEMMA ScriptMoves ==
    ASSUME SockTypes, NEW k \in Slot, sock[k] # P!Free, NEW s \in Life, P!Moved(k, s)
    PROVE  /\ SockTypes' /\ Stepped(k, s)
           /\ \A j \in Slot \ {k} :
                /\ SameSocket(j)
                /\ sock[j] = P!Free => sock'[j] = P!Free
                /\ sock[j] # P!Free => sock'[j] # P!Free
                /\ s \in {"announce", "farewell"} /\ j \in P!Transitions => sock'[j].overtaken
                /\ s \notin {"announce", "farewell"} \/ j \notin P!Transitions => sock'[j] = sock[j]
<1>1. sock[k] \in Socket
  BY OpenSlots
<1>2. /\ sock'[k] = [sock[k] EXCEPT !.step = s]
      /\ \A j \in Slot \ {k} :
           sock'[j] = IF s \in {"announce", "farewell"} /\ j \in P!Transitions
                        THEN [sock[j] EXCEPT !.overtaken = TRUE] ELSE sock[j]
      /\ DOMAIN sock' = Slot
      /\ sock' = [j \in Slot |-> sock'[j]]
  BY DEF P!Moved
<1>3. Stepped(k, s)
  BY <1>1, <1>2, SteppedSocket DEF Stepped
<1>4. ASSUME NEW j \in Slot \ {k}
      PROVE  /\ SameSocket(j)
             /\ sock[j] = P!Free => sock'[j] = P!Free
             /\ sock[j] # P!Free => sock'[j] # P!Free
             /\ s \in {"announce", "farewell"} /\ j \in P!Transitions => sock'[j].overtaken
             /\ s \notin {"announce", "farewell"} \/ j \notin P!Transitions => sock'[j] = sock[j]
             /\ sock'[j] \in {P!Free} \cup Socket
  <2>1. CASE s \in {"announce", "farewell"} /\ j \in P!Transitions
    <3>1. sock[j] \in Socket
      BY <2>1, OpenSlots, FreeIsNoSocket DEF P!Transitions
    <3>2. sock'[j] = [sock[j] EXCEPT !.overtaken = TRUE]
      BY <1>2, <2>1
    <3> QED BY <3>1, <3>2, <2>1, OvertakenSocket, FreeIsNoSocket DEF SameSocket
  <2>2. CASE ~(s \in {"announce", "farewell"} /\ j \in P!Transitions)
    <3>1. sock'[j] = sock[j]
      BY <1>2, <2>2
    <3> QED BY <3>1, <2>2 DEF SameSocket, SockTypes
  <2> QED BY <2>1, <2>2
<1>5. SockTypes'
  BY <1>2, <1>3, <1>4 DEF SockTypes, Stepped
<1> QED BY <1>3, <1>4, <1>5

LEMMA FreedSlot ==
    ASSUME SockTypes, NEW k \in Slot,
           sock' = [sock EXCEPT ![k] = P!Free]
    PROVE  SockTypes' /\ sock'[k] = P!Free /\ \A j \in Slot \ {k} : sock'[j] = sock[j]
BY DEF SockTypes

\* A slot that is in use after the step was in use before it, by the same socket.
KeepsIds ==
    \A j \in Slot : sock'[j] # P!Free =>
        sock[j] # P!Free /\ sock'[j].at = sock[j].at /\ sock'[j].id = sock[j].id

OthersKeep(k) == \A j \in Slot \ {k} : SameSocket(j) /\ (sock[j] = P!Free <=> sock'[j] = P!Free)

LEMMA KeepsIdsWhenStepped ==
    ASSUME NEW k \in Slot, sock[k] # P!Free, NEW s, OthersKeep(k),
           Stepped(k, s) \/ sock'[k] = P!Free
    PROVE  KeepsIds
BY FreeIsNoSocket DEF KeepsIds, OthersKeep, Stepped, SameSocket

LEMMA UnchangedKeep ==
    ASSUME NEW k, \A j \in Slot \ {k} : sock'[j] = sock[j]
    PROVE  OthersKeep(k)
BY DEF OthersKeep, SameSocket

LEMMA StepNeedsSocket ==
    ASSUME SockTypes, NEW k \in Slot, NEW s \in Life, P!At(k, s)
    PROVE  sock[k] # P!Free
BY FreeIsNoSocket DEF P!At, P!Free, Life

LEMMA BegunMoves ==
    ASSUME SockTypes, NEW k \in Slot, NEW s \in Life, NEW t \in Life, P!At(k, s),
           P!Goto(k, t) \/ P!Moved(k, t)
    PROVE  SockTypes' /\ KeepsIds /\ OthersKeep(k) /\ Stepped(k, t) /\ sock[k] # P!Free
<1>1. sock[k] # P!Free
  BY StepNeedsSocket
<1>2. SockTypes' /\ OthersKeep(k) /\ Stepped(k, t)
  <2>1. CASE P!Goto(k, t)
    BY <1>1, <2>1, GotoMoves, UnchangedKeep
  <2>2. CASE P!Moved(k, t)
    <3>1. SockTypes' /\ Stepped(k, t) /\ \A j \in Slot \ {k} :
             SameSocket(j) /\ (sock[j] = P!Free <=> sock'[j] = P!Free)
      BY <1>1, <2>2, ScriptMoves
    <3> QED BY <3>1 DEF OthersKeep
  <2> QED BY <2>1, <2>2
<1> QED BY <1>1, <1>2, KeepsIdsWhenStepped

LEMMA BegunEnds ==
    ASSUME SockTypes, NEW k \in Slot, NEW s \in Life, P!At(k, s),
           sock' = [sock EXCEPT ![k] = P!Free]
    PROVE  SockTypes' /\ KeepsIds /\ OthersKeep(k) /\ sock'[k] = P!Free /\ sock[k] # P!Free
<1>1. sock[k] # P!Free
  BY StepNeedsSocket
<1>2. SockTypes' /\ OthersKeep(k) /\ sock'[k] = P!Free
  BY FreedSlot, UnchangedKeep
<1> QED BY <1>1, <1>2, KeepsIdsWhenStepped

OpenStep == \E k \in Slot : \E i \in Instance : P!Open(k, i)

LEMMA Steps == {"registered", "announce", "live", "leaving", "farewell"} \subseteq Life
BY DEF Life

LEMMA CrashFrees ==
    ASSUME SockTypes, NEW i \in Instance, P!Crash(i)
    PROVE  /\ SockTypes' /\ KeepsIds
           /\ \A j \in Slot : sock'[j] = sock[j] \/ sock'[j] = P!Free
           /\ \A j \in Slot : sock'[j] # P!Free => sock[j].at # i
BY DEF P!Crash, SockTypes, KeepsIds

LEMMA SocketsStep ==
    ASSUME SockTypes, [P!Next]_(P!vars), ~OpenStep
    PROVE  SockTypes' /\ KeepsIds
<1>1. CASE UNCHANGED sock
  BY <1>1 DEF SockTypes, KeepsIds
<1>2. ASSUME NEW k \in Slot, P!Endpoint(k) PROVE SockTypes' /\ KeepsIds
  <2>1. CASE P!Connect(k)
    <3>1. P!Moved(k, "announce") \/ P!Moved(k, "live")
      BY <2>1 DEF P!Connect
    <3> QED BY <3>1, <2>1, BegunMoves, Steps DEF P!Connect
  <2>2. CASE P!AnnounceOnline(k)
    BY <2>2, BegunMoves, Steps DEF P!AnnounceOnline
  <2>3. CASE P!Update(k) \/ P!SetConversation(k)
    BY <2>3, <1>1 DEF P!Update, P!SetConversation
  <2>4. CASE P!Unregister(k)
    BY <2>4, BegunMoves, Steps DEF P!Unregister
  <2>5. CASE P!Disconnect(k)
    <3>1. P!At(k, "leaving") /\ (P!Moved(k, "farewell") \/ sock' = [sock EXCEPT ![k] = P!Free])
      BY <2>5 DEF P!Disconnect
    <3> QED BY <3>1, BegunMoves, BegunEnds, Steps
  <2>6. CASE P!AnnounceOffline(k)
    BY <2>6, BegunEnds, Steps DEF P!AnnounceOffline
  <2>7. CASE P!ConnectFails(k)
    BY <2>7, BegunMoves, Steps DEF P!ConnectFails
  <2>8. CASE P!DisconnectFails(k)
    BY <2>8, BegunEnds, Steps DEF P!DisconnectFails
  <2>9. CASE P!BroadcastFails(k)
    <3>1. CASE P!At(k, "announce")
      BY <2>9, <3>1, BegunMoves, Steps DEF P!BroadcastFails, P!Goto
    <3>2. CASE ~P!At(k, "announce")
      <4>1. P!At(k, "farewell") /\ sock' = [sock EXCEPT ![k] = P!Free]
        BY <2>9, <3>2 DEF P!BroadcastFails, P!Transitions, P!At
      <4> QED BY <4>1, BegunEnds, Steps
    <3> QED BY <3>1, <3>2
  <2> QED BY <1>2, <2>1, <2>2, <2>3, <2>4, <2>5, <2>6, <2>7, <2>8, <2>9
       DEF P!Endpoint, OpenStep
<1>3. ASSUME NEW i \in Instance, P!Sweeper(i) \/ P!TouchFails(i) PROVE UNCHANGED sock
  BY <1>3 DEF P!Sweeper, P!BeginSweep, P!TouchOnline, P!TouchConns, P!TouchFails
<1>4. ASSUME NEW i \in Instance, P!Crash(i) PROVE SockTypes' /\ KeepsIds
  BY <1>4, CrashFrees
<1>5. ASSUME NEW key \in P!Key, P!Expire(key) PROVE UNCHANGED sock
  BY <1>5 DEF P!Expire
<1>6. P!DropConversation \/ P!Tick => UNCHANGED sock
  BY DEF P!DropConversation, P!Tick
<1>7. UNCHANGED P!vars => UNCHANGED sock
  BY DEF P!vars
<1> QED BY <1>1, <1>2, <1>3, <1>4, <1>5, <1>6, <1>7 DEF P!Next

LEMMA OpenMoves ==
    ASSUME SockTypes, nextId \in [Instance -> Nat \ {0}], NEW k \in Slot, NEW i \in Instance,
           P!Open(k, i)
    PROVE  /\ SockTypes'
           /\ sock'[k] \in Socket /\ sock'[k].step = "registered" /\ sock'[k].at = i
           /\ sock'[k].id = nextId[i] /\ sock'[k].overtaken = FALSE
           /\ \A j \in Slot \ {k} : sock'[j] = sock[j]
<1> DEFINE r == [step |-> "registered", at |-> i, id |-> nextId[i], overtaken |-> FALSE]
<1>1. r \in Socket /\ r.step = "registered" /\ r.at = i /\ r.id = nextId[i] /\ r.overtaken = FALSE
  BY DEF Socket, Life
<1>2. sock' = [sock EXCEPT ![k] = r]
  BY DEF P!Open
<1> HIDE DEF r
<1>3. sock'[k] = r /\ SockTypes' /\ \A j \in Slot \ {k} : sock'[j] = sock[j]
  BY <1>1, <1>2 DEF SockTypes
<1> QED BY <1>1, <1>3

-----------------------------------------------------------------------------
(* Types and ids.                                                          *)

LEMMA KeyTypes ==
    /\ P!TTL = 2 /\ P!TTL \in 0 .. P!TTL /\ 0 \in 0 .. P!TTL
    /\ P!onlineKey \in P!Key
    /\ \A i \in Instance : P!connsKey(i) \in P!Key
    /\ \A i : P!connsKey(i) # P!onlineKey /\ P!connsKey(i).instance = i
    /\ \A i, j : P!connsKey(i) = P!connsKey(j) => i = j
    /\ \A key \in P!Key : key = P!onlineKey \/ \E i \in Instance : key = P!connsKey(i)
<1>1. \A i : P!connsKey(i).kind = "conns" /\ P!connsKey(i).instance = i
  BY DEF P!connsKey
<1>2. P!onlineKey.kind = "online"
  BY DEF P!onlineKey
<1> QED BY <1>1, <1>2 DEF P!TTL, P!Key

KeysTyped ==
    /\ online \in SUBSET Instance
    /\ conns \in [Instance -> SUBSET (Nat \ {0})]
    /\ ttl \in [P!Key -> 0 .. P!TTL]

LEMMA JoinedTypes ==
    ASSUME KeysTyped, NEW i \in Instance, NEW id \in Nat \ {0}, P!Joined(i, id)
    PROVE  KeysTyped'
<1>1. online' \in SUBSET Instance
  BY DEF P!Joined, KeysTyped
<1>2. conns' \in [Instance -> SUBSET (Nat \ {0})]
  BY DEF P!Joined, KeysTyped
<1>3. ttl' \in [P!Key -> 0 .. P!TTL]
  BY KeyTypes DEF P!Joined, KeysTyped
<1> QED BY <1>1, <1>2, <1>3 DEF KeysTyped

LEMMA LeftTypes ==
    ASSUME KeysTyped, NEW i \in Instance, NEW id \in Nat \ {0}, P!Left(i, id)
    PROVE  KeysTyped'
<1>1. online' \in SUBSET Instance
  BY DEF P!Left, KeysTyped
<1>2. conns' \in [Instance -> SUBSET (Nat \ {0})]
  BY DEF P!Left, KeysTyped
<1>3. ttl' \in [P!Key -> 0 .. P!TTL]
  BY KeyTypes DEF P!Left, KeysTyped
<1> QED BY <1>1, <1>2, <1>3 DEF KeysTyped

LEMMA KeysStep ==
    ASSUME SockTypes, KeysTyped, [P!Next]_(P!vars)
    PROVE  KeysTyped'
<1>1. CASE UNCHANGED P!keys
  BY <1>1 DEF P!keys, KeysTyped
<1>2. ASSUME NEW k \in Slot, P!Endpoint(k) PROVE KeysTyped'
  <2>1. ASSUME P!At(k, "registered") \/ P!At(k, "leaving")
        PROVE  sock[k].at \in Instance /\ sock[k].id \in Nat \ {0}
    BY <2>1, StepNeedsSocket, OpenSlots, Steps
  <2>2. CASE P!Connect(k) \/ P!ConnectFails(k)
    <3>1. P!Joined(sock[k].at, sock[k].id) \/ UNCHANGED P!keys
      BY <2>2 DEF P!Connect, P!ConnectFails
    <3>2. P!At(k, "registered")
      BY <2>2 DEF P!Connect, P!ConnectFails
    <3> QED BY <3>1, <3>2, <2>1, <1>1, JoinedTypes
  <2>3. CASE P!Disconnect(k) \/ P!DisconnectFails(k)
    <3>1. P!Left(sock[k].at, sock[k].id) \/ UNCHANGED P!keys
      BY <2>3 DEF P!Disconnect, P!DisconnectFails
    <3>2. P!At(k, "leaving")
      BY <2>3 DEF P!Disconnect, P!DisconnectFails
    <3> QED BY <3>1, <3>2, <2>1, <1>1, LeftTypes
  <2>4. CASE \/ \E i \in Instance : P!Open(k, i)
             \/ P!AnnounceOnline(k) \/ P!Update(k) \/ P!SetConversation(k)
             \/ P!Unregister(k) \/ P!AnnounceOffline(k) \/ P!BroadcastFails(k)
    BY <2>4, <1>1 DEF P!Open, P!AnnounceOnline, P!Update, P!SetConversation,
                      P!Unregister, P!AnnounceOffline, P!BroadcastFails, P!keys
  <2> QED BY <1>2, <2>2, <2>3, <2>4 DEF P!Endpoint
<1>3. ASSUME NEW i \in Instance, P!Sweeper(i) PROVE KeysTyped'
  <2>1. UNCHANGED <<online, conns>>
    BY <1>3 DEF P!Sweeper, P!BeginSweep, P!TouchOnline, P!TouchConns, P!keys
  <2>2. \/ ttl' = ttl
        \/ ttl' = [ttl EXCEPT ![P!onlineKey] = P!TTL]
        \/ ttl' = [ttl EXCEPT ![P!connsKey(i)] = P!TTL]
    BY <1>3 DEF P!Sweeper, P!BeginSweep, P!TouchOnline, P!TouchConns, P!keys
  <2>3. ttl' \in [P!Key -> 0 .. P!TTL]
    BY <2>2, KeyTypes DEF KeysTyped
  <2> QED BY <2>1, <2>3 DEF KeysTyped
<1>4. ASSUME NEW i \in Instance, P!TouchFails(i) \/ P!Crash(i) PROVE UNCHANGED P!keys
  BY <1>4 DEF P!TouchFails, P!Crash, P!keys
<1>5. ASSUME NEW key \in P!Key, P!Expire(key) PROVE KeysTyped'
  <2>1. UNCHANGED ttl /\ (online' = {} \/ online' = online)
    BY <1>5 DEF P!Expire
  <2>2. conns' = conns \/ conns' = [conns EXCEPT ![key.instance] = {}]
    BY <1>5 DEF P!Expire
  <2> QED BY <2>1, <2>2 DEF KeysTyped
<1>6. ASSUME P!Tick PROVE KeysTyped'
  <2>1. UNCHANGED <<online, conns>>
    BY <1>6 DEF P!Tick
  <2>2. ASSUME NEW key \in P!Key, P!Present(key) PROVE ttl[key] - 1 \in 0 .. P!TTL
    <3>1. ttl[key] # 0 /\ ttl[key] \in 0 .. P!TTL
      BY <1>6, <2>2 DEF P!Tick, P!Due, KeysTyped
    <3> QED BY <3>1, KeyTypes
  <2>3. ttl' = [key \in P!Key |-> IF P!Present(key) THEN ttl[key] - 1 ELSE 0]
    BY <1>6 DEF P!Tick
  <2>4. ttl' \in [P!Key -> 0 .. P!TTL]
    BY <2>2, <2>3, KeyTypes
  <2> QED BY <2>1, <2>4 DEF KeysTyped
<1>7. P!DropConversation => UNCHANGED P!keys
  BY DEF P!DropConversation, P!keys
<1>8. UNCHANGED P!vars => UNCHANGED P!keys
  BY DEF P!vars, P!keys
<1> QED BY <1>1, <1>2, <1>3, <1>4, <1>5, <1>6, <1>7, <1>8 DEF P!Next

\* What the endpoint never touches, and what the sweeper never touches.
ProcessTyped ==
    /\ nextId \in [Instance -> Nat \ {0}]
    /\ sweep \in [Instance -> {"due", "hash", "set", "done"}]

LEMMA ProcessStep ==
    ASSUME ProcessTyped, [P!Next]_(P!vars)
    PROVE  ProcessTyped'
<1>1. CASE UNCHANGED P!process
  BY <1>1 DEF P!process, ProcessTyped
<1>2. ASSUME NEW k \in Slot, NEW i \in Instance, P!Open(k, i) PROVE ProcessTyped'
  <2>1. nextId[i] + 1 \in Nat \ {0}
    BY DEF ProcessTyped
  <2>2. nextId' = [nextId EXCEPT ![i] = nextId[i] + 1] /\ UNCHANGED sweep
    BY <1>2 DEF P!Open
  <2> QED BY <2>1, <2>2 DEF ProcessTyped
<1>3. ASSUME NEW k \in Slot, P!Endpoint(k), ~\E i \in Instance : P!Open(k, i)
      PROVE  UNCHANGED P!process
  BY <1>3 DEF P!Endpoint, P!Connect, P!AnnounceOnline, P!Update, P!SetConversation,
              P!Unregister, P!Disconnect, P!AnnounceOffline, P!ConnectFails,
              P!DisconnectFails, P!BroadcastFails
<1>4. ASSUME NEW i \in Instance, P!Sweeper(i) \/ P!TouchFails(i) \/ P!Crash(i) PROVE ProcessTyped'
  <2>1. nextId' = nextId \/ nextId' = [nextId EXCEPT ![i] = 1]
    BY <1>4 DEF P!Sweeper, P!BeginSweep, P!TouchOnline, P!TouchConns, P!TouchFails,
                P!Crash
  <2>2. \E s \in {"hash", "set", "done"} : sweep' = [sweep EXCEPT ![i] = s]
    BY <1>4 DEF P!Sweeper, P!BeginSweep, P!TouchOnline, P!TouchConns, P!TouchFails,
                P!Crash
  <2> QED BY <2>1, <2>2 DEF ProcessTyped
<1>5. ASSUME NEW key \in P!Key, P!Expire(key) PROVE UNCHANGED P!process
  BY <1>5 DEF P!Expire
<1>6. P!DropConversation => UNCHANGED P!process
  BY DEF P!DropConversation
<1>7. P!Tick => ProcessTyped'
  BY DEF P!Tick, ProcessTyped
<1>8. UNCHANGED P!vars => UNCHANGED P!process
  BY DEF P!vars, P!process
<1> QED BY <1>1, <1>2, <1>3, <1>4, <1>5, <1>6, <1>7, <1>8 DEF P!Next

PeerTyped ==
    /\ interest \in BOOLEAN
    /\ presenceFaults \in Nat
    /\ failed \in BOOLEAN
    /\ told \in {"gone", "stale", "lost"} \cup P!Statuses

\* A fault loses the peer, and only a fault does; what is lost stays lost.
Blames ==
    \/ /\ UNCHANGED <<presenceFaults, failed>>
       /\ (told = "lost" <=> told' = "lost")
    \/ /\ presenceFaults < MaxFaults /\ presenceFaults' = presenceFaults + 1
       /\ told' = "lost" /\ failed' \in {failed, TRUE}

LEMMA PeerStep ==
    ASSUME PeerTyped, [P!Next]_(P!vars)
    PROVE  PeerTyped' /\ Blames
<1>1. CASE UNCHANGED <<P!peer, P!blame>>
  BY <1>1 DEF P!peer, P!blame, PeerTyped, Blames
<1>2. ASSUME P!Fault, failed' \in {failed, TRUE} PROVE PeerTyped' /\ Blames
  <2>1. presenceFaults' \in Nat
    BY <1>2 DEF P!Fault, PeerTyped
  <2> QED BY <1>2, <2>1 DEF P!Fault, PeerTyped, Blames
<1>3. ASSUME NEW s \in {"gone"} \cup P!Statuses, NEW o, P!Tell(s, o), UNCHANGED P!blame
      PROVE  PeerTyped' /\ Blames
  BY <1>3 DEF P!Tell, P!Statuses, PeerTyped, Blames, P!blame
<1>4. ASSUME NEW k \in Slot, P!Endpoint(k) PROVE PeerTyped' /\ Blames
  <2>1. CASE \/ \E i \in Instance : P!Open(k, i)
             \/ P!Connect(k) \/ P!Unregister(k) \/ P!Disconnect(k)
    BY <2>1, <1>1 DEF P!Open, P!Connect, P!Unregister, P!Disconnect
  <2>2. CASE P!AnnounceOnline(k)
    BY <2>2, <1>3 DEF P!AnnounceOnline, P!Statuses
  <2>3. CASE P!AnnounceOffline(k)
    BY <2>3, <1>3 DEF P!AnnounceOffline
  <2>4. CASE P!Update(k)
    BY <2>4, <1>3 DEF P!Update
  <2>5. CASE P!SetConversation(k)
    BY <2>5 DEF P!SetConversation, P!blame, PeerTyped, Blames
  <2>6. CASE P!ConnectFails(k) \/ P!DisconnectFails(k) \/ P!BroadcastFails(k)
    BY <2>6, <1>2 DEF P!ConnectFails, P!DisconnectFails, P!BroadcastFails, P!CallFails
  <2> QED BY <1>4, <2>1, <2>2, <2>3, <2>4, <2>5, <2>6 DEF P!Endpoint
<1>5. ASSUME NEW i \in Instance, P!Sweeper(i) PROVE UNCHANGED <<P!peer, P!blame>>
  BY <1>5 DEF P!Sweeper, P!BeginSweep, P!TouchOnline, P!TouchConns
<1>6. ASSUME NEW i \in Instance, P!TouchFails(i) \/ P!Crash(i) PROVE PeerTyped' /\ Blames
  BY <1>6, <1>2 DEF P!TouchFails, P!Crash, P!CallFails
<1>7. ASSUME NEW key \in P!Key, P!Expire(key) PROVE UNCHANGED <<P!peer, P!blame>>
  BY <1>7 DEF P!Expire
<1>8. P!DropConversation => PeerTyped' /\ Blames
  BY DEF P!DropConversation, P!blame, PeerTyped, Blames
<1>9. P!Tick \/ UNCHANGED P!vars => UNCHANGED <<P!peer, P!blame>>
  BY DEF P!Tick, P!vars
<1> QED BY <1>1, <1>4, <1>5, <1>6, <1>7, <1>8, <1>9 DEF P!Next

LEMMA TypesOfParts == PresenceTypes <=> SockTypes /\ KeysTyped /\ ProcessTyped /\ PeerTyped
BY DEF PresenceTypes, SockTypes, KeysTyped, ProcessTyped, PeerTyped

LEMMA PresenceTypesStep ==
    ASSUME PresenceTypes, [P!Next]_(P!vars)
    PROVE  PresenceTypes' /\ Blames
<1>1. SockTypes /\ KeysTyped /\ ProcessTyped /\ PeerTyped
  BY TypesOfParts
<1>2. KeysTyped' /\ ProcessTyped' /\ PeerTyped' /\ Blames
  BY <1>1, KeysStep, ProcessStep, PeerStep
<1>3. SockTypes'
  BY <1>1, SocketsStep, OpenMoves DEF OpenStep, ProcessTyped
<1> QED BY <1>2, <1>3 DEF PresenceTypes, SockTypes, KeysTyped, ProcessTyped, PeerTyped

\* The ids of a process only grow while it lives.
LEMMA IdsGrow ==
    ASSUME ProcessTyped, [P!Next]_(P!vars), ~OpenStep, NEW i \in Instance
    PROVE  nextId'[i] = nextId[i] \/ P!Crash(i)
<1>1. ASSUME NEW k \in Slot, P!Endpoint(k) PROVE UNCHANGED nextId
  BY <1>1 DEF OpenStep, P!process, P!Endpoint, P!Connect, P!AnnounceOnline, P!Update,
              P!SetConversation, P!Unregister, P!Disconnect, P!AnnounceOffline,
              P!ConnectFails, P!DisconnectFails, P!BroadcastFails
<1>2. ASSUME NEW j \in Instance, P!Sweeper(j) \/ P!TouchFails(j) PROVE UNCHANGED nextId
  BY <1>2 DEF P!Sweeper, P!BeginSweep, P!TouchOnline, P!TouchConns, P!TouchFails
<1>3. ASSUME NEW j \in Instance, P!Crash(j) PROVE nextId'[i] = nextId[i] \/ P!Crash(i)
  BY <1>3 DEF P!Crash, ProcessTyped
<1>4. (\E key \in P!Key : P!Expire(key)) \/ P!DropConversation \/ P!Tick \/ UNCHANGED P!vars
        => UNCHANGED nextId
  BY DEF P!Expire, P!DropConversation, P!Tick, P!vars, P!process
<1> QED BY <1>1, <1>2, <1>3, <1>4 DEF P!Next

LEMMA IdsApartStep ==
    ASSUME PresenceTypes, PresenceTypes', IdsApart, [P!Next]_(P!vars)
    PROVE  IdsApart'
<1> USE DEF IdsApart
<1>1. SockTypes /\ ProcessTyped
  BY TypesOfParts
<1>2. CASE OpenStep
  <2>1. PICK k \in Slot, i \in Instance : P!Open(k, i)
    BY <1>2 DEF OpenStep
  <2>2. /\ sock'[k].at = i /\ sock'[k].id = nextId[i]
        /\ \A j \in Slot \ {k} : sock'[j] = sock[j]
    BY <1>1, <2>1, OpenMoves DEF ProcessTyped
  <2>3. /\ nextId[i] \in Nat /\ nextId'[i] = nextId[i] + 1
        /\ \A j \in Instance \ {i} : nextId'[j] = nextId[j]
    BY <1>1, <2>1 DEF P!Open, ProcessTyped
  <2>4. ASSUME NEW j \in Slot \ {k}, sock[j] # P!Free
        PROVE  /\ sock[j].at \in Instance /\ sock[j].id \in Nat
               /\ sock[j].id < nextId[sock[j].at]
    BY <2>4, <1>1, OpenSlots
  <2>5. ASSUME NEW j \in Slot \ {k}, sock[j] # P!Free, sock[j].at = i
        PROVE  sock[j].id < nextId[i] /\ sock[j].id < nextId[i] + 1 /\ sock[j].id # nextId[i]
    BY <2>3, <2>4, <2>5
  <2>6. ASSUME NEW j \in Slot, sock'[j] # P!Free PROVE sock'[j].id < nextId'[sock'[j].at]
    <3>1. CASE j = k
      BY <3>1, <2>2, <2>3
    <3>2. CASE j # k
      BY <3>2, <2>2, <2>3, <2>4, <2>5, <2>6
    <3> QED BY <3>1, <3>2
  <2>7. ASSUME NEW j \in Slot, NEW l \in Slot \ {j}, sock'[j] # P!Free, sock'[l] # P!Free,
               sock'[l].at = sock'[j].at
        PROVE  sock'[l].id # sock'[j].id
    <3>1. CASE j = k
      BY <3>1, <2>7, <2>2, <2>5
    <3>2. CASE l = k
      BY <3>2, <2>7, <2>2, <2>5
    <3>3. CASE j # k /\ l # k
      BY <3>3, <2>7, <2>2
    <3> QED BY <3>1, <3>2, <3>3
  <2> QED BY <2>6, <2>7
<1>3. CASE ~OpenStep
  <2>1. KeepsIds
    BY <1>1, <1>3, SocketsStep
  <2>2. ASSUME NEW j \in Slot, sock'[j] # P!Free PROVE sock'[j].id < nextId'[sock'[j].at]
    <3>1. sock[j].at \in Instance /\ sock'[j].at = sock[j].at /\ sock'[j].id = sock[j].id
          /\ sock[j].id < nextId[sock[j].at] /\ sock[j] # P!Free
      BY <1>1, <2>1, <2>2, OpenSlots DEF KeepsIds
    <3>2. ~P!Crash(sock[j].at)
      BY <1>1, <2>2, <3>1, CrashFrees
    <3> QED BY <1>1, <1>3, <3>1, <3>2, IdsGrow
  <2>3. ASSUME NEW j \in Slot, NEW l \in Slot \ {j}, sock'[j] # P!Free, sock'[l] # P!Free,
               sock'[l].at = sock'[j].at
        PROVE  sock'[l].id # sock'[j].id
    BY <2>1, <2>3 DEF KeepsIds
  <2> QED BY <2>2, <2>3
<1> QED BY <1>2, <1>3

-----------------------------------------------------------------------------
(* Every connected socket is in Redis, under keys that are not due.        *)

\* A connected socket was connected already, and is leaving if it was.
ConnectedKept ==
    \A j \in P!Connected' :
        /\ j \in P!Connected
        /\ sock'[j].at = sock[j].at
        /\ sock'[j].id = sock[j].id
        /\ P!At(j, "leaving") => P!At(j, "leaving")'

LEMMA ConnectedSockets ==
    ASSUME SockTypes, NEW k \in P!Connected
    PROVE  /\ k \in Slot /\ sock[k] # P!Free /\ sock[k] \in Socket
           /\ sock[k].at \in Instance /\ P!connsKey(sock[k].at) \in P!Key /\ sock[k].id \in Nat
           /\ sock[k].step \in {"announce", "live", "leaving"}
BY OpenSlots, KeyTypes, FreeIsNoSocket DEF P!Connected

LEMMA QuietHolds ==
    ASSUME Held, ConnectedKept, UNCHANGED P!keys,
           \A j \in P!Connected' : sweep'[sock[j].at] = sweep[sock[j].at]
    PROVE  Held'
<1> SUFFICES ASSUME NEW j \in P!Connected' PROVE Shown(j)' /\ Fresh(j)'
  BY DEF Held
<1>1. Shown(j) /\ Fresh(j) /\ sock'[j].at = sock[j].at /\ sock'[j].id = sock[j].id
      /\ sweep'[sock[j].at] = sweep[sock[j].at]
      /\ (P!At(j, "leaving") => P!At(j, "leaving")')
  BY DEF Held, ConnectedKept
<1>2. UNCHANGED <<online, conns, ttl>>
  BY DEF P!keys
<1>3. Shown(j)'
  BY <1>1, <1>2 DEF Shown
<1>4. Fresh(j)'
  BY <1>1, <1>2 DEF Fresh
<1> QED BY <1>3, <1>4

LEMMA SteppedKeeps ==
    ASSUME SockTypes, NEW k \in Slot, NEW s \in Life, OthersKeep(k),
           Stepped(k, s) \/ sock'[k] = P!Free,
           k \in P!Connected \/ s \notin {"announce", "live", "leaving"},
           ~P!At(k, "leaving")
    PROVE  ConnectedKept
<1> SUFFICES ASSUME NEW j \in P!Connected'
             PROVE  /\ j \in P!Connected
                    /\ sock'[j].at = sock[j].at
                    /\ sock'[j].id = sock[j].id
                    /\ P!At(j, "leaving") => P!At(j, "leaving")'
  BY DEF ConnectedKept
<1>1. j \in Slot /\ sock'[j].step \in {"announce", "live", "leaving"}
  BY DEF P!Connected
<1>2. CASE j = k
  BY <1>1, <1>2, FreeIsNoSocket DEF Stepped
<1>3. CASE j # k
  BY <1>1, <1>3 DEF OthersKeep, SameSocket, P!Connected, P!At
<1> QED BY <1>2, <1>3

LEMMA UnchangedSocketsKept ==
    ASSUME UNCHANGED sock PROVE ConnectedKept /\ P!Connected' = P!Connected
BY DEF ConnectedKept, P!Connected, P!At

LEMMA EndpointKeeps ==
    ASSUME SockTypes, ProcessTyped, NEW k \in Slot, P!Endpoint(k),
           ~P!Connect(k), ~P!ConnectFails(k), ~P!Disconnect(k), ~P!DisconnectFails(k)
    PROVE  ConnectedKept /\ UNCHANGED <<P!keys, sweep>>
<1>1. UNCHANGED <<P!keys, sweep>>
  BY DEF P!Endpoint, P!Open, P!AnnounceOnline, P!Update, P!SetConversation,
         P!Unregister, P!AnnounceOffline, P!BroadcastFails, P!process, P!keys
<1>2. ASSUME NEW i \in Instance, P!Open(k, i) PROVE ConnectedKept
  <2>1. sock'[k].step = "registered" /\ \A j \in Slot \ {k} : sock'[j] = sock[j]
    BY <1>2, OpenMoves DEF ProcessTyped
  <2> QED BY <2>1 DEF ConnectedKept, P!Connected, P!At
<1>3. ASSUME P!At(k, "announce"), P!Goto(k, "live") PROVE ConnectedKept
  <2>1. OthersKeep(k) /\ Stepped(k, "live")
    BY <1>3, BegunMoves, Steps
  <2>2. k \in P!Connected /\ ~P!At(k, "leaving") /\ "live" \in Life
    BY <1>3, Steps DEF P!Connected, P!At
  <2> QED BY <2>1, <2>2, SteppedKeeps
<1>4. ASSUME P!At(k, "live"), P!Goto(k, "leaving") PROVE ConnectedKept
  <2>1. OthersKeep(k) /\ Stepped(k, "leaving")
    BY <1>4, BegunMoves, Steps
  <2>2. k \in P!Connected /\ ~P!At(k, "leaving") /\ "leaving" \in Life
    BY <1>4, Steps DEF P!Connected, P!At
  <2> QED BY <2>1, <2>2, SteppedKeeps
<1>5. ASSUME P!At(k, "farewell"), sock' = [sock EXCEPT ![k] = P!Free] PROVE ConnectedKept
  <2>1. OthersKeep(k) /\ sock'[k] = P!Free
    BY <1>5, BegunEnds, Steps
  <2>2. "farewell" \notin {"announce", "live", "leaving"} /\ ~P!At(k, "leaving") /\ "farewell" \in Life
    BY <1>5, Steps DEF P!At
  <2> QED BY <2>1, <2>2, SteppedKeeps
<1>6. CASE P!BroadcastFails(k)
  <2>1. CASE P!At(k, "announce")
    <3>1. P!Goto(k, "live")
      BY <1>6, <2>1 DEF P!BroadcastFails, P!Goto
    <3> QED BY <1>1, <2>1, <3>1, <1>3
  <2>2. CASE ~P!At(k, "announce")
    <3>1. P!At(k, "farewell") /\ sock' = [sock EXCEPT ![k] = P!Free]
      BY <1>6, <2>2 DEF P!BroadcastFails, P!Transitions, P!At
    <3> QED BY <1>1, <3>1, <1>5
  <2> QED BY <2>1, <2>2
<1>7. P!Update(k) \/ P!SetConversation(k) => ConnectedKept
  BY UnchangedSocketsKept DEF P!Update, P!SetConversation
<1> QED BY <1>1, <1>2, <1>3, <1>4, <1>5, <1>6, <1>7
     DEF P!Endpoint, P!AnnounceOnline, P!Unregister, P!AnnounceOffline

LEMMA ConnectHolds ==
    ASSUME PresenceTypes, Held, NEW k \in Slot, P!Connect(k)
    PROVE  Held'
<1>1. SockTypes /\ KeysTyped /\ ProcessTyped
  BY TypesOfParts
<1>2. PICK s \in {"announce", "live"} : P!Moved(k, s)
  BY DEF P!Connect
<1>3. sock[k] # P!Free /\ OthersKeep(k) /\ Stepped(k, s)
  BY <1>1, <1>2, BegunMoves, Steps DEF P!Connect
<1> DEFINE i == sock[k].at
           id == sock[k].id
<1>4. /\ i \in Instance /\ P!connsKey(i) \in P!Key
      /\ P!onlineKey \in P!Key /\ P!connsKey(i) # P!onlineKey
  BY <1>1, <1>3, OpenSlots, KeyTypes
<1>5. /\ conns'[i] = conns[i] \cup {id} /\ online' = online \cup {i}
      /\ \A j \in Instance \ {i} : conns'[j] = conns[j]
      /\ ttl'[P!connsKey(i)] = P!TTL /\ ttl'[P!onlineKey] = P!TTL
      /\ \A j \in Instance \ {i} : ttl'[P!connsKey(j)] = ttl[P!connsKey(j)]
      /\ sweep' = sweep
  <2>1. P!Joined(i, id) /\ sweep' = sweep
    BY DEF P!Connect, P!process
  <2>2. \A key \in P!Key : ttl'[key] = IF key \in {P!connsKey(i), P!onlineKey} THEN P!TTL ELSE ttl[key]
    BY <1>1, <1>4, <2>1 DEF P!Joined, KeysTyped
  <2>3. /\ conns'[i] = conns[i] \cup {id} /\ online' = online \cup {i}
        /\ \A j \in Instance \ {i} : conns'[j] = conns[j]
    BY <1>1, <1>4, <2>1 DEF P!Joined, KeysTyped
  <2> QED BY <1>4, <2>1, <2>2, <2>3, KeyTypes
<1> HIDE DEF i, id
<1> SUFFICES ASSUME NEW j \in P!Connected' PROVE Shown(j)' /\ Fresh(j)'
  BY DEF Held
<1>6. CASE j = k
  <2>1. sock'[j].at = i /\ sock'[j].id = id
    BY <1>3, <1>6 DEF Stepped, i, id
  <2>2. Shown(j)'
    BY <2>1, <1>5 DEF Shown
  <2>3. Fresh(j)'
    BY <2>1, <1>5, KeyTypes DEF Fresh
  <2> QED BY <2>2, <2>3
<1>7. CASE j # k
  <2>1. j \in Slot /\ j \in P!Connected /\ SameSocket(j)
    BY <1>3, <1>7 DEF P!Connected, OthersKeep, SameSocket
  <2>2. Shown(j) /\ Fresh(j) /\ sock[j].at \in Instance
    BY <1>1, <2>1, ConnectedSockets DEF Held
  <2>3. Shown(j)'
    BY <2>1, <2>2, <1>5 DEF Shown, SameSocket
  <2>4. Fresh(j)'
    <3>1. 0 < ttl'[P!connsKey(sock[j].at)]
      <4>1. CASE sock[j].at = i
        BY <4>1, <1>5, KeyTypes
      <4>2. CASE sock[j].at # i
        BY <4>2, <1>5, <2>2 DEF Fresh
      <4> QED BY <4>1, <4>2
    <3>2. ~P!At(j, "leaving") /\ sweep[sock[j].at] = "done" => ttl'[P!connsKey(sock[j].at)] = P!TTL
      BY <1>5, <2>2 DEF Fresh
    <3> QED BY <3>1, <3>2, <2>1, <1>5, KeyTypes DEF Fresh, SameSocket, P!At
  <2> QED BY <2>3, <2>4
<1> QED BY <1>6, <1>7

LEMMA DisconnectHolds ==
    ASSUME PresenceTypes, IdsApart, Held, NEW k \in Slot, P!Disconnect(k)
    PROVE  Held'
<1>1. SockTypes /\ KeysTyped /\ ProcessTyped
  BY TypesOfParts
<1>2. sock[k] # P!Free /\ OthersKeep(k) /\ (Stepped(k, "farewell") \/ sock'[k] = P!Free)
  <2>1. P!At(k, "leaving") /\ (P!Moved(k, "farewell") \/ sock' = [sock EXCEPT ![k] = P!Free])
    BY DEF P!Disconnect
  <2> QED BY <1>1, <2>1, BegunMoves, BegunEnds, Steps
<1> DEFINE i == sock[k].at
           id == sock[k].id
           gone == conns[i] = {id}
<1>3. /\ i \in Instance /\ P!connsKey(i) \in P!Key
      /\ P!onlineKey \in P!Key /\ P!connsKey(i) # P!onlineKey
  BY <1>1, <1>2, OpenSlots, KeyTypes
<1>4. /\ conns'[i] = conns[i] \ {id}
      /\ \A j \in Instance \ {i} : conns'[j] = conns[j]
      /\ online' = IF gone THEN online \ {i} ELSE online
      /\ \A key \in P!Key : \/ ttl'[key] = ttl[key]
                         \/ (key = P!connsKey(i) /\ gone)
                         \/ (key = P!onlineKey /\ online' = {})
      /\ sweep' = sweep
  <2>1. P!Left(i, id) /\ sweep' = sweep
    BY DEF P!Disconnect, P!process
  <2>2. conns'[i] = conns[i] \ {id} /\ \A j \in Instance \ {i} : conns'[j] = conns[j]
    BY <1>1, <1>3, <2>1 DEF P!Left, KeysTyped
  <2>3. online' = IF gone THEN online \ {i} ELSE online
    BY <2>1 DEF P!Left
  <2>4. \A key \in P!Key : \/ ttl'[key] = ttl[key]
                        \/ (key = P!connsKey(i) /\ gone)
                        \/ (key = P!onlineKey /\ online' = {})
    BY <2>1 DEF P!Left
  <2> QED BY <2>1, <2>2, <2>3, <2>4
<1> HIDE DEF i, id, gone
<1> SUFFICES ASSUME NEW j \in P!Connected' PROVE Shown(j)' /\ Fresh(j)'
  BY DEF Held
<1>5. j \in Slot /\ j # k /\ j \in P!Connected /\ SameSocket(j)
  <2>1. j \in Slot /\ sock'[j].step \in {"announce", "live", "leaving"}
    BY DEF P!Connected
  <2>2. j # k
    BY <1>2, <2>1, FreeIsNoSocket DEF Stepped
  <2> QED BY <1>2, <2>1, <2>2 DEF OthersKeep, SameSocket, P!Connected
<1>6. /\ Shown(j) /\ Fresh(j) /\ sock[j] # P!Free
      /\ sock[j].at \in Instance /\ P!connsKey(sock[j].at) \in P!Key
  BY <1>1, <1>5, ConnectedSockets DEF Held
<1>7. sock[j].at = i => sock[j].id # id /\ ~gone
  <2>1. sock[j].at = i => sock[j].id # id
    BY <1>2, <1>5, <1>6 DEF IdsApart, i, id
  <2>2. sock[j].at = i => sock[j].id \in conns[i]
    BY <1>6 DEF Shown
  <2> QED BY <2>1, <2>2 DEF gone
<1>8. sock[j].at \in online' /\ sock[j].id \in conns'[sock[j].at]
  BY <1>4, <1>6, <1>7 DEF Shown
<1>9. /\ ttl'[P!connsKey(sock[j].at)] = ttl[P!connsKey(sock[j].at)]
      /\ ttl'[P!onlineKey] = ttl[P!onlineKey]
  BY <1>3, <1>4, <1>6, <1>7, <1>8, KeyTypes
<1>10. Shown(j)'
  BY <1>5, <1>8 DEF Shown, SameSocket
<1>11. Fresh(j)'
  BY <1>4, <1>5, <1>6, <1>9 DEF Fresh, SameSocket, P!At
<1> QED BY <1>10, <1>11

LEMMA SweeperHolds ==
    ASSUME PresenceTypes, Held, NEW i \in Instance, P!Sweeper(i)
    PROVE  Held'
<1>1. SockTypes /\ KeysTyped /\ ProcessTyped
  BY TypesOfParts
<1>2. UNCHANGED <<sock, online, conns>> /\ P!Connected' = P!Connected
  BY DEF P!Sweeper, P!BeginSweep, P!TouchOnline, P!TouchConns, P!Connected, P!keys
<1> SUFFICES ASSUME NEW j \in P!Connected PROVE Shown(j)' /\ Fresh(j)'
  BY <1>2 DEF Held
<1>3. /\ Shown(j) /\ Fresh(j) /\ j \in Slot
      /\ sock[j].at \in Instance /\ P!connsKey(sock[j].at) \in P!Key
      /\ sock[j].step \in {"announce", "live", "leaving"}
  BY <1>1, ConnectedSockets DEF Held
<1>4. Shown(j)'
  BY <1>2, <1>3 DEF Shown
<1>5. CASE P!BeginSweep(i)
  <2>1. UNCHANGED ttl
    BY <1>5 DEF P!BeginSweep, P!keys
  <2>2. /\ sweep'[i] \in {"hash", "done"}
        /\ sweep'[i] = "done" => ~P!InHub(i)
        /\ \A m \in Instance \ {i} : sweep'[m] = sweep[m]
    BY <1>1, <1>5 DEF P!BeginSweep, P!Sweeps, ProcessTyped
  <2>3. sock[j].at = i /\ ~P!InHub(i) => P!At(j, "leaving")
    BY <1>3 DEF P!InHub, P!Registered, P!At
  <2> QED BY <1>2, <1>3, <1>4, <2>1, <2>2, <2>3 DEF Fresh, P!At
<1>6. CASE P!TouchOnline(i)
  <2>1. ttl'[P!onlineKey] = P!TTL /\ \A m \in Instance : ttl'[P!connsKey(m)] = ttl[P!connsKey(m)]
    <3>1. online # {}
      BY <1>3 DEF Shown
    <3> QED BY <1>1, <1>6, <3>1, KeyTypes DEF P!TouchOnline, KeysTyped
  <2>2. sweep'[i] = "set" /\ \A m \in Instance \ {i} : sweep'[m] = sweep[m]
    BY <1>1, <1>6 DEF P!TouchOnline, ProcessTyped
  <2> QED BY <1>2, <1>3, <1>4, <2>1, <2>2, KeyTypes DEF Fresh, P!At
<1>7. CASE P!TouchConns(i)
  <2>1. /\ ttl'[P!onlineKey] = ttl[P!onlineKey]
        /\ \A m \in Instance \ {i} : ttl'[P!connsKey(m)] = ttl[P!connsKey(m)]
        /\ sock[j].at = i => ttl'[P!connsKey(i)] = P!TTL
    <3>1. sock[j].at = i => conns[i] # {}
      BY <1>3 DEF Shown
    <3> QED BY <1>1, <1>7, <3>1, KeyTypes DEF P!TouchConns, KeysTyped
  <2>2. sweep[i] = "set" /\ \A m \in Instance \ {i} : sweep'[m] = sweep[m]
    BY <1>1, <1>7 DEF P!TouchConns, ProcessTyped
  <2> QED BY <1>2, <1>3, <1>4, <2>1, <2>2, KeyTypes DEF Fresh, P!At
<1> QED BY <1>5, <1>6, <1>7 DEF P!Sweeper

LEMMA TickHolds ==
    ASSUME PresenceTypes, Held, P!Tick
    PROVE  Held'
<1>1. SockTypes /\ KeysTyped /\ ProcessTyped
  BY TypesOfParts
<1>2. UNCHANGED <<sock, online, conns>> /\ P!Connected' = P!Connected
  BY DEF P!Tick, P!Connected
<1> SUFFICES ASSUME NEW j \in P!Connected PROVE Shown(j)' /\ Fresh(j)'
  BY <1>2 DEF Held
<1>3. /\ Shown(j) /\ Fresh(j) /\ j \in Slot
      /\ sock[j].at \in Instance /\ P!connsKey(sock[j].at) \in P!Key
      /\ sock[j].step \in {"announce", "live", "leaving"}
  BY <1>1, ConnectedSockets DEF Held
<1>4. ttl[P!connsKey(sock[j].at)] = P!TTL /\ ttl[P!onlineKey] = P!TTL
  <2>1. ~P!At(j, "leaving") /\ sweep[sock[j].at] = "done"
    BY <1>3 DEF P!Tick, P!At
  <2> QED BY <1>3, <2>1 DEF Fresh
<1>5. P!Present(P!connsKey(sock[j].at)) /\ P!Present(P!onlineKey)
  BY <1>3, KeyTypes DEF P!Present, Shown
<1>6. ttl'[P!connsKey(sock[j].at)] = 1 /\ ttl'[P!onlineKey] = 1
  BY <1>3, <1>4, <1>5, KeyTypes DEF P!Tick
<1>7. sweep'[sock[j].at] = "due"
  BY <1>3 DEF P!Tick
<1> QED BY <1>2, <1>3, <1>6, <1>7 DEF Shown, Fresh

LEMMA NothingHeldIsDue ==
    ASSUME PresenceTypes, Held, NEW j \in P!Connected
    PROVE  ~P!Due(P!connsKey(sock[j].at)) /\ ~P!Due(P!onlineKey)
<1>1. Fresh(j) /\ P!connsKey(sock[j].at) \in P!Key
  BY ConnectedSockets, TypesOfParts DEF Held
<1> QED BY <1>1 DEF Fresh, P!Due

LEMMA ExpireHolds ==
    ASSUME PresenceTypes, Held, NEW key \in P!Key, P!Expire(key)
    PROVE  Held'
<1>1. UNCHANGED <<sock, ttl, sweep>> /\ P!Connected' = P!Connected
  BY DEF P!Expire, P!Connected, P!process
<1> SUFFICES ASSUME NEW j \in P!Connected PROVE Shown(j)' /\ Fresh(j)'
  BY <1>1 DEF Held
<1>2. Shown(j) /\ Fresh(j) /\ sock[j].at \in Instance
  BY ConnectedSockets, TypesOfParts DEF Held
<1>3. key # P!onlineKey /\ key # P!connsKey(sock[j].at)
  BY NothingHeldIsDue DEF P!Expire
<1>4. online' = online /\ conns'[sock[j].at] = conns[sock[j].at]
  <2>1. PICK i \in Instance : key = P!connsKey(i) /\ key.instance = i
    BY <1>3, KeyTypes
  <2>2. i # sock[j].at
    BY <1>3, <2>1
  <2> QED BY <1>2, <1>3, <2>1, <2>2, TypesOfParts DEF P!Expire, KeysTyped
<1> QED BY <1>1, <1>2, <1>4 DEF Shown, Fresh, P!At

LEMMA HeldStep ==
    ASSUME PresenceTypes, IdsApart, Held, ~failed', [P!Next]_(P!vars)
    PROVE  Held'
<1>1. SockTypes /\ KeysTyped /\ ProcessTyped
  BY TypesOfParts
<1>2. ASSUME NEW k \in Slot, P!Endpoint(k) PROVE Held'
  <2>1. CASE P!Connect(k)
    BY <2>1, ConnectHolds
  <2>2. CASE P!Disconnect(k)
    BY <2>2, DisconnectHolds
  <2>3. CASE P!ConnectFails(k) \/ P!DisconnectFails(k)
    BY <2>3 DEF P!ConnectFails, P!DisconnectFails, P!CallFails
  <2>4. CASE ~P!Connect(k) /\ ~P!Disconnect(k) /\ ~P!ConnectFails(k) /\ ~P!DisconnectFails(k)
    <3>1. ConnectedKept /\ UNCHANGED <<P!keys, sweep>>
      BY <1>1, <1>2, <2>4, EndpointKeeps
    <3> QED BY <3>1, QuietHolds
  <2> QED BY <2>1, <2>2, <2>3, <2>4
<1>3. ASSUME NEW i \in Instance, P!Sweeper(i) \/ P!TouchFails(i) PROVE Held'
  BY <1>3, SweeperHolds DEF P!TouchFails, P!CallFails
<1>4. ASSUME NEW i \in Instance, P!Crash(i) PROVE Held'
  <2>1. ConnectedKept /\ \A j \in P!Connected' : sock[j].at # i /\ sock[j].at \in Instance
    <3> SUFFICES ASSUME NEW j \in P!Connected'
                 PROVE  j \in P!Connected /\ sock'[j] = sock[j] /\ sock[j].at # i
      BY <1>1, ConnectedSockets DEF ConnectedKept, P!At
    <3>1. j \in Slot /\ sock'[j] # P!Free
      BY FreeIsNoSocket DEF P!Connected
    <3>2. sock'[j] = sock[j] /\ sock[j].at # i
      BY <1>1, <1>4, <3>1, CrashFrees
    <3> QED BY <3>1, <3>2 DEF P!Connected
  <2>2. UNCHANGED P!keys /\ \A m \in Instance \ {i} : sweep'[m] = sweep[m]
    BY <1>1, <1>4 DEF P!Crash, ProcessTyped
  <2> QED BY <2>1, <2>2, QuietHolds
<1>5. ASSUME NEW key \in P!Key, P!Expire(key) PROVE Held'
  BY <1>5, ExpireHolds
<1>6. CASE P!Tick
  BY <1>6, TickHolds
<1>7. CASE P!DropConversation \/ UNCHANGED P!vars
  <2>1. UNCHANGED <<sock, P!keys, sweep>>
    BY <1>7 DEF P!DropConversation, P!vars, P!process, P!keys
  <2> QED BY <2>1, UnchangedSocketsKept, QuietHolds
<1> QED BY <1>2, <1>3, <1>4, <1>5, <1>6, <1>7 DEF P!Next

-----------------------------------------------------------------------------
(* Redis has the connected sockets and no others, so that the tests of its *)
(* two scripts for a transition are right.                                 *)

SameConnected ==
    /\ P!Connected' = P!Connected
    /\ \A k \in P!Connected : sock'[k].at = sock[k].at /\ sock'[k].id = sock[k].id

LEMMA UnchangedExact ==
    ASSUME Exact, SameConnected, UNCHANGED <<online, conns>>
    PROVE  Exact'
<1>1. \A i : IdsOf(i)' = IdsOf(i)
  BY DEF IdsOf, SameConnected
<1>2. {sock'[k].at : k \in P!Connected'} = {sock[k].at : k \in P!Connected}
  BY DEF SameConnected
<1> QED BY <1>1, <1>2 DEF Exact

\* connectScript returns 1 exactly when no socket is connected.
LEMMA OnlineIsConnected ==
    ASSUME Exact
    PROVE  online = {} <=> P!Connected = {}
BY DEF Exact

LEMMA NothingExpires ==
    ASSUME PresenceTypes, Held, Exact, NEW key \in P!Key
    PROVE  ~P!Due(key)
<1> SUFFICES ASSUME P!Due(key) PROVE FALSE
  OBVIOUS
<1>1. CASE key = P!onlineKey
  <2>1. PICK j \in P!Connected : TRUE
    BY <1>1, OnlineIsConnected DEF P!Due, P!Present
  <2> QED BY <1>1, <2>1, NothingHeldIsDue
<1>2. CASE key # P!onlineKey
  <2>1. PICK i \in Instance : key = P!connsKey(i) /\ key.instance = i
    BY <1>2, KeyTypes
  <2>2. conns[i] # {}
    BY <1>2, <2>1 DEF P!Due, P!Present
  <2>3. PICK j \in P!Connected : sock[j].at = i
    BY <2>2 DEF Exact, IdsOf
  <2> QED BY <2>1, <2>3, NothingHeldIsDue
<1> QED BY <1>1, <1>2

\* disconnectScript returns 1 exactly when the socket is the last connected one.
LEMMA LastOneLeaves ==
    ASSUME SockTypes, IdsApart, Exact, NEW k \in P!Connected
    PROVE  P!WentOffline(sock[k].at, sock[k].id) <=> P!Connected = {k}
<1>1. sock[k].at \in Instance /\ sock[k].at \in online /\ sock[k].id \in conns[sock[k].at]
  BY ConnectedSockets DEF Exact, IdsOf
<1>2. ASSUME P!Connected = {k} PROVE P!WentOffline(sock[k].at, sock[k].id)
  <2>1. conns[sock[k].at] = IdsOf(sock[k].at)
    BY <1>1 DEF Exact
  <2>2. IdsOf(sock[k].at) = {sock[k].id}
    BY <1>2 DEF IdsOf
  <2>3. online \subseteq {sock[k].at}
    BY <1>2 DEF Exact
  <2> QED BY <2>1, <2>2, <2>3 DEF P!WentOffline
<1>3. ASSUME P!WentOffline(sock[k].at, sock[k].id), NEW j \in P!Connected, j # k PROVE FALSE
  <2>1. sock[j].at = sock[k].at
    BY <1>3 DEF P!WentOffline, Exact
  <2>2. sock[j].id \in conns[sock[k].at]
    BY <1>1, <2>1 DEF Exact, IdsOf
  <2>3. sock[j].id = sock[k].id
    BY <1>3, <2>2 DEF P!WentOffline
  <2>4. j \in Slot /\ k \in Slot /\ sock[j] # P!Free /\ sock[k] # P!Free
    BY ConnectedSockets
  <2> QED BY <1>3, <2>1, <2>3, <2>4 DEF IdsApart
<1> QED BY <1>2, <1>3

LEMMA ConnectExact ==
    ASSUME PresenceTypes, Exact, NEW k \in Slot, P!Connect(k)
    PROVE  /\ Exact'
           /\ P!Connected' = P!Connected \cup {k} /\ k \notin P!Connected
           /\ \E s \in {"announce", "live"} : P!Moved(k, s) /\ (s = "announce" <=> P!Connected = {})
<1>1. SockTypes /\ KeysTyped
  BY TypesOfParts
<1>2. \E s \in {"announce", "live"} : P!Moved(k, s) /\ (s = "announce" <=> P!Connected = {})
  BY OnlineIsConnected DEF P!Connect
<1>3. PICK s \in {"announce", "live"} : P!Moved(k, s)
  BY <1>2
<1>4. sock[k] # P!Free /\ OthersKeep(k) /\ Stepped(k, s) /\ P!At(k, "registered")
  BY <1>1, <1>3, BegunMoves, Steps DEF P!Connect
<1>5. P!Connected' = P!Connected \cup {k} /\ k \notin P!Connected
  BY <1>4 DEF P!Connected, OthersKeep, SameSocket, Stepped, P!At
<1>6. \A j \in P!Connected' : sock'[j].at = sock[j].at /\ sock'[j].id = sock[j].id
  BY <1>4 DEF P!Connected, OthersKeep, SameSocket, Stepped
<1>7. online' = online \cup {sock[k].at}
  BY DEF P!Connect, P!Joined
<1>8. {sock'[j].at : j \in P!Connected'} = {sock[j].at : j \in P!Connected} \cup {sock[k].at}
  BY <1>5, <1>6
<1>9. ASSUME NEW i \in Instance PROVE conns'[i] = IdsOf(i)'
  <2>1. conns[i] = IdsOf(i)
    BY DEF Exact
  <2>2. conns'[i] = IF i = sock[k].at THEN conns[i] \cup {sock[k].id} ELSE conns[i]
    BY <1>1 DEF P!Connect, P!Joined, KeysTyped
  <2>3. IdsOf(i)' = {sock[j].id : j \in {l \in P!Connected \cup {k} : sock[l].at = i}}
    BY <1>5, <1>6 DEF IdsOf
  <2>4. IdsOf(i)' = IF i = sock[k].at THEN IdsOf(i) \cup {sock[k].id} ELSE IdsOf(i)
    BY <2>3 DEF IdsOf
  <2> QED BY <2>1, <2>2, <2>4
<1>10. Exact'
  BY <1>7, <1>8, <1>9 DEF Exact
<1> QED BY <1>2, <1>5, <1>10

LEMMA DisconnectExact ==
    ASSUME PresenceTypes, IdsApart, Exact, NEW k \in Slot, P!Disconnect(k)
    PROVE  /\ Exact'
           /\ k \in P!Connected /\ P!Connected' = P!Connected \ {k}
           /\ \/ P!Connected = {k} /\ P!Moved(k, "farewell")
              \/ P!Connected # {k} /\ sock' = [sock EXCEPT ![k] = P!Free]
<1>1. SockTypes /\ KeysTyped
  BY TypesOfParts
<1>2. k \in P!Connected
  BY DEF P!Disconnect, P!Connected, P!At
<1>3. \/ P!Connected = {k} /\ P!Moved(k, "farewell")
      \/ P!Connected # {k} /\ sock' = [sock EXCEPT ![k] = P!Free]
  <2>1. P!WentOffline(sock[k].at, sock[k].id) <=> P!Connected = {k}
    BY <1>1, <1>2, LastOneLeaves
  <2> QED BY <2>1 DEF P!Disconnect
<1>4. OthersKeep(k) /\ (Stepped(k, "farewell") \/ sock'[k] = P!Free)
  BY <1>1, <1>3, BegunMoves, BegunEnds, Steps DEF P!Disconnect
<1>5. P!Connected' = P!Connected \ {k}
  <2>1. sock'[k].step \notin {"announce", "live", "leaving"}
    BY <1>4, FreeIsNoSocket DEF Stepped
  <2> QED BY <1>4, <2>1 DEF P!Connected, OthersKeep, SameSocket
<1>6. \A j \in P!Connected \ {k} : sock'[j].at = sock[j].at /\ sock'[j].id = sock[j].id
  BY <1>4 DEF P!Connected, OthersKeep, SameSocket
<1>7. P!Left(sock[k].at, sock[k].id) /\ sock[k].at \in Instance
  BY <1>1, <1>2, ConnectedSockets DEF P!Disconnect
<1>8. \A j \in P!Connected \ {k} : sock[j].at = sock[k].at => sock[j].id # sock[k].id
  BY <1>1, <1>2, ConnectedSockets DEF IdsApart
<1>9. ASSUME NEW i \in Instance
      PROVE  IdsOf(i)' = {sock[j].id : j \in {l \in P!Connected \ {k} : sock[l].at = i}}
  BY <1>5, <1>6 DEF IdsOf
<1>10. ASSUME NEW i \in Instance PROVE conns'[i] = IdsOf(i)'
  <2>1. conns[i] = IdsOf(i)
    BY DEF Exact
  <2>2. conns'[i] = IF i = sock[k].at THEN conns[i] \ {sock[k].id} ELSE conns[i]
    BY <1>1, <1>7 DEF P!Left, KeysTyped
  <2>3. IdsOf(i)' = IF i = sock[k].at THEN IdsOf(i) \ {sock[k].id} ELSE IdsOf(i)
    <3>1. CASE i = sock[k].at
      <4>1. {sock[j].id : j \in {l \in P!Connected \ {k} : sock[l].at = i}}
              = IdsOf(i) \ {sock[k].id}
        BY <1>2, <1>8, <3>1 DEF IdsOf
      <4> QED BY <1>9, <3>1, <4>1
    <3>2. CASE i # sock[k].at
      BY <1>9, <3>2 DEF IdsOf
    <3> QED BY <3>1, <3>2
  <2> QED BY <2>1, <2>2, <2>3
<1>11. online' = {sock'[j].at : j \in P!Connected'}
  <2>1. {sock'[j].at : j \in P!Connected'} = {sock[j].at : j \in P!Connected \ {k}}
    BY <1>5, <1>6
  <2>2. conns[sock[k].at] = IdsOf(sock[k].at) /\ online = {sock[j].at : j \in P!Connected}
    BY <1>7 DEF Exact
  <2>3. CASE \E j \in P!Connected \ {k} : sock[j].at = sock[k].at
    <3>1. conns[sock[k].at] # {sock[k].id}
      BY <1>8, <2>2, <2>3 DEF IdsOf
    <3>2. online' = online
      BY <1>7, <3>1 DEF P!Left
    <3> QED BY <2>1, <2>2, <2>3, <3>2
  <2>4. CASE \A j \in P!Connected \ {k} : sock[j].at # sock[k].at
    <3>1. conns[sock[k].at] = {sock[k].id}
      BY <1>2, <2>2, <2>4 DEF IdsOf
    <3>2. online' = online \ {sock[k].at}
      BY <1>7, <3>1 DEF P!Left
    <3> QED BY <1>2, <2>1, <2>2, <2>4, <3>2
  <2> QED BY <2>3, <2>4
<1> QED BY <1>2, <1>3, <1>5, <1>10, <1>11 DEF Exact

LEMMA EndpointTells ==
    ASSUME SockTypes, ProcessTyped, NEW k \in Slot, P!Endpoint(k), told' # "lost",
           ~P!Connect(k), ~P!Disconnect(k)
    PROVE  SameConnected /\ UNCHANGED P!keys
<1>1. ~P!ConnectFails(k) /\ ~P!DisconnectFails(k) /\ ~P!BroadcastFails(k)
  BY DEF P!ConnectFails, P!DisconnectFails, P!BroadcastFails, P!CallFails, P!Fault
<1>2. ConnectedKept /\ UNCHANGED P!keys
  BY <1>1, EndpointKeeps
<1>3. P!Connected \subseteq P!Connected'
  <2>1. ASSUME NEW i \in Instance, P!Open(k, i) PROVE P!Connected \subseteq P!Connected'
    <3>1. \A j \in Slot \ {k} : sock'[j] = sock[j]
      BY <2>1, OpenMoves DEF ProcessTyped
    <3>2. k \notin P!Connected
      BY <2>1, FreeIsNoSocket DEF P!Open, P!Connected
    <3> QED BY <3>1, <3>2 DEF P!Connected
  <2>2. CASE P!AnnounceOnline(k) \/ P!Unregister(k)
    <3>1. PICK s \in {"live", "leaving"} : P!Goto(k, s) /\ (P!At(k, "announce") \/ P!At(k, "live"))
      BY <2>2 DEF P!AnnounceOnline, P!Unregister
    <3>2. OthersKeep(k) /\ Stepped(k, s)
      BY <3>1, BegunMoves, Steps
    <3> QED BY <3>2 DEF OthersKeep, SameSocket, Stepped, P!Connected
  <2>3. CASE P!AnnounceOffline(k)
    <3>1. OthersKeep(k)
      BY <2>3, BegunEnds, Steps DEF P!AnnounceOffline
    <3>2. k \notin P!Connected
      BY <2>3 DEF P!AnnounceOffline, P!Connected, P!At
    <3> QED BY <3>1, <3>2 DEF OthersKeep, SameSocket, P!Connected
  <2>4. CASE P!Update(k) \/ P!SetConversation(k)
    BY <2>4, UnchangedSocketsKept DEF P!Update, P!SetConversation
  <2> QED BY <1>1, <2>1, <2>2, <2>3, <2>4 DEF P!Endpoint
<1> QED BY <1>2, <1>3 DEF SameConnected, ConnectedKept

\* What is neither a script nor a fault leaves Redis and the connected as they are.
LEMMA OthersTell ==
    ASSUME PresenceTypes, Held, Exact, [P!Next]_(P!vars),
           told' # "lost", \A k \in Slot : ~P!Endpoint(k)
    PROVE  UNCHANGED <<sock, online, conns, told>>
<1>1. ASSUME NEW i \in Instance, P!Sweeper(i) PROVE UNCHANGED <<sock, online, conns, told>>
  BY <1>1 DEF P!Sweeper, P!BeginSweep, P!TouchOnline, P!TouchConns, P!keys, P!peer
<1>2. \A i \in Instance : ~P!TouchFails(i) /\ ~P!Crash(i)
  BY DEF P!TouchFails, P!Crash, P!CallFails, P!Fault
<1>3. \A key \in P!Key : ~P!Expire(key)
  BY NothingExpires DEF P!Expire
<1>4. P!DropConversation \/ P!Tick \/ UNCHANGED P!vars => UNCHANGED <<sock, online, conns, told>>
  BY DEF P!DropConversation, P!Tick, P!vars, P!keys, P!peer
<1> QED BY <1>1, <1>2, <1>3, <1>4 DEF P!Next

LEMMA ExactStep ==
    ASSUME PresenceTypes, IdsApart, Held, Exact, [P!Next]_(P!vars), told' # "lost"
    PROVE  Exact'
<1>1. SockTypes /\ ProcessTyped
  BY TypesOfParts
<1>2. ASSUME NEW k \in Slot, P!Endpoint(k) PROVE Exact'
  <2>1. CASE P!Connect(k)
    BY <2>1, ConnectExact
  <2>2. CASE P!Disconnect(k)
    BY <2>2, DisconnectExact
  <2>3. CASE ~P!Connect(k) /\ ~P!Disconnect(k)
    <3>1. SameConnected /\ UNCHANGED P!keys
      BY <1>1, <1>2, <2>3, EndpointTells
    <3> QED BY <3>1, UnchangedExact DEF P!keys
  <2> QED BY <2>1, <2>2, <2>3
<1>3. CASE \A k \in Slot : ~P!Endpoint(k)
  <2>1. UNCHANGED <<sock, online, conns>>
    BY <1>3, OthersTell
  <2>2. SameConnected
    BY <2>1 DEF SameConnected, P!Connected
  <2> QED BY <2>1, <2>2, UnchangedExact
<1> QED BY <1>2, <1>3

-----------------------------------------------------------------------------
(* The last broadcast that was not overtaken tells how things are.         *)

LEMMA UnchangedTold ==
    ASSUME OnTime, FarewellsTrue, PeerTold, UNCHANGED <<sock, told>>
    PROVE  OnTime' /\ FarewellsTrue' /\ PeerTold'
BY DEF OnTime, FarewellsTrue, PeerTold, P!Connected, P!Transitions, P!At

LEMMA ConnectTold ==
    ASSUME PresenceTypes, Exact, OnTime, FarewellsTrue, PeerTold, NEW k \in Slot, P!Connect(k)
    PROVE  OnTime' /\ FarewellsTrue' /\ PeerTold'
<1>1. SockTypes
  BY TypesOfParts
<1>2. /\ P!Connected' = P!Connected \cup {k} /\ k \notin P!Connected
      /\ \E s \in {"announce", "live"} : P!Moved(k, s) /\ (s = "announce" <=> P!Connected = {})
  BY ConnectExact
<1>3. PICK s \in {"announce", "live"} : P!Moved(k, s) /\ (s = "announce" <=> P!Connected = {})
  BY <1>2
<1>4. UNCHANGED told /\ P!At(k, "registered") /\ sock[k] # P!Free
  BY <1>1, StepNeedsSocket, Steps DEF P!Connect, P!peer
<1>5. /\ sock'[k].step = s /\ ~sock'[k].overtaken
      /\ \A j \in Slot \ {k} :
           /\ sock'[j].step = sock[j].step
           /\ s = "announce" /\ j \in P!Transitions => sock'[j].overtaken
           /\ s # "announce" \/ j \notin P!Transitions => sock'[j] = sock[j]
  <2>1. ~sock[k].overtaken /\ s \in Life
    BY <1>4, Steps DEF OnTime
  <2>2. /\ Stepped(k, s)
        /\ \A j \in Slot \ {k} :
             /\ SameSocket(j)
             /\ s \in {"announce", "farewell"} /\ j \in P!Transitions => sock'[j].overtaken
             /\ s \notin {"announce", "farewell"} \/ j \notin P!Transitions => sock'[j] = sock[j]
    BY <1>1, <1>3, <1>4, <2>1, ScriptMoves
  <2> QED BY <2>1, <2>2 DEF Stepped, SameSocket
<1>6. P!Connected' # {}
  BY <1>2
<1>7. CASE s = "announce"
  <2>1. P!Connected' = {k} /\ P!Connected = {}
    BY <1>2, <1>3, <1>7
  <2>2. OnTime'
    <3>1. \A j \in Slot : P!At(j, "registered")' => ~sock'[j].overtaken
      BY <1>5, <1>7 DEF OnTime, P!At, P!Transitions
    <3> QED BY <1>5, <2>1, <3>1 DEF OnTime
  <2>3. FarewellsTrue'
    BY <1>5, <1>7 DEF FarewellsTrue, P!At, P!Transitions
  <2>4. k \in P!Transitions' /\ ~sock'[k].overtaken
    BY <1>5, <1>7 DEF P!Transitions
  <2>5. PeerTold'
    BY <2>4 DEF PeerTold
  <2> QED BY <2>2, <2>3, <2>5
<1>8. CASE s = "live"
  <2>1. P!Connected # {}
    BY <1>3, <1>8
  <2>2. \A j \in Slot \ {k} : sock'[j] = sock[j]
    BY <1>5, <1>8
  <2>3. OnTime'
    <3>1. \A j \in P!Connected' : ~sock'[j].overtaken
      BY <1>2, <1>5, <2>2 DEF OnTime, P!Connected
    <3>2. \A j \in Slot : P!At(j, "registered")' => ~sock'[j].overtaken
      BY <1>5, <2>2 DEF OnTime, P!At
    <3> QED BY <3>1, <3>2 DEF OnTime
  <2>4. FarewellsTrue'
    BY <1>5, <1>8, <2>1, <2>2 DEF FarewellsTrue, P!At
  <2>5. P!Transitions' = P!Transitions /\ k \notin P!Transitions
    BY <1>4, <1>5, <1>8 DEF P!Transitions, P!At
  <2>6. (\A j \in P!Transitions' : sock'[j].overtaken) <=> (\A j \in P!Transitions : sock[j].overtaken)
    <3>1. P!Transitions \subseteq Slot \ {k}
      BY <2>5 DEF P!Transitions
    <3> QED BY <2>2, <2>5, <3>1
  <2>7. PeerTold'
    BY <1>4, <1>6, <2>1, <2>6 DEF PeerTold
  <2> QED BY <2>3, <2>4, <2>7
<1> QED BY <1>7, <1>8

LEMMA DisconnectTold ==
    ASSUME PresenceTypes, IdsApart, Exact, OnTime, FarewellsTrue, PeerTold,
           NEW k \in Slot, P!Disconnect(k)
    PROVE  OnTime' /\ FarewellsTrue' /\ PeerTold'
<1>1. SockTypes
  BY TypesOfParts
<1>2. /\ k \in P!Connected /\ P!Connected' = P!Connected \ {k}
      /\ \/ P!Connected = {k} /\ P!Moved(k, "farewell")
         \/ P!Connected # {k} /\ sock' = [sock EXCEPT ![k] = P!Free]
  BY DisconnectExact
<1>3. UNCHANGED told /\ P!At(k, "leaving") /\ sock[k] # P!Free /\ ~sock[k].overtaken
  BY <1>1, <1>2, StepNeedsSocket, Steps DEF P!Disconnect, P!peer, OnTime
<1>4. CASE P!Connected = {k} /\ P!Moved(k, "farewell")
  <2>1. /\ sock'[k].step = "farewell" /\ ~sock'[k].overtaken
        /\ \A j \in Slot \ {k} :
             /\ sock'[j].step = sock[j].step
             /\ j \in P!Transitions => sock'[j].overtaken
             /\ j \notin P!Transitions => sock'[j] = sock[j]
    <3>1. /\ Stepped(k, "farewell")
          /\ \A j \in Slot \ {k} :
               /\ SameSocket(j)
               /\ j \in P!Transitions => sock'[j].overtaken
               /\ j \notin P!Transitions => sock'[j] = sock[j]
      BY <1>1, <1>3, <1>4, ScriptMoves, Steps
    <3> QED BY <1>3, <3>1 DEF Stepped, SameSocket
  <2>2. P!Connected' = {}
    BY <1>2, <1>4
  <2>3. OnTime'
    <3>1. \A j \in Slot : P!At(j, "registered")' => ~sock'[j].overtaken
      BY <2>1 DEF OnTime, P!At, P!Transitions
    <3> QED BY <2>2, <3>1 DEF OnTime
  <2>4. FarewellsTrue'
    BY <2>2 DEF FarewellsTrue
  <2>5. k \in P!Transitions' /\ ~sock'[k].overtaken
    BY <2>1 DEF P!Transitions
  <2>6. PeerTold'
    BY <2>5 DEF PeerTold
  <2> QED BY <2>3, <2>4, <2>6
<1>5. CASE P!Connected # {k} /\ sock' = [sock EXCEPT ![k] = P!Free]
  <2>1. sock'[k].step = "free" /\ \A j \in Slot \ {k} : sock'[j] = sock[j]
    BY <1>1, <1>5, FreedSlot, FreeIsNoSocket
  <2>2. P!Connected # {} /\ P!Connected' # {}
    BY <1>2, <1>5
  <2>3. OnTime'
    <3>1. \A j \in P!Connected' : ~sock'[j].overtaken
      BY <1>2, <2>1 DEF OnTime, P!Connected
    <3>2. \A j \in Slot : P!At(j, "registered")' => ~sock'[j].overtaken
      BY <2>1 DEF OnTime, P!At
    <3> QED BY <3>1, <3>2 DEF OnTime
  <2>4. FarewellsTrue'
    BY <2>1, <2>2 DEF FarewellsTrue, P!At
  <2>5. P!Transitions' = P!Transitions /\ k \notin P!Transitions
    BY <1>3, <2>1 DEF P!Transitions, P!At
  <2>6. (\A j \in P!Transitions' : sock'[j].overtaken) <=> (\A j \in P!Transitions : sock[j].overtaken)
    <3>1. P!Transitions \subseteq Slot \ {k}
      BY <2>5 DEF P!Transitions
    <3> QED BY <2>1, <2>5, <3>1
  <2>7. PeerTold'
    BY <1>3, <2>2, <2>6 DEF PeerTold
  <2> QED BY <2>3, <2>4, <2>7
<1> QED BY <1>2, <1>4, <1>5

LEMMA AnnounceOnlineTold ==
    ASSUME PresenceTypes, OnTime, FarewellsTrue, NEW k \in Slot, P!AnnounceOnline(k), told' # "lost"
    PROVE  OnTime' /\ FarewellsTrue' /\ PeerTold'
<1>1. /\ sock'[k].step = "live" /\ P!At(k, "announce") /\ sock'[k].overtaken = sock[k].overtaken
      /\ \A j \in Slot \ {k} : sock'[j] = sock[j]
  <2>1. sock[k] # P!Free /\ P!At(k, "announce") /\ P!Goto(k, "live")
    BY StepNeedsSocket, Steps, TypesOfParts DEF P!AnnounceOnline
  <2>2. Stepped(k, "live") /\ \A j \in Slot \ {k} : sock'[j] = sock[j]
    BY <2>1, GotoMoves, Steps, TypesOfParts
  <2> QED BY <2>1, <2>2 DEF Stepped
<1>2. P!Connected' = P!Connected /\ P!Connected # {}
  BY <1>1 DEF P!Connected, P!At
<1>3. told' \in {"online", "stale"}
  BY DEF P!AnnounceOnline, P!Tell
<1>4. OnTime'
  BY <1>1, <1>2 DEF OnTime, P!Connected, P!At
<1>5. FarewellsTrue'
  BY <1>1, <1>2 DEF FarewellsTrue, P!At
<1> QED BY <1>2, <1>3, <1>4, <1>5 DEF PeerTold

LEMMA AnnounceOfflineTold ==
    ASSUME PresenceTypes, OnTime, FarewellsTrue, NEW k \in Slot, P!AnnounceOffline(k), told' # "lost"
    PROVE  OnTime' /\ FarewellsTrue' /\ PeerTold'
<1>1. /\ sock'[k].step = "free" /\ P!At(k, "farewell")
      /\ \A j \in Slot \ {k} : sock'[j] = sock[j]
  BY FreedSlot, FreeIsNoSocket, TypesOfParts DEF P!AnnounceOffline
<1>2. P!Connected' = P!Connected
  BY <1>1 DEF P!Connected, P!At
<1>3. told' = "stale" \/ (told' = "gone" /\ P!Connected = {})
  BY <1>1 DEF P!AnnounceOffline, P!Tell, FarewellsTrue
<1>4. OnTime'
  BY <1>1, <1>2 DEF OnTime, P!Connected, P!At
<1>5. FarewellsTrue'
  BY <1>1, <1>2 DEF FarewellsTrue, P!At
<1> QED BY <1>2, <1>3, <1>4, <1>5 DEF PeerTold

LEMMA QuietTold ==
    ASSUME PresenceTypes, OnTime, FarewellsTrue, PeerTold, NEW k \in Slot,
           P!Unregister(k) \/ \E i \in Instance : P!Open(k, i)
    PROVE  OnTime' /\ FarewellsTrue' /\ PeerTold'
<1>1. UNCHANGED told
  BY DEF P!Unregister, P!Open, P!peer
<1>2. /\ \A j \in Slot \ {k} : sock'[j] = sock[j]
      /\ \/ /\ sock[k].step = "live" /\ sock'[k].step = "leaving"
            /\ sock'[k].overtaken = sock[k].overtaken
         \/ sock[k].step = "free" /\ sock'[k].step = "registered" /\ sock'[k].overtaken = FALSE
  <2>1. CASE P!Unregister(k)
    <3>1. sock[k] # P!Free /\ P!At(k, "live") /\ P!Goto(k, "leaving")
      BY <2>1, StepNeedsSocket, Steps, TypesOfParts DEF P!Unregister
    <3>2. Stepped(k, "leaving") /\ \A j \in Slot \ {k} : sock'[j] = sock[j]
      BY <3>1, GotoMoves, Steps, TypesOfParts
    <3> QED BY <3>1, <3>2 DEF Stepped, P!At
  <2>2. ASSUME NEW i \in Instance, P!Open(k, i)
        PROVE  /\ \A j \in Slot \ {k} : sock'[j] = sock[j]
               /\ sock[k].step = "free" /\ sock'[k].step = "registered"
               /\ sock'[k].overtaken = FALSE
    BY <2>2, OpenMoves, FreeIsNoSocket, TypesOfParts DEF ProcessTyped, P!Open
  <2> QED BY <2>1, <2>2
<1>3. P!Connected' = P!Connected /\ P!Transitions' = P!Transitions /\ k \notin P!Transitions
  BY <1>2 DEF P!Connected, P!Transitions
<1>4. OnTime'
  <2>1. \A j \in P!Connected : ~sock'[j].overtaken
    BY <1>2, <1>3 DEF OnTime, P!Connected
  <2>2. \A j \in Slot : P!At(j, "registered")' => ~sock'[j].overtaken
    BY <1>2 DEF OnTime, P!At
  <2> QED BY <1>3, <2>1, <2>2 DEF OnTime
<1>5. FarewellsTrue'
  BY <1>2, <1>3 DEF FarewellsTrue, P!At
<1>6. (\A j \in P!Transitions' : sock'[j].overtaken) <=> (\A j \in P!Transitions : sock[j].overtaken)
  <2>1. P!Transitions \subseteq Slot \ {k}
    BY <1>3 DEF P!Transitions
  <2> QED BY <1>2, <1>3, <2>1
<1>7. PeerTold'
  BY <1>1, <1>3, <1>6 DEF PeerTold
<1> QED BY <1>4, <1>5, <1>7

LEMMA ToldStep ==
    ASSUME PresenceTypes, IdsApart, Held, Exact, OnTime, FarewellsTrue, PeerTold,
           [P!Next]_(P!vars), told' # "lost"
    PROVE  OnTime' /\ FarewellsTrue' /\ PeerTold'
<1>1. ASSUME NEW k \in Slot, P!Endpoint(k) PROVE OnTime' /\ FarewellsTrue' /\ PeerTold'
  <2>1. CASE P!Connect(k)
    BY <2>1, ConnectTold
  <2>2. CASE P!Disconnect(k)
    BY <2>2, DisconnectTold
  <2>3. CASE P!AnnounceOnline(k)
    BY <2>3, AnnounceOnlineTold
  <2>4. CASE P!AnnounceOffline(k)
    BY <2>4, AnnounceOfflineTold
  <2>5. CASE P!Unregister(k) \/ \E i \in Instance : P!Open(k, i)
    BY <2>5, QuietTold
  <2>6. CASE P!SetConversation(k)
    BY <2>6, UnchangedTold DEF P!SetConversation
  <2>7. CASE P!Update(k)
    <3>1. UNCHANGED sock /\ told' \in {"stale"} \cup P!Statuses /\ k \in P!Connected
      BY <2>7 DEF P!Update, P!Tell, P!Connected, P!At
    <3>2. P!Connected' = P!Connected
      BY <3>1, UnchangedSocketsKept
    <3>3. OnTime' /\ FarewellsTrue'
      BY <3>1, <3>2 DEF OnTime, FarewellsTrue, P!At
    <3> QED BY <3>1, <3>2, <3>3 DEF PeerTold, P!Statuses
  <2>8. CASE P!ConnectFails(k) \/ P!DisconnectFails(k) \/ P!BroadcastFails(k)
    BY <2>8 DEF P!ConnectFails, P!DisconnectFails, P!BroadcastFails, P!CallFails,
                P!Fault
  <2> QED BY <1>1, <2>1, <2>2, <2>3, <2>4, <2>5, <2>6, <2>7, <2>8 DEF P!Endpoint
<1>2. CASE \A k \in Slot : ~P!Endpoint(k)
  BY <1>2, OthersTell, UnchangedTold
<1> QED BY <1>1, <1>2

-----------------------------------------------------------------------------
(* The invariant.                                                          *)

LEMMA PresenceInvInit == P!Init => PresenceInv
<1> SUFFICES ASSUME P!Init PROVE PresenceInv
  OBVIOUS
<1>1. PresenceTypes
  <2>1. ttl \in [P!Key -> 0 .. P!TTL]
    BY KeyTypes DEF P!Init
  <2>2. KeysTyped
    BY <2>1 DEF P!Init, KeysTyped
  <2>3. ProcessTyped
    BY DEF P!Init, ProcessTyped
  <2>4. PeerTyped
    BY DEF P!Init, PeerTyped
  <2>5. SockTypes
    BY DEF P!Init, SockTypes
  <2> QED BY <2>2, <2>3, <2>4, <2>5, TypesOfParts
<1>2. /\ P!Connected = {} /\ P!Transitions = {}
      /\ \A k \in Slot : sock[k] = P!Free /\ sock[k].step = "free"
  BY FreeIsNoSocket DEF P!Init, P!Connected, P!Transitions
<1>3. IdsApart
  BY <1>2 DEF IdsApart
<1>4. Held
  BY <1>2 DEF Held
<1>5. Exact
  BY <1>2 DEF Exact, IdsOf, P!Init
<1>6. OnTime /\ FarewellsTrue /\ PeerTold
  BY <1>2 DEF OnTime, FarewellsTrue, PeerTold, P!At, P!Init
<1>7. ~failed
  BY DEF P!Init
<1> QED BY <1>1, <1>3, <1>4, <1>5, <1>6, <1>7 DEF PresenceInv

LEMMA PresenceInvStep == PresenceInv /\ [P!Next]_(P!vars) => PresenceInv'
<1> SUFFICES ASSUME PresenceInv, [P!Next]_(P!vars) PROVE PresenceInv'
  OBVIOUS
<1>1. /\ PresenceTypes /\ IdsApart
      /\ ~failed => Held
      /\ failed => told = "lost"
      /\ told # "lost" => Exact /\ OnTime /\ FarewellsTrue /\ PeerTold
  BY DEF PresenceInv
<1>2. PresenceTypes' /\ Blames
  BY <1>1, PresenceTypesStep
<1>3. IdsApart'
  BY <1>1, <1>2, IdsApartStep
<1>4. failed => failed'
  BY <1>1, <1>2 DEF Blames, PresenceTypes
<1>5. ~failed' => Held'
  BY <1>1, <1>4, HeldStep
<1>6. failed' => told' = "lost"
  BY <1>1, <1>2 DEF Blames
<1>7. told' # "lost" => told # "lost" /\ ~failed
  BY <1>1, <1>2 DEF Blames
<1>8. told' # "lost" => Exact' /\ OnTime' /\ FarewellsTrue' /\ PeerTold'
  BY <1>1, <1>7, ExactStep, ToldStep
<1> QED BY <1>2, <1>3, <1>5, <1>6, <1>8 DEF PresenceInv

LEMMA PresenceInvHolds == P!Spec => []PresenceInv
BY PresenceInvInit, PresenceInvStep, PTL DEF P!Spec

\* The state of Presence, the hub's ids, the sockets, the Redis keys of store.go:25-41
\* and their TTL, keeps its types.
THEOREM PresenceTypesHold == P!Spec => []PresenceTypes
<1>1. PresenceInv => PresenceTypes
  BY DEF PresenceInv
<1> QED BY <1>1, PresenceInvHolds, PTL

\* store.go:8-12: for any number of instances and sockets, a disconnect, an expiry
\* or a crash elsewhere takes no open socket out of Redis; only a Redis call that
\* failed can.
THEOREM PresenceShownWhileConnected == P!Spec => []ShownWhileConnected
<1>1. PresenceInv => ShownWhileConnected
  BY DEF PresenceInv, Held, Shown, ShownWhileConnected, P!Connected, Connected
<1> QED BY <1>1, PresenceInvHolds, PTL

\* service.go:60-86: for any number of instances and sockets, with no fault and the
\* broadcasts out, the peer was told offline with the time the user was last seen
\* exactly when no socket is connected, if the last broadcast reached it in order; a
\* client's own "offline" (handler.go:323-326) is not that.
THEOREM PresencePeersAgree == P!Spec => []PeersAgree
<1>1. PresenceInv => PeersAgree
  BY DEF PresenceInv, PeerTold, PeersAgree, P!Connected, Connected,
         P!Transitions, Transitions
<1> QED BY <1>1, PresenceInvHolds, PTL
=============================================================================
