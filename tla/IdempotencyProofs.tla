------------------------- MODULE IdempotencyProofs --------------------------
(***************************************************************************)
(* Proofs about Idempotency for every set of requests and keys.            *)
(*                                                                         *)
(* What the cache and the lock say is looked at in one step and relied on  *)
(* in later ones, so the invariant says of each step what the request that *)
(* is at it may still rely on: its own lock unless one has expired, an     *)
(* empty cache as it was when it looked, a pair without a conversation as  *)
(* it was when it looked.  All three speak of the requests that had ended  *)
(* before, for those do not change any more.                               *)
(***************************************************************************)
EXTENDS Idempotency, TLAPS

Statuses == {"rejected", "failed", "found", "created"}

Steps == {"idle", "get", "lock", "check", "find", "create", "names", "store", "release", "ended"}

Held == [step : Steps, slot : Slot \cup {None}, live : BOOLEAN, status : Statuses \cup {None},
         ran : BOOLEAN, stored : BOOLEAN, past : SUBSET Request]

TypeOK ==
    /\ groups \subseteq Key
    /\ cache \in [Slot -> Statuses \cup {None}]
    /\ lock \in [Slot -> Request \cup {None}]
    /\ made \subseteq Request
    /\ req \in [Request -> Held]
    /\ lapsed \subseteq Slot

\* Each request at its step: one that has not come knows nothing, one that has
\* come has a slot, one that answers has a status.
Shape(r) ==
    /\ req[r].step = "idle" => req[r].past = {} /\ ~req[r].ran /\ r \notin made
    /\ req[r].step # "idle" => req[r].slot \in Slot
    /\ req[r].step = "store" => req[r].status \in Statuses
    /\ req[r].stored => req[r].step \in {"release", "ended"} /\ cache[req[r].slot] # None
    /\ req[r].step \in {"idle", "get", "lock", "check", "find", "create"} => r \notin made
    /\ req[r].step = "get" => ~req[r].ran

ShapeInv == \A r \in Request : Shape(r)

\* Who is past Acquire and has not released has its lock, unless one expired.
Inside(r) == Running(r) \/ req[r].step = "release"

LockInv ==
    \A r \in Request : Inside(r) /\ req[r].slot \notin lapsed => lock[req[r].slot] = r

\* The requests a request came after have ended, and ended they stay.
PastInv == \A r \in Request : \A t \in req[r].past : req[t].step = "ended"

\* The cache was empty when the request looked: none of those had stored.
QuietInv ==
    \A r \in Request : req[r].step = "lock" \/ req[r].ran =>
        \A t \in req[r].past : SameKey(r, t) => ~req[t].stored

\* There was no pair when the request looked: none of those had made one.
PairInv ==
    \A r \in Request : Direct(r) /\ (req[r].step = "create" \/ r \in made) =>
        \A t \in req[r].past : ~(t \in made /\ Direct(t))

Inv == TypeOK /\ ShapeInv /\ LockInv /\ PastInv /\ QuietInv /\ PairInv

USE DEF At

-----------------------------------------------------------------------------
(* How the record of a request moves.                                      *)

\* A step of request r that leaves the other requests alone ...
Moves(r, step) ==
    /\ req' \in [Request -> Held]
    /\ \A t \in Request \ {r} : req'[t] = req[t]
    /\ req'[r].step = step
    /\ req[r].step # "ended"

\* ... and, for the most part, what r knows too.
Keeps(r, step) ==
    /\ Moves(r, step)
    /\ req'[r].slot = req[r].slot /\ req'[r].past = req[r].past
    /\ req'[r].ran = req[r].ran /\ req'[r].stored = req[r].stored

LEMMA Typed ==
    ASSUME TypeOK, NEW r \in Request, NEW h \in Held, req' = [req EXCEPT ![r] = h]
    PROVE  /\ req' \in [Request -> Held] /\ req'[r] = h
           /\ \A t \in Request \ {r} : req'[t] = req[t]
    BY DEF TypeOK

LEMMA GotoKeeps ==
    ASSUME TypeOK, NEW r \in Request, NEW step \in Steps, Goto(r, step), req[r].step # "ended"
    PROVE  Keeps(r, step) /\ req'[r].status = req[r].status
<1> DEFINE h == [req[r] EXCEPT !.step = step]
<1>1. req[r] \in Held
    BY DEF TypeOK
<1>2. /\ h \in Held /\ h.step = step /\ h.slot = req[r].slot /\ h.past = req[r].past
      /\ h.ran = req[r].ran /\ h.stored = req[r].stored /\ h.status = req[r].status
    BY <1>1 DEF Held
<1>3. req' = [req EXCEPT ![r] = h]
    BY DEF Goto
<1> HIDE DEF h
<1>4. QED BY <1>2, <1>3, Typed DEF Moves, Keeps

LEMMA AnswerKeeps ==
    ASSUME TypeOK, NEW r \in Request, NEW status \in Statuses, Answer(r, status),
           req[r].step # "ended"
    PROVE  Keeps(r, "store") /\ req'[r].status = status
<1> DEFINE h == [req[r] EXCEPT !.step = "store", !.status = status]
<1>1. req[r] \in Held
    BY DEF TypeOK
<1>2. /\ h \in Held /\ h.step = "store" /\ h.slot = req[r].slot /\ h.past = req[r].past
      /\ h.ran = req[r].ran /\ h.stored = req[r].stored /\ h.status = status
    BY <1>1 DEF Held, Steps
<1>3. req' = [req EXCEPT ![r] = h]
    BY DEF Answer
<1> HIDE DEF h
<1>4. QED BY <1>2, <1>3, Typed DEF Moves, Keeps

LEMMA EndKeeps ==
    ASSUME TypeOK, NEW r \in Request, End(r), req[r].step # "ended"
    PROVE  Keeps(r, "ended")
<1> DEFINE h == [req[r] EXCEPT !.step = "ended", !.live = TRUE, !.status = None]
<1>1. req[r] \in Held
    BY DEF TypeOK
<1>2. /\ h \in Held /\ h.step = "ended" /\ h.slot = req[r].slot /\ h.past = req[r].past
      /\ h.ran = req[r].ran /\ h.stored = req[r].stored
    BY <1>1 DEF Held, Steps
<1>3. req' = [req EXCEPT ![r] = h]
    BY DEF End
<1> HIDE DEF h
<1>4. QED BY <1>2, <1>3, Typed DEF Moves, Keeps

LEMMA ArriveMoves ==
    ASSUME TypeOK, NEW r \in Request, NEW s \in Slot, Arrive(r, s)
    PROVE  /\ Moves(r, "get") /\ req'[r].slot = s
           /\ req'[r].past = {t \in Request : req[t].step = "ended"}
           /\ req'[r].ran = req[r].ran /\ req'[r].stored = req[r].stored
<1> DEFINE P == {t \in Request : req[t].step = "ended"}
           h == [req[r] EXCEPT !.step = "get", !.slot = s, !.past = P]
<1>1. req[r] \in Held /\ P \in SUBSET Request
    BY DEF TypeOK
<1>2. req' = [req EXCEPT ![r] = h]
    BY DEF Arrive
<1> HIDE DEF P
<1>3. /\ h \in Held /\ h.step = "get" /\ h.slot = s /\ h.past = P
      /\ h.ran = req[r].ran /\ h.stored = req[r].stored
    BY <1>1 DEF Held, Steps
<1> HIDE DEF h
<1>4. req[r].step # "ended"
    BY DEF Arrive
<1>5. QED BY <1>2, <1>3, <1>4, Typed DEF Moves, P

LEMMA AcquireMoves ==
    ASSUME TypeOK, NEW r \in Request, Acquire(r)
    PROVE  /\ Moves(r, "check") /\ req'[r].slot = req[r].slot /\ req'[r].past = req[r].past
           /\ req'[r].ran /\ req'[r].stored = req[r].stored
<1> DEFINE h == [req[r] EXCEPT !.step = "check", !.ran = TRUE]
<1>1. req[r] \in Held
    BY DEF TypeOK
<1>2. /\ h \in Held /\ h.step = "check" /\ h.slot = req[r].slot /\ h.past = req[r].past
      /\ h.ran /\ h.stored = req[r].stored
    BY <1>1 DEF Held, Steps
<1>3. req' = [req EXCEPT ![r] = h] /\ req[r].step # "ended"
    BY DEF Acquire
<1> HIDE DEF h
<1>4. QED BY <1>2, <1>3, Typed DEF Moves

LEMMA StoreMoves ==
    ASSUME TypeOK, NEW r \in Request, Store(r)
    PROVE  /\ Moves(r, "release") /\ req'[r].slot = req[r].slot /\ req'[r].past = req[r].past
           /\ req'[r].ran = req[r].ran /\ req'[r].stored = Cacheable(req[r].status)
<1> DEFINE h == [req[r] EXCEPT !.step = "release", !.stored = Cacheable(req[r].status)]
<1>1. req[r] \in Held /\ Cacheable(req[r].status) \in BOOLEAN
    BY DEF TypeOK, Cacheable
<1>2. req' = [req EXCEPT ![r] = h] /\ req[r].step # "ended"
    BY DEF Store, Cacheable
<1> HIDE DEF Cacheable
<1>3. /\ h \in Held /\ h.step = "release" /\ h.slot = req[r].slot /\ h.past = req[r].past
      /\ h.ran = req[r].ran /\ h.stored = Cacheable(req[r].status)
    BY <1>1 DEF Held, Steps
<1> HIDE DEF h
<1>4. QED BY <1>2, <1>3, Typed DEF Moves

LEMMA LeaveKeeps ==
    ASSUME TypeOK, NEW r \in Request, Leave(r)
    PROVE  Keeps(r, req[r].step) /\ req'[r].status = req[r].status
<1> DEFINE h == [req[r] EXCEPT !.live = FALSE]
<1>1. req[r] \in Held
    BY DEF TypeOK
<1>2. /\ h \in Held /\ h.step = req[r].step /\ h.slot = req[r].slot /\ h.past = req[r].past
      /\ h.ran = req[r].ran /\ h.stored = req[r].stored /\ h.status = req[r].status
    BY <1>1 DEF Held
<1>3. req' = [req EXCEPT ![r] = h] /\ req[r].step # "ended"
    BY DEF Leave, Open
<1> HIDE DEF h
<1>4. QED BY <1>2, <1>3, Typed DEF Moves, Keeps

-----------------------------------------------------------------------------
(* What each part of the invariant asks of a step of one request.          *)

\* The request keeps its slot and its past, or it comes.
Comes(r, step) ==
    \/ req'[r].slot = req[r].slot /\ req'[r].past = req[r].past
    \/ /\ step = "get" /\ req[r].step = "idle"
       /\ req'[r].past = {t \in Request : req[t].step = "ended"}

LEMMA PastRequests ==
    ASSUME TypeOK, NEW q \in Request, NEW t \in req[q].past
    PROVE  t \in Request
<1>1. req[q] \in Held
    BY DEF TypeOK
<1>2. QED BY <1>1 DEF Held

LEMMA ShapeStep ==
    ASSUME ShapeInv, NEW r \in Request, NEW step, Moves(r, step), Shape(r)',
           made' \subseteq made \cup {r}, \A s \in Slot : cache[s] # None => cache'[s] # None
    PROVE  ShapeInv'
<1>1. ASSUME NEW t \in Request \ {r} PROVE Shape(t)'
    <2>1. req'[t] = req[t] /\ (t \in made' => t \in made) /\ Shape(t)
        BY DEF Moves, ShapeInv
    <2>2. req[t].stored => req[t].slot \in Slot
        BY <2>1 DEF Shape
    <2>3. QED BY <2>1, <2>2 DEF Shape
<1>2. QED BY <1>1 DEF ShapeInv

LEMMA PastStep ==
    ASSUME TypeOK, PastInv, NEW r \in Request, NEW step, Moves(r, step), Comes(r, step)
    PROVE  PastInv'
<1>1. \A t \in Request : req[t].step = "ended" => t # r /\ req'[t].step = "ended"
    BY DEF Moves
<1>2. ASSUME NEW q \in Request, NEW t \in req'[q].past PROVE req'[t].step = "ended"
    <2>1. CASE req'[q].past = req[q].past
        <3>1. t \in Request
            BY <1>2, <2>1, PastRequests
        <3>2. QED BY <1>1, <1>2, <2>1, <3>1 DEF PastInv
    <2>2. CASE q = r /\ req'[r].past = {u \in Request : req[u].step = "ended"}
        BY <1>1, <1>2, <2>2
    <2>3. q # r => req'[q].past = req[q].past
        BY DEF Moves
    <2>4. QED BY <2>1, <2>2, <2>3 DEF Comes
<1>3. QED BY <1>2 DEF PastInv

\* The past of each request is out of reach of the step.
LEMMA PastUntouched ==
    ASSUME TypeOK, PastInv, NEW r \in Request, NEW step, Moves(r, step),
           NEW q \in Request, NEW t \in req[q].past
    PROVE  t \in Request /\ t # r /\ req'[t] = req[t]
<1>1. t \in Request /\ req[t].step = "ended"
    BY PastRequests DEF PastInv
<1>2. QED BY <1>1 DEF Moves

LEMMA QuietStep ==
    ASSUME TypeOK, ShapeInv, PastInv, QuietInv,
           NEW r \in Request, NEW step, Moves(r, step), Comes(r, step),
           step = "get" => ~req'[r].ran,
           step = "lock" \/ req'[r].ran =>
              req[r].step = "lock" \/ req[r].ran \/ cache[req[r].slot] = None
    PROVE  QuietInv'
<1>1. ASSUME NEW q \in Request, req'[q].step = "lock" \/ req'[q].ran, NEW t \in req'[q].past,
             SameKey(q, t)'
      PROVE  ~req'[t].stored
    <2>1. req'[q].slot = req[q].slot /\ req'[q].past = req[q].past
        BY <1>1 DEF Moves, Comes
    <2>2. t \in req[q].past /\ t \in Request /\ t # r /\ req'[t] = req[t]
        BY <1>1, <2>1, PastUntouched
    <2>3. SameKey(q, t)
        BY <1>1, <2>1, <2>2 DEF SameKey
    <2>4. CASE req[q].step = "lock" \/ req[q].ran
        BY <2>2, <2>3, <2>4 DEF QuietInv
    <2>5. CASE q = r /\ cache[req[r].slot] = None
        BY <2>2, <2>3, <2>5 DEF ShapeInv, Shape, SameKey
    <2>6. QED BY <1>1, <2>4, <2>5 DEF Moves
<1>2. QED BY <1>1 DEF QuietInv

LEMMA PairStep ==
    ASSUME TypeOK, ShapeInv, PastInv, PairInv,
           NEW r \in Request, NEW step, Moves(r, step), Comes(r, step), UNCHANGED groups,
           made' \subseteq made \cup {r},
           step = "get" => r \notin made',
           Direct(r) /\ (step = "create" \/ r \in made') =>
              req[r].step = "create" \/ r \in made \/ Pairs(r) = {}
    PROVE  PairInv'
<1>1. ASSUME NEW q \in Request, Direct(q)', req'[q].step = "create" \/ q \in made',
             NEW t \in req'[q].past, t \in made', Direct(t)'
      PROVE  FALSE
    <2>1. req'[q].slot = req[q].slot /\ req'[q].past = req[q].past
        BY <1>1 DEF Moves, Comes
    <2>2. t \in req[q].past /\ t \in Request /\ t # r /\ req'[t] = req[t]
        BY <1>1, <2>1, PastUntouched
    <2>3. Direct(q) /\ Direct(t) /\ t \in made
        BY <1>1, <2>1, <2>2 DEF Direct
    <2>4. CASE req[q].step = "create" \/ q \in made
        BY <2>2, <2>3, <2>4 DEF PairInv
    <2>5. CASE q = r /\ Pairs(r) = {}
        BY <2>3, <2>5 DEF Pairs
    <2>6. QED BY <1>1, <2>3, <2>4, <2>5 DEF Moves
<1>2. QED BY <1>1 DEF PairInv

\* The step sets the lock where there is none, drops its own, or leaves it alone.
Locks(r) ==
    req[r].slot \in Slot /\ lock[req[r].slot] = None /\ lock' = [lock EXCEPT ![req[r].slot] = r]

Drops(r) ==
    Inside(r) /\ req[r].slot \in Slot /\ lock' = [lock EXCEPT ![req[r].slot] = None]

LEMMA LockStep ==
    ASSUME TypeOK, ShapeInv, LockInv, NEW r \in Request, NEW step, Moves(r, step),
           UNCHANGED lapsed, Inside(r)' => req'[r].slot = req[r].slot,
           \/ UNCHANGED lock /\ (Inside(r)' => Inside(r))
           \/ Locks(r)
           \/ Drops(r) /\ ~Inside(r)'
    PROVE  LockInv'
<1>1. ASSUME NEW t \in Request \ {r}, Inside(t)', req'[t].slot \notin lapsed'
      PROVE  lock'[req'[t].slot] = t
    <2>1. req'[t] = req[t] /\ Inside(t) /\ lock[req[t].slot] = t
        BY <1>1 DEF Moves, Inside, Running, LockInv
    <2>2. req[t].slot \in Slot
        BY <2>1 DEF Inside, Running, ShapeInv, Shape
    <2>3. CASE Locks(r)
        BY <2>1, <2>2, <2>3, NoneAssumption DEF TypeOK, Locks
    <2>4. CASE Drops(r)
        <3>1. req[r].slot = req[t].slot => lock[req[r].slot] = r
            BY <1>1, <2>1, <2>4 DEF LockInv, Drops
        <3>2. QED BY <1>1, <2>1, <2>2, <2>4, <3>1 DEF TypeOK, Drops
    <2>5. CASE UNCHANGED lock
        BY <2>1, <2>5
    <2>6. QED BY <2>3, <2>4, <2>5
<1>2. ASSUME Inside(r)', req'[r].slot \notin lapsed' PROVE lock'[req'[r].slot] = r
    <2>1. CASE UNCHANGED lock /\ Inside(r)
        <3>1. req[r].slot \notin lapsed /\ req'[r].slot = req[r].slot
            BY <1>2
        <3>2. QED BY <2>1, <3>1 DEF LockInv
    <2>2. CASE Locks(r)
        BY <1>2, <2>2 DEF TypeOK, Locks
    <2>3. QED BY <1>2, <2>1, <2>2
<1>3. QED BY <1>1, <1>2 DEF LockInv

-----------------------------------------------------------------------------
(* The steps.                                                              *)

\* What a request may rely on at the step it comes to, if it keeps what it knows.
Allowed(r, step) ==
    /\ step \in {"check", "find", "create", "names", "store", "release"} => Inside(r)
    /\ req[r].step # "idle" /\ step # "idle"
    /\ step = "get" => req[r].step = "get"
    /\ step = "store" => req'[r].status \in Statuses
    /\ step = "lock" => req[r].step = "lock" \/ cache[req[r].slot] = None
    /\ step \in {"lock", "check", "find", "create"} =>
          req[r].step \in {"get", "lock", "check", "find", "create"}
    /\ step = "create" /\ Direct(r) => req[r].step = "create" \/ Pairs(r) = {}
    /\ req[r].stored => step \in {"release", "ended"}

\* What else the step does.
Kept(r, step) ==
    /\ UNCHANGED <<groups, cache, made, lapsed>>
    /\ \/ UNCHANGED lock
       \/ step = "ended" /\ (Locks(r) \/ Drops(r))

\* A step that touches nothing but its request and, at the end, its lock.
LEMMA KeepsInv ==
    ASSUME Inv, NEW r \in Request, NEW step \in Steps, Keeps(r, step), Allowed(r, step),
           Kept(r, step)
    PROVE  Inv'
<1>1. TypeOK'
    <2>1. lock' \in [Slot -> Request \cup {None}]
        BY DEF Inv, TypeOK, Locks, Drops, Kept
    <2>2. QED BY <2>1 DEF Inv, TypeOK, Keeps, Moves, Kept
<1>2. Moves(r, step) /\ Comes(r, step)
    BY DEF Keeps, Comes
<1>3. Shape(r)'
    BY DEF Inv, ShapeInv, Shape, Keeps, Moves, Allowed, Kept
<1>4. ShapeInv'
    BY <1>2, <1>3, ShapeStep DEF Inv, Kept
<1>5. PastInv'
    BY <1>2, PastStep DEF Inv
<1>6. QuietInv'
    <2>1. step = "get" => ~req'[r].ran
        BY DEF Inv, ShapeInv, Shape, Keeps, Allowed
    <2>2. QED BY <1>2, <2>1, QuietStep DEF Inv, Keeps, Allowed
<1>7. PairInv'
    <2>1. step = "get" => r \notin made'
        BY DEF Inv, ShapeInv, Shape, Allowed, Kept
    <2>2. Direct(r) /\ (step = "create" \/ r \in made') =>
              req[r].step = "create" \/ r \in made \/ Pairs(r) = {}
        BY DEF Allowed, Kept
    <2>3. QED BY <1>2, <2>1, <2>2, PairStep DEF Inv, Kept
<1>8. LockInv'
    <2>1. req'[r].slot = req[r].slot /\ (Inside(r)' => Inside(r) \/ req'[r].step = "ended")
        BY DEF Keeps, Moves, Inside, Running, Allowed
    <2>2. step = "ended" => ~Inside(r)'
        BY DEF Keeps, Moves, Inside, Running, Allowed
    <2>3. QED BY <1>2, <2>1, <2>2, LockStep DEF Inv, Keeps, Moves, Kept
<1>9. QED BY <1>1, <1>4, <1>5, <1>6, <1>7, <1>8 DEF Inv

LEMMA StepGet == ASSUME Inv, NEW r \in Request, Get(r) PROVE Inv'
<1>1. req[r].step = "get" /\ UNCHANGED <<groups, cache, lock, made, lapsed>>
    BY DEF Get
<1>2. CASE cache[req[r].slot] # None
    <2>1. Keeps(r, "ended")
        BY <1>2, EndKeeps DEF Get, Inv
    <2>2. Allowed(r, "ended") /\ Kept(r, "ended")
        BY <1>1 DEF Allowed, Kept
    <2>3. QED BY <1>1, <2>1, <2>2, KeepsInv DEF Steps
<1>3. CASE cache[req[r].slot] = None
    <2>1. Keeps(r, "lock")
        BY <1>3, GotoKeeps DEF Get, Inv, Steps
    <2>2. ~req[r].stored
        BY <1>1 DEF Inv, ShapeInv, Shape
    <2>3. Allowed(r, "lock") /\ Kept(r, "lock")
        BY <1>1, <1>3, <2>2 DEF Allowed, Kept
    <2>4. QED BY <1>1, <2>1, <2>3, KeepsInv DEF Steps
<1>4. QED BY <1>2, <1>3

LEMMA StepRefuse == ASSUME Inv, NEW r \in Request, Refuse(r) \/ Conflict(r) PROVE Inv'
<1>1. req[r].step \in {"get", "lock"} /\ req[r].slot \in Slot
    BY DEF Refuse, Conflict, Inv, ShapeInv, Shape
<1>2. Keeps(r, "ended") /\ Allowed(r, "ended")
    BY <1>1, EndKeeps DEF Refuse, Conflict, Inv, Allowed
<1>3. Kept(r, "ended")
    BY <1>1 DEF Refuse, Conflict, Locks, Kept
<1>4. QED BY <1>2, <1>3, KeepsInv DEF Steps

LEMMA StepRelease == ASSUME Inv, NEW r \in Request, Release(r) PROVE Inv'
<1>1. req[r].step = "release" /\ req[r].slot \in Slot
    BY DEF Release, Inv, ShapeInv, Shape
<1>2. Keeps(r, "ended") /\ Allowed(r, "ended")
    BY <1>1, EndKeeps DEF Release, Inv, Allowed
<1>3. Kept(r, "ended")
    BY <1>1 DEF Release, Drops, Inside, Kept
<1>4. QED BY <1>2, <1>3, KeepsInv DEF Steps

LEMMA StepAbort == ASSUME Inv, NEW r \in Request, Abort(r) PROVE Inv'
<1>1. req[r].step \notin {"idle", "ended"} /\ UNCHANGED <<groups, cache, lock, made, lapsed>>
    BY DEF Abort, Open
<1>2. Keeps(r, "ended") /\ Allowed(r, "ended") /\ Kept(r, "ended")
    BY <1>1, EndKeeps DEF Abort, Inv, Allowed, Kept
<1>3. QED BY <1>1, <1>2, KeepsInv DEF Steps

LEMMA StepLeave == ASSUME Inv, NEW r \in Request, Leave(r) PROVE Inv'
<1>1. req[r].step \notin {"idle", "ended"} /\ UNCHANGED <<groups, cache, lock, made, lapsed>>
    BY DEF Leave, Open
<1>2. req[r].step \in Steps
    BY DEF Inv, TypeOK, Held
<1>3. Keeps(r, req[r].step) /\ req'[r].status = req[r].status
    BY LeaveKeeps DEF Inv
<1>4. /\ req[r].step = "store" => req'[r].status \in Statuses
      /\ req[r].stored => req[r].step \in {"release", "ended"}
    BY <1>3 DEF Inv, ShapeInv, Shape
<1>5. Allowed(r, req[r].step) /\ Kept(r, req[r].step)
    BY <1>1, <1>4 DEF Allowed, Inside, Running, Kept
<1>6. QED BY <1>1, <1>2, <1>3, <1>5, KeepsInv

\* The steps of the handler but its COMMIT.
LEMMA StepHandler ==
    ASSUME Inv, NEW r \in Request, Check(r) \/ FindDirectPair(r) \/ CreateFails(r) \/ ReadNames(r)
    PROVE  Inv'
<1>1. /\ req[r].step \in {"check", "find", "create", "names"} /\ Inside(r)
      /\ UNCHANGED <<groups, cache, lock, made, lapsed>>
    BY DEF Check, FindDirectPair, CreateFails, ReadNames, Inside, Running
<1>2. ~req[r].stored
    BY <1>1 DEF Inv, ShapeInv, Shape
<1>3. ASSUME NEW status \in Statuses, Answer(r, status) PROVE Inv'
    <2>1. Keeps(r, "store") /\ req'[r].status = status
        BY <1>1, <1>3, AnswerKeeps DEF Inv
    <2>2. Allowed(r, "store") /\ Kept(r, "store")
        BY <1>1, <1>2, <2>1 DEF Allowed, Kept
    <2>3. QED BY <1>1, <2>1, <2>2, KeepsInv DEF Steps
<1>4. ASSUME NEW step \in {"find", "create"}, Goto(r, step),
             req[r].step \in {"check", "find"},
             step = "create" /\ Direct(r) => Pairs(r) = {}
      PROVE  Inv'
    <2>1. Keeps(r, step) /\ step \in Steps
        BY <1>1, <1>4, GotoKeeps DEF Inv, Steps
    <2>2. Allowed(r, step) /\ Kept(r, step)
        BY <1>1, <1>2, <1>4 DEF Allowed, Kept
    <2>3. QED BY <1>1, <2>1, <2>2, KeepsInv
<1>5. CASE Check(r)
    BY <1>3, <1>4, <1>5 DEF Check, Statuses
<1>6. CASE FindDirectPair(r)
    BY <1>3, <1>4, <1>6 DEF FindDirectPair, Statuses
<1>7. CASE CreateFails(r) \/ ReadNames(r)
    BY <1>3, <1>7 DEF CreateFails, ReadNames, Statuses
<1>8. QED BY <1>5, <1>6, <1>7

LEMMA StepStoreFails == ASSUME Inv, NEW r \in Request, StoreFails(r) PROVE Inv'
<1>1. req[r].step = "store" /\ Inside(r) /\ UNCHANGED <<groups, cache, lock, made, lapsed>>
    BY DEF StoreFails, Inside, Running
<1>2. Keeps(r, "release")
    BY <1>1, GotoKeeps DEF StoreFails, Inv, Steps
<1>3. Allowed(r, "release") /\ Kept(r, "release")
    BY <1>1 DEF Allowed, Kept
<1>4. QED BY <1>1, <1>2, <1>3, KeepsInv DEF Steps

LEMMA StepArrive == ASSUME Inv, NEW r \in Request, NEW s \in Slot, Arrive(r, s) PROVE Inv'
<1>1. /\ Moves(r, "get") /\ req'[r].slot = s
      /\ req'[r].past = {t \in Request : req[t].step = "ended"}
      /\ req'[r].ran = req[r].ran /\ req'[r].stored = req[r].stored
    BY ArriveMoves DEF Inv
<1>2. req[r].step = "idle" /\ UNCHANGED <<groups, cache, lock, made, lapsed>>
    BY DEF Arrive
<1>3. Comes(r, "get")
    BY <1>1, <1>2 DEF Comes
<1>4. ~req[r].ran /\ ~req[r].stored /\ r \notin made
    BY <1>2 DEF Inv, ShapeInv, Shape
<1>5. TypeOK'
    BY <1>1, <1>2 DEF Inv, TypeOK, Moves
<1>6. Shape(r)'
    BY <1>1, <1>2, <1>4 DEF Shape, Moves
<1>7. ShapeInv'
    BY <1>1, <1>2, <1>6, ShapeStep DEF Inv
<1>8. PastInv'
    BY <1>1, <1>3, PastStep DEF Inv
<1>9. QuietInv'
    BY <1>1, <1>3, <1>4, QuietStep DEF Inv
<1>10. PairInv'
    BY <1>1, <1>2, <1>3, <1>4, PairStep DEF Inv
<1>11. LockInv'
    <2>1. ~Inside(r)'
        BY <1>1 DEF Moves, Inside, Running
    <2>2. QED BY <1>1, <1>2, <2>1, LockStep DEF Inv
<1>12. QED BY <1>5, <1>7, <1>8, <1>9, <1>10, <1>11 DEF Inv

LEMMA StepAcquire == ASSUME Inv, NEW r \in Request, Acquire(r) PROVE Inv'
<1>1. /\ Moves(r, "check") /\ req'[r].slot = req[r].slot /\ req'[r].past = req[r].past
      /\ req'[r].ran /\ req'[r].stored = req[r].stored
    BY AcquireMoves DEF Inv
<1>2. /\ req[r].step = "lock" /\ UNCHANGED <<groups, cache, made, lapsed>>
      /\ req[r].slot \in Slot /\ Locks(r)
    BY DEF Acquire, Inv, ShapeInv, Shape, Locks
<1>3. Comes(r, "check")
    BY <1>1 DEF Comes
<1>4. ~req[r].stored /\ r \notin made
    BY <1>2 DEF Inv, ShapeInv, Shape
<1>5. TypeOK'
    <2>1. lock' \in [Slot -> Request \cup {None}]
        BY <1>2 DEF Inv, TypeOK, Locks
    <2>2. QED BY <1>1, <1>2, <2>1 DEF Inv, TypeOK, Moves
<1>6. Shape(r)'
    BY <1>1, <1>2, <1>4 DEF Shape, Moves
<1>7. ShapeInv'
    BY <1>1, <1>2, <1>6, ShapeStep DEF Inv
<1>8. PastInv'
    BY <1>1, <1>3, PastStep DEF Inv
<1>9. QuietInv'
    BY <1>1, <1>2, <1>3, QuietStep DEF Inv
<1>10. PairInv'
    BY <1>1, <1>2, <1>3, <1>4, PairStep DEF Inv
<1>11. LockInv'
    BY <1>1, <1>2, LockStep DEF Inv
<1>12. QED BY <1>5, <1>7, <1>8, <1>9, <1>10, <1>11 DEF Inv

LEMMA StepStore == ASSUME Inv, NEW r \in Request, Store(r) PROVE Inv'
<1>1. /\ Moves(r, "release") /\ req'[r].slot = req[r].slot /\ req'[r].past = req[r].past
      /\ req'[r].ran = req[r].ran /\ req'[r].stored = Cacheable(req[r].status)
    BY StoreMoves DEF Inv
<1>2. /\ req[r].step = "store" /\ UNCHANGED <<groups, lock, made, lapsed>>
      /\ req[r].slot \in Slot /\ req[r].status \in Statuses
    BY DEF Store, Inv, ShapeInv, Shape
<1>3. Comes(r, "release")
    BY <1>1 DEF Comes
<1>4. /\ cache' \in [Slot -> Statuses \cup {None}]
      /\ \A s \in Slot : cache[s] # None => cache'[s] # None
      /\ Cacheable(req[r].status) => cache'[req[r].slot] # None
    <2>1. CASE Cacheable(req[r].status)
        <3>1. cache' = [cache EXCEPT ![req[r].slot] = req[r].status]
            BY <2>1 DEF Store
        <3>2. req[r].status # None
            BY <1>2, NoneAssumption DEF Statuses
        <3>3. QED BY <1>2, <3>1, <3>2 DEF Inv, TypeOK
    <2>2. CASE ~Cacheable(req[r].status)
        BY <2>2 DEF Store, Inv, TypeOK
    <2>3. QED BY <2>1, <2>2
<1>5. TypeOK'
    BY <1>1, <1>2, <1>4 DEF Inv, TypeOK, Moves
<1>6. Shape(r)'
    BY <1>1, <1>2, <1>4 DEF Shape, Moves
<1>7. ShapeInv'
    BY <1>1, <1>2, <1>4, <1>6, ShapeStep DEF Inv
<1>8. PastInv'
    BY <1>1, <1>3, PastStep DEF Inv
<1>9. QuietInv'
    BY <1>1, <1>3, QuietStep DEF Inv
<1>10. PairInv'
    BY <1>1, <1>2, <1>3, PairStep DEF Inv
<1>11. LockInv'
    <2>1. Inside(r)
        BY <1>2 DEF Inside, Running
    <2>2. QED BY <1>1, <1>2, <2>1, LockStep DEF Inv
<1>12. QED BY <1>5, <1>7, <1>8, <1>9, <1>10, <1>11 DEF Inv

LEMMA StepCreate == ASSUME Inv, NEW r \in Request, Create(r) PROVE Inv'
<1>1. /\ req[r].step = "create" /\ made' = made \cup {r}
      /\ UNCHANGED <<groups, cache, lock, lapsed>>
    BY DEF Create
<1>2. Keeps(r, "names") /\ Moves(r, "names") /\ Comes(r, "names")
    BY <1>1, GotoKeeps DEF Create, Inv, Steps, Keeps, Comes
<1>3. TypeOK'
    BY <1>1, <1>2 DEF Inv, TypeOK, Moves
<1>4. Shape(r)'
    BY <1>1, <1>2 DEF Inv, ShapeInv, Shape, Keeps, Moves
<1>5. ShapeInv'
    BY <1>1, <1>2, <1>4, ShapeStep DEF Inv
<1>6. PastInv'
    BY <1>2, PastStep DEF Inv
<1>7. QuietInv'
    BY <1>2, QuietStep DEF Inv, Keeps
<1>8. PairInv'
    BY <1>1, <1>2, PairStep DEF Inv
<1>9. LockInv'
    <2>1. Inside(r)
        BY <1>1 DEF Inside, Running
    <2>2. QED BY <1>1, <1>2, <2>1, LockStep DEF Inv, Keeps
<1>10. QED BY <1>3, <1>5, <1>6, <1>7, <1>8, <1>9 DEF Inv

\* The lock of a request that is past Acquire expires: that is what lapsed records.
LEMMA StepLockExpires == ASSUME Inv, NEW s \in Slot, LockExpires(s) PROVE Inv'
<1>1. /\ UNCHANGED <<groups, cache, made, req>> /\ lock' = [lock EXCEPT ![s] = None]
      /\ lapsed' = IF Open(lock[s]) THEN lapsed \cup {s} ELSE lapsed
    BY DEF LockExpires
<1>2. TypeOK'
    BY <1>1 DEF Inv, TypeOK
<1>3. ShapeInv' /\ PastInv' /\ QuietInv' /\ PairInv'
    BY <1>1 DEF Inv, ShapeInv, Shape, PastInv, QuietInv, SameKey, PairInv, Direct
<1>4. LockInv'
    <2>1. SUFFICES ASSUME NEW t \in Request, Inside(t), req[t].slot \notin lapsed'
                   PROVE  lock'[req[t].slot] = t
        BY <1>1 DEF LockInv, Inside, Running
    <2>2. lock[req[t].slot] = t /\ req[t].slot \in Slot
        BY <1>1, <2>1 DEF Inv, LockInv, ShapeInv, Shape, Inside, Running
    <2>3. Open(t)
        BY <2>1 DEF Inside, Running, Open
    <2>4. req[t].slot # s
        BY <1>1, <2>1, <2>2, <2>3
    <2>5. QED BY <1>1, <2>2, <2>4 DEF Inv, TypeOK
<1>5. QED BY <1>2, <1>3, <1>4 DEF Inv

-----------------------------------------------------------------------------

LEMMA InvInit == ASSUME Init PROVE Inv
<1>1. TypeOK
    BY DEF Init, TypeOK, Idle, Held, Steps, Slot
<1>2. ShapeInv /\ LockInv /\ PastInv /\ QuietInv /\ PairInv
    BY DEF Init, Idle, ShapeInv, Shape, LockInv, Inside, Running, PastInv, QuietInv, PairInv
<1>3. QED BY <1>1, <1>2 DEF Inv

LEMMA InvStep == ASSUME Inv, [Next]_vars PROVE Inv'
<1>1. ASSUME NEW r \in Request, Middleware(r) PROVE Inv'
    BY <1>1, StepArrive, StepGet, StepRefuse, StepAcquire, StepStore, StepStoreFails, StepRelease
       DEF Middleware
<1>2. ASSUME NEW r \in Request, CreateConversation(r) PROVE Inv'
    BY <1>2, StepHandler, StepCreate DEF CreateConversation
<1>3. CASE UNCHANGED vars
    BY <1>3 DEF vars, Inv, TypeOK, ShapeInv, Shape, LockInv, Inside, Running, PastInv,
                QuietInv, SameKey, PairInv, Direct
<1>4. QED BY <1>1, <1>2, <1>3, StepLeave, StepAbort, StepLockExpires DEF Next

LEMMA InvExecution == ASSUME Inv PROVE OneExecutionPerKey
<1>1. ASSUME NEW r \in Request, NEW t \in Request, SameKey(r, t), Running(r), Running(t)
      PROVE  req[r].slot \in lapsed
    BY <1>1 DEF Inv, LockInv, Inside, SameKey
<1>2. ASSUME NEW r \in Request, NEW t \in Request, SameKey(r, t), t \in req[r].past,
             req[t].stored
      PROVE  ~req[r].ran
    BY <1>2 DEF Inv, QuietInv
<1>3. QED BY <1>1, <1>2 DEF OneExecutionPerKey

LEMMA InvPairs == ASSUME Inv PROVE PairsDoubleOnlyByOverlap
    BY DEF Inv, TypeOK, PairInv, PairsDoubleOnlyByOverlap

LEMMA Safety == Spec => []Inv
<1>1. Init => Inv
    BY InvInit
<1>2. Inv /\ [Next]_vars => Inv'
    BY InvStep
<1>3. QED BY <1>1, <1>2, PTL DEF Spec

\* What the requests, the cache and the lock hold in every execution of the
\* middleware, whatever fails, leaves or expires.
THEOREM IdempotencyTypes == Spec => []TypeOK
<1>1. Inv => TypeOK
    BY DEF Inv
<1>2. QED BY <1>1, Safety, PTL

\* idem.go:66-78, for every number of requests and keys: two handlers of one
\* key run side by side only after a lock expired under one of them, and no handler
\* runs for a request that came after an answer of its key was stored.
THEOREM IdempotencyOneExecutionPerKey == Spec => []OneExecutionPerKey
<1>1. Inv => OneExecutionPerKey
    BY InvExecution
<1>2. QED BY <1>1, Safety, PTL

\* create.go:34-35, for every number of requests: of two direct conversations of a
\* pair, neither was created by a request that came after the other's had ended.
THEOREM IdempotencyPairsDoubleOnlyByOverlap == Spec => []PairsDoubleOnlyByOverlap
<1>1. Inv => PairsDoubleOnlyByOverlap
    BY InvPairs
<1>2. QED BY <1>1, Safety, PTL
=============================================================================
