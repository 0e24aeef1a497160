---------------------------- MODULE Idempotency -----------------------------
(***************************************************************************)
(* The Idempotency-Key middleware (platform/httpapi/idem.go) around the    *)
(* handler that creates conversations (chat/delivery/http, CreateConver-   *)
(* sation of chat/application): the cached response and the lock in Redis, *)
(* the lookup of a direct pair through the pool and the transaction that   *)
(* comes after it.                                                         *)
(*                                                                         *)
(* A client may send a key again at any time, while an earlier request of  *)
(* it still runs too. All calls to Redis and PostgreSQL carry the context  *)
(* of the request: once the client has left, only a COMMIT that is already *)
(* on its way can still succeed. The cached response outlives the retries  *)
(* (24 h) and nobody leaves a direct conversation here.                    *)
(***************************************************************************)
EXTENDS Naturals, FiniteSets

CONSTANTS
    Request,   \* requests, first ones and retries
    User,      \* two users, each the other's counterpart
    Key,       \* values of Idempotency-Key
    None

ASSUME NoneAssumption ==
    None \notin Request /\ None \notin {"rejected", "failed", "found", "created"}
ASSUME UsersAssumption == Cardinality(User) = 2

VARIABLES
    groups,   \* keys whose body asks for a group; the others ask for a direct one
    cache,    \* "idem:<sum>": the stored status, None where there is none
    lock,     \* "idem:<sum>:lock": who set it, None where it is not set
    made,     \* requests that committed a conversation
    req,      \* what each request holds
    lapsed    \* history: slots whose lock expired before the request that set it ended

vars == <<groups, cache, lock, made, req, lapsed>>

\* Keys are scoped per user.
Slot == User \X Key

\* live: the client is there. History: ran, the handler was called; stored, the
\* answer went into the cache or would have, had it been one to keep; past, the
\* requests that had ended before this one came.
Idle == [step |-> "idle", slot |-> None, live |-> TRUE, status |-> None,
         ran |-> FALSE, stored |-> FALSE, past |-> {}]

Init ==
    /\ groups \in SUBSET Key
    /\ cache = [s \in Slot |-> None]
    /\ lock = [s \in Slot |-> None]
    /\ made = {}
    /\ req = [r \in Request |-> Idle]
    /\ lapsed = {}

At(r, step) == req[r].step = step /\ req[r].live
Open(r) == req[r].step \notin {"idle", "ended"}
Running(r) == req[r].step \in {"check", "find", "create", "names", "store"}

Direct(r) == req[r].slot[2] \notin groups

Goto(r, step) == req' = [req EXCEPT ![r].step = step]

\* The request is answered, or nobody waits for the answer.
End(r) == req' = [req EXCEPT ![r].step = "ended", ![r].live = TRUE, ![r].status = None]

\* The handler has written its response.
Answer(r, status) == req' = [req EXCEPT ![r].step = "store", ![r].status = status]

-----------------------------------------------------------------------------
(* Before the handler.                                                     *)

Arrive(r, s) ==
    /\ req[r].step = "idle"
    /\ req' = [req EXCEPT ![r].step = "get", ![r].slot = s,
                          ![r].past = {t \in Request : req[t].step = "ended"}]
    /\ UNCHANGED <<groups, cache, lock, made, lapsed>>

\* A stored response is replayed.
Get(r) ==
    /\ At(r, "get")
    /\ IF cache[req[r].slot] # None THEN End(r) ELSE Goto(r, "lock")
    /\ UNCHANGED <<groups, cache, lock, made, lapsed>>

\* Redis fails: the write is refused, though SETNX may have set the lock.
Refuse(r) ==
    /\ \/ At(r, "get") /\ UNCHANGED lock
       \/ /\ At(r, "lock")
          /\ \/ UNCHANGED lock
             \/ lock[req[r].slot] = None /\ lock' = [lock EXCEPT ![req[r].slot] = r]
    /\ End(r)
    /\ UNCHANGED <<groups, cache, made, lapsed>>

Acquire(r) ==
    /\ At(r, "lock") /\ lock[req[r].slot] = None
    /\ lock' = [lock EXCEPT ![req[r].slot] = r]
    /\ req' = [req EXCEPT ![r].step = "check", ![r].ran = TRUE]
    /\ UNCHANGED <<groups, cache, made, lapsed>>

\* A faulty variant: the deferred DEL stands before the check.
Conflict_Deletes(r) ==
    /\ At(r, "lock") /\ lock[req[r].slot] # None
    /\ lock' = [lock EXCEPT ![req[r].slot] = None]
    /\ End(r)
    /\ UNCHANGED <<groups, cache, made, lapsed>>

\* 409: a request with this key is in flight.
Conflict(r) ==
    /\ At(r, "lock") /\ lock[req[r].slot] # None
    /\ End(r)
    /\ UNCHANGED <<groups, cache, lock, made, lapsed>>

-----------------------------------------------------------------------------
(* The handler: CreateConversation.                                        *)

\* The body and the participants; PostgreSQL may fail.
Check(r) ==
    /\ At(r, "check")
    /\ \/ Goto(r, IF Direct(r) THEN "find" ELSE "create")
       \/ \E status \in {"rejected", "failed"} : Answer(r, status)
    /\ UNCHANGED <<groups, cache, lock, made, lapsed>>

\* A faulty variant: the pair is looked up as its creator named it.
Pairs_OneDirection(r) == {t \in made : Direct(t) /\ req[t].slot[1] = req[r].slot[1]}

\* Either direction: there are two users.
Pairs(r) == {t \in made : Direct(t)}

FindDirectPair(r) ==
    /\ At(r, "find")
    /\ \/ Pairs(r) # {} /\ Answer(r, "found")
       \/ Pairs(r) = {} /\ Goto(r, "create")
       \/ Answer(r, "failed")
    /\ UNCHANGED <<groups, cache, lock, made, lapsed>>

\* The transaction; no index is there to refuse a second pair. A COMMIT the client
\* did not wait for may succeed.
Create(r) ==
    /\ req[r].step = "create"
    /\ made' = made \cup {r}
    /\ Goto(r, "names")
    /\ UNCHANGED <<groups, cache, lock, lapsed>>

CreateFails(r) ==
    /\ At(r, "create")
    /\ Answer(r, "failed")
    /\ UNCHANGED <<groups, cache, lock, made, lapsed>>

\* The names of the participants are read when all is committed.
ReadNames(r) ==
    /\ At(r, "names")
    /\ \E status \in {"created", "failed"} : Answer(r, status)
    /\ UNCHANGED <<groups, cache, lock, made, lapsed>>

-----------------------------------------------------------------------------
(* After the handler.                                                      *)

\* 2xx to 4xx.
Cacheable(status) == status # "failed"

Store(r) ==
    LET status == req[r].status IN
    /\ At(r, "store")
    /\ cache' = IF Cacheable(status) THEN [cache EXCEPT ![req[r].slot] = status] ELSE cache
    /\ req' = [req EXCEPT ![r].step = "release", ![r].stored = status # "failed"]
    /\ UNCHANGED <<groups, lock, made, lapsed>>

\* The error of SET is dropped.
StoreFails(r) ==
    /\ At(r, "store")
    /\ Goto(r, "release")
    /\ UNCHANGED <<groups, cache, lock, made, lapsed>>

\* DEL does not ask whose lock it is; its error is dropped.
Release(r) ==
    /\ At(r, "release")
    /\ \/ lock' = [lock EXCEPT ![req[r].slot] = None]
       \/ UNCHANGED lock
    /\ End(r)
    /\ UNCHANGED <<groups, cache, made, lapsed>>

-----------------------------------------------------------------------------
(* Clients, processes and time.                                            *)

\* The client gives up or the process dies.
Leave(r) ==
    /\ Open(r) /\ req[r].live
    /\ req' = [req EXCEPT ![r].live = FALSE]
    /\ UNCHANGED <<groups, cache, lock, made, lapsed>>

\* Whatever is left fails, the deferred DEL too.
Abort(r) ==
    /\ Open(r) /\ ~req[r].live
    /\ End(r)
    /\ UNCHANGED <<groups, cache, lock, made, lapsed>>

\* idemLockTTL passes, however long the handler takes.
LockExpires(s) ==
    /\ lock[s] # None
    /\ lock' = [lock EXCEPT ![s] = None]
    /\ lapsed' = IF Open(lock[s]) THEN lapsed \cup {s} ELSE lapsed
    /\ UNCHANGED <<groups, cache, made, req>>

Middleware(r) ==
    \/ \E s \in Slot : Arrive(r, s)
    \/ Get(r) \/ Refuse(r) \/ Acquire(r) \/ Conflict(r)
    \/ Store(r) \/ StoreFails(r) \/ Release(r)

CreateConversation(r) ==
    Check(r) \/ FindDirectPair(r) \/ Create(r) \/ CreateFails(r) \/ ReadNames(r)

Next ==
    \/ \E r \in Request :
          Middleware(r) \/ CreateConversation(r) \/ Leave(r) \/ Abort(r)
    \/ \E s \in Slot : LockExpires(s)

Spec == Init /\ [][Next]_vars

-----------------------------------------------------------------------------

SameKey(r, t) == r # t /\ req[r].slot = req[t].slot

\* idem.go:66-78: handlers of one key run side by side only once a lock has expired
\* under one of them, and a request that comes after the answer of another was
\* stored does not run the handler again, whoever else came, left or failed.
OneExecutionPerKey ==
    \A r, t \in Request : SameKey(r, t) =>
        /\ Running(r) /\ Running(t) => req[r].slot \in lapsed
        /\ t \in req[r].past /\ req[t].stored => ~req[r].ran

\* create.go:34-35: a second direct conversation of a pair is the work of two
\* requests that were open at the same time, whichever of the two users sent them,
\* and whatever happened to the response.
PairsDoubleOnlyByOverlap ==
    \A r, t \in made : r # t /\ Direct(r) /\ Direct(t) => t \notin req[r].past
=============================================================================
