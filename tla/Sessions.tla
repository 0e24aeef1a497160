------------------------------ MODULE Sessions ------------------------------
(***************************************************************************)
(* The device sessions of one account: Login (auth/application/login.go),  *)
(* Refresh (refresh.go), the logouts (sessions.go), the password and       *)
(* account flows that end sessions (account_security_flows.go) and the two *)
(* sweeps, over auth/infra/postgres/session_repo.go and user_repo.go.      *)
(*                                                                         *)
(* A step is one read through the pool or one statement of a READ          *)
(* COMMITTED transaction.  A call's uncommitted rows are in wrote and      *)
(* newUser, and lock the committed ones.  An UPDATE of several rows picks  *)
(* them by a snapshot (Scan), then waits for them and looks again          *)
(* (UpdateSessions).  Checking a password, a code or a recovery token      *)
(* either passes or ends the call.                                         *)
(***************************************************************************)
EXTENDS Naturals, FiniteSets

CONSTANTS
    Device,
    Known,   \* devices with a session at the start
    Call,    \* calls of the service
    Ops,     \* the operations those calls may be
    None     \* no token, no session id

Suspending == {"change_password", "reset_password"}
Revoking == {"logout", "logout_session", "logout_others", "logout_all", "delete", "restore"}
\* Calls that bump users.token_version.
Bumping == {"logout_all", "change_password", "reset_password", "delete"}
AllOps == {"login", "refresh"} \cup Suspending \cup Revoking

ASSUME DevicesAssumption == Known \subseteq Device /\ Device \cap Call = {}
ASSUME OpsAssumption == Ops \subseteq AllOps
ASSUME NoneAssumption == None \notin Device \cup Call

VARIABLES
    user,      \* committed account_state and token_version
    sessions,  \* committed rows of user_sessions, by device_id
    pc,
    call,      \* what each call was asked: a device, a refresh token or a session
    seen,      \* token_version as the call read it
    row,       \* the row that Login found by device
    targets,   \* rows its UPDATE picked by its snapshot
    wrote,     \* rows written or locked by its open transaction
    newUser,   \* the users row written by it, if any
    grants,    \* what the pair it issued is bound to
    answer,
    before     \* history: the pairs handed out when the call began

held == <<seen, row, targets, wrote, newUser>>
vars == <<user, sessions, pc, call, seen, row, targets, wrote, newUser, grants,
          answer, before>>

\* A call issues at most one pair and creates at most one session, so its name
\* serves for both; a device names the pair and the session it starts with.
Token == Call \cup Device
States == {"active", "revoked", "expired", "suspended"}
Row == [id : Token, state : States, current : Token, previous : Token \cup {None},
        old : BOOLEAN]  \* not written for as long as the sweeps wait
NoRow == [id |-> None, state |-> "none", current |-> None, previous |-> None, old |-> FALSE]
NoRows == [d \in {} |-> NoRow]
Account == [state : {"active", "deleted"}, ver : Nat]
NoAccount == [state |-> "none", ver |-> 0]
Grant == [device : Device, id : Token, ver : Nat]
NoGrant == [device |-> None, id |-> None, ver |-> 0]
Asked == [op : Ops, on : Token \cup {None}]
Nothing == [op |-> "none", on |-> None]

\* The account is registered and signed in on the Known devices.
Init ==
    /\ user = [state |-> "active", ver |-> 0]
    /\ sessions = [d \in Device |->
            IF d \in Known
            THEN [id |-> d, state |-> "active", current |-> d, previous |-> None, old |-> FALSE]
            ELSE NoRow]
    /\ pc = [k \in Call |-> "idle"]
    /\ call = [k \in Call |-> Nothing]
    /\ seen = [k \in Call |-> 0]
    /\ row = [k \in Call |-> NoRow]
    /\ targets = [k \in Call |-> {}]
    /\ wrote = [k \in Call |-> NoRows]
    /\ newUser = [k \in Call |-> NoAccount]
    /\ grants = [t \in Token |->
            IF t \in Known THEN [device |-> t, id |-> t, ver |-> 0] ELSE NoGrant]
    /\ answer = [k \in Call |-> "none"]
    /\ before = [k \in Call |-> {}]

Issued == Known \cup {k \in Call : answer[k] = "ok" /\ call[k].op \in {"login", "refresh"}}
Exists(d) == sessions[d].state # "none"
Goto(k, l) == pc' = [pc EXCEPT ![k] = l]

\* The rows of devices are not locked, or being inserted, by another transaction.
Unlocked(k, devices) == \A j \in Call \ {k} : devices \cap DOMAIN wrote[j] = {}
UserUnlocked(k) == \A j \in Call \ {k} : newUser[j] = NoAccount

\* authenticateClaims: the access token of the pair t passes the gate.
Authenticates(t) ==
    /\ user.state = "active"
    /\ grants[t].ver = user.ver
    /\ \E d \in Device :
          /\ d = grants[t].device
          /\ sessions[d].id = grants[t].id
          /\ sessions[d].state = "active"

\* The refresh token of the pair t can be exchanged.
Refreshable(t) == \E d \in Device : sessions[d].current = t /\ sessions[d].state = "active"

End(k, told) ==
    /\ Goto(k, "done")
    /\ answer' = [answer EXCEPT ![k] = told]
    /\ seen' = [seen EXCEPT ![k] = 0]
    /\ row' = [row EXCEPT ![k] = NoRow]
    /\ targets' = [targets EXCEPT ![k] = {}]
    /\ wrote' = [wrote EXCEPT ![k] = NoRows]
    /\ newUser' = [newUser EXCEPT ![k] = NoAccount]

-----------------------------------------------------------------------------
Begin(k, op, on, next) ==
    /\ pc[k] = "idle"
    /\ op \in Ops
    /\ call' = [call EXCEPT ![k] = [op |-> op, on |-> on]]
    /\ before' = [before EXCEPT ![k] = Issued]
    /\ Goto(k, next)
    /\ UNCHANGED <<user, sessions, row, targets, wrote, newUser, grants, answer>>

\* The account is read here; the credential check that follows changes nothing.
BeginLogin(k) ==
    /\ user.state = "active"
    /\ \E d \in Device : Begin(k, "login", d, "find")
    /\ seen' = [seen EXCEPT ![k] = user.ver]

BeginRefresh(k) ==
    /\ \E t \in Issued : Begin(k, "refresh", t, "current")
    /\ UNCHANGED seen

\* Calls of a signed-in device: the session they act on comes from its token.
BeginSignedIn(k) ==
    /\ \E t \in Issued :
          /\ Authenticates(t)
          /\ \/ \E op \in {"logout", "logout_others"} : Begin(k, op, grants[t].id, "scan")
             \/ \E d \in Device :
                   Exists(d) /\ Begin(k, "logout_session", sessions[d].id, "scan")
             \/ Begin(k, "change_password", grants[t].id, "user")
             \/ \E op \in {"logout_all", "delete"} : Begin(k, op, None, "user")
    /\ UNCHANGED seen

BeginRecovery(k) ==
    /\ \/ user.state = "active" /\ Begin(k, "reset_password", None, "user")
       \/ user.state = "deleted" /\ Begin(k, "restore", None, "user")
    /\ UNCHANGED seen

-----------------------------------------------------------------------------
(***************************************************************************)
(* Login: upsertSession looks the device up through the pool, then updates *)
(* that row by its id, or inserts one.                                     *)
(***************************************************************************)
FindDevice(k) ==
    /\ pc[k] = "find"
    /\ row' = [row EXCEPT ![k] = sessions[call[k].on]]
    /\ Goto(k, "write")
    /\ UNCHANGED <<user, sessions, call, seen, targets, wrote, newUser, grants, answer, before>>

SignedIn_KeepHash(k, id, previous) ==  \* a faulty variant: the row keeps its token
    [id |-> id, state |-> "active", previous |-> previous, old |-> FALSE,
     current |-> IF previous = None THEN k ELSE previous]
SignedIn_NoHash(k, id, previous) ==  \* a faulty variant: the token's hash is not stored
    [id |-> id, state |-> "active", current |-> None, previous |-> previous, old |-> FALSE]
SignedIn(k, id, previous) ==
    [id |-> id, state |-> "active", current |-> k, previous |-> previous, old |-> FALSE]

\* UPDATE ... WHERE id: a row purged since it was found is not there to update,
\* and nobody looks at the number of rows.
UpdateDevice(k) ==
    LET d == call[k].on
        found == row[k]
    IN  /\ pc[k] = "write"
        /\ found.state # "none"
        /\ Unlocked(k, {d})
        /\ wrote' = [wrote EXCEPT ![k] =
                IF sessions[d].id = found.id
                THEN [e \in {d} |-> SignedIn(k, found.id, found.current)] ELSE NoRows]
        /\ grants' = [grants EXCEPT ![k] = [device |-> d, id |-> found.id, ver |-> seen[k]]]
        /\ Goto(k, "commit")
        /\ UNCHANGED <<user, sessions, call, seen, row, targets, newUser, answer, before>>

\* UNIQUE (user_id, device_id) makes a second insert wait and then fail.
CreateDevice(k) ==
    LET d == call[k].on IN
    /\ pc[k] = "write"
    /\ row[k].state = "none"
    /\ ~Exists(d) /\ Unlocked(k, {d})
    /\ wrote' = [wrote EXCEPT ![k] = [e \in {d} |-> SignedIn(k, k, None)]]
    /\ grants' = [grants EXCEPT ![k] = [device |-> d, id |-> k, ver |-> seen[k]]]
    /\ Goto(k, "commit")
    /\ UNCHANGED <<user, sessions, call, seen, row, targets, newUser, answer, before>>

-----------------------------------------------------------------------------
(***************************************************************************)
(* Refresh: FindByHash FOR UPDATE, the gates, Rotate.  The row lock makes  *)
(* Rotate's compare-and-swap succeed whenever it is reached.               *)
(***************************************************************************)
Holds_Grace(r, t) ==  \* a faulty variant: the previous token still counts
    r.current = t \/ r.previous = t
Holds(r, t) == r.current = t

LockCurrent(k) ==
    /\ pc[k] = "current"
    /\ \E d \in Device :
          /\ Holds(sessions[d], call[k].on)
          /\ Unlocked(k, {d})
          /\ sessions[d].state = "active"
          /\ wrote' = [wrote EXCEPT ![k] = [e \in {d} |-> sessions[d]]]
    /\ Goto(k, "account")
    /\ UNCHANGED <<user, sessions, call, seen, row, targets, newUser, grants, answer, before>>

\* Users.FindByID goes through the pool while the session row is locked.
ReadAccount(k) ==
    /\ pc[k] = "account"
    /\ user.state = "active"
    /\ seen' = [seen EXCEPT ![k] = user.ver]
    /\ Goto(k, "rotate")
    /\ UNCHANGED <<user, sessions, call, row, targets, wrote, newUser, grants, answer, before>>

Rotate(k) ==
    /\ pc[k] = "rotate"
    /\ wrote' = [wrote EXCEPT ![k] =
            [d \in DOMAIN wrote[k] |->
                [wrote[k][d] EXCEPT !.current = k, !.previous = call[k].on, !.old = FALSE]]]
    /\ \E d \in DOMAIN wrote[k] :
          grants' = [grants EXCEPT ![k] =
                [device |-> d, id |-> wrote[k][d].id, ver |-> seen[k]]]
    /\ Goto(k, "commit")
    /\ UNCHANGED <<user, sessions, call, seen, row, targets, newUser, answer, before>>

\* reuseOrInvalid: a token that was rotated out ends every session of the user;
\* an unknown one ends the call.
LockPrevious(k) ==
    /\ pc[k] = "current"
    /\ \A d \in Device : ~Holds(sessions[d], call[k].on)
    /\ \E d \in Device :
          /\ sessions[d].previous = call[k].on
          /\ Unlocked(k, {d})
          /\ wrote' = [wrote EXCEPT ![k] = [e \in {d} |-> sessions[d]]]
    /\ Goto(k, "scan")
    /\ UNCHANGED <<user, sessions, call, seen, row, targets, newUser, grants, answer, before>>

-----------------------------------------------------------------------------
(***************************************************************************)
(* The calls that end sessions: the users row first, where they write it,  *)
(* then one UPDATE of user_sessions.                                       *)
(***************************************************************************)
Bumped_Deleted(op) ==  \* a faulty variant: deletion is enough for the gate
    op \in Bumping \ {"delete"}
Bumped(op) == op \in Bumping

UpdateUser(k) ==
    LET op == call[k].op IN
    /\ pc[k] = "user"
    /\ UserUnlocked(k)
    /\ op = "delete" => user.state # "deleted"
    /\ op = "restore" => user.state = "deleted"
    /\ newUser' = [newUser EXCEPT ![k] =
            [state |-> CASE op = "delete" -> "deleted"
                         [] op = "restore" -> "active"
                         [] OTHER -> user.state,
             ver |-> IF Bumped(op) THEN user.ver + 1 ELSE user.ver]]
    /\ Goto(k, "scan")
    /\ UNCHANGED <<user, sessions, call, seen, row, targets, wrote, grants, answer, before>>

\* The WHERE clause of each call's UPDATE.
Ends(op, on, r) ==
    /\ r.state \in IF op \in Suspending THEN {"active"} ELSE States \ {"revoked"}
    /\ CASE op \in {"logout", "logout_session"} -> r.id = on
         [] op \in {"logout_others", "change_password"} -> r.id # on
         [] OTHER -> TRUE

Scan(k) ==
    /\ pc[k] = "scan"
    /\ call[k].op = "logout_session" => \E d \in Device : sessions[d].id = call[k].on
    /\ targets' = [targets EXCEPT ![k] =
            {d \in Device : Ends(call[k].op, call[k].on, sessions[d])}]
    /\ Goto(k, "end")
    /\ UNCHANGED <<user, sessions, call, seen, row, wrote, newUser, grants, answer, before>>

Ended(op, r) ==
    [r EXCEPT !.state = IF op \in Suspending THEN "suspended" ELSE "revoked", !.old = FALSE]

LockedRows_Skip(k) == {d \in targets[k] : Unlocked(k, {d})}  \* a faulty variant: SKIP LOCKED
LockedRows(k) == targets[k]

\* Logout fails when there was no session left to revoke.
UpdateSessions(k) ==
    LET hit == {d \in LockedRows(k) : Ends(call[k].op, call[k].on, sessions[d])} IN
    /\ pc[k] = "end"
    /\ Unlocked(k, LockedRows(k))
    /\ call[k].op = "logout" => hit # {}
    /\ wrote' = [wrote EXCEPT ![k] =
            [d \in DOMAIN @ \cup hit |->
                IF d \in hit THEN Ended(call[k].op, sessions[d]) ELSE @[d]]]
    /\ Goto(k, "commit")
    /\ UNCHANGED <<user, sessions, call, seen, row, targets, newUser, grants, answer, before>>

-----------------------------------------------------------------------------
\* A refresh that has written no token of its own has found a reuse.
Reused(k) ==
    call[k].op = "refresh" /\ \A d \in DOMAIN wrote[k] : wrote[k][d].current # k

Commit(k) ==
    /\ pc[k] = "commit"
    /\ sessions' = [d \in Device |-> IF d \in DOMAIN wrote[k] THEN wrote[k][d] ELSE sessions[d]]
    /\ user' = IF newUser[k] = NoAccount THEN user ELSE newUser[k]
    /\ End(k, IF Reused(k) THEN "reuse" ELSE "ok")
    /\ UNCHANGED <<call, grants, before>>

\* A check refuses the call, a unique index or a deadlock makes a statement fail,
\* the request is cancelled or the process dies.
Fail(k) ==
    /\ pc[k] \notin {"idle", "done"}
    /\ End(k, "failed")
    /\ UNCHANGED <<user, sessions, call, grants, before>>

\* A row is not written for days: no call lasts that long.
Age(d) ==
    /\ Exists(d) /\ ~sessions[d].old
    /\ \A k \in Call : pc[k] \in {"idle", "done"}
    /\ sessions' = [sessions EXCEPT ![d].old = TRUE]
    /\ UNCHANGED <<user, pc, call, held, grants, answer, before>>

\* ExpireIdleSessions and PurgeRevokedSessions, row by row.
ExpireIdle(d) ==
    /\ sessions[d].state = "active" /\ sessions[d].old
    /\ \A k \in Call : d \notin DOMAIN wrote[k]
    /\ sessions' = [sessions EXCEPT ![d].state = "expired", ![d].old = FALSE]
    /\ UNCHANGED <<user, pc, call, held, grants, answer, before>>

Purge(d) ==
    /\ sessions[d].state \in {"revoked", "expired"} /\ sessions[d].old
    /\ \A k \in Call : d \notin DOMAIN wrote[k]
    /\ sessions' = [sessions EXCEPT ![d] = NoRow]
    /\ UNCHANGED <<user, pc, call, held, grants, answer, before>>

Next ==
    \/ \E k \in Call :
          \/ BeginLogin(k) \/ BeginRefresh(k) \/ BeginSignedIn(k) \/ BeginRecovery(k)
          \/ FindDevice(k) \/ UpdateDevice(k) \/ CreateDevice(k)
          \/ LockCurrent(k) \/ ReadAccount(k) \/ Rotate(k) \/ LockPrevious(k)
          \/ UpdateUser(k) \/ Scan(k) \/ UpdateSessions(k)
          \/ Commit(k) \/ Fail(k)
    \/ \E d \in Device : Age(d) \/ ExpireIdle(d) \/ Purge(d)

Spec == Init /\ [][Next]_vars

-----------------------------------------------------------------------------
(***************************************************************************)
(* Properties.                                                             *)
(***************************************************************************)
Steps == {"idle", "find", "write", "current", "account", "rotate", "user", "scan",
          "end", "commit", "done"}

TypeOK ==
    /\ user \in Account
    /\ sessions \in [Device -> Row \cup {NoRow}]
    /\ pc \in [Call -> Steps]
    /\ call \in [Call -> Asked \cup {Nothing}]
    /\ seen \in [Call -> Nat]
    /\ row \in [Call -> Row \cup {NoRow}]
    /\ targets \in [Call -> SUBSET Device]
    /\ DOMAIN wrote = Call
    /\ \A k \in Call :
          DOMAIN wrote[k] \subseteq Device /\ wrote[k] \in [DOMAIN wrote[k] -> Row]
    /\ newUser \in [Call -> Account \cup {NoAccount}]
    /\ grants \in [Token -> Grant \cup {NoGrant}]
    /\ answer \in [Call -> {"none", "ok", "reuse", "failed"}]
    /\ before \in [Call -> SUBSET Token]

\* A refresh token is exchanged at most once, whatever refreshes, logins and
\* revocations race over its session (refresh.go:17-20, "exactly one wins").
TokensSpentOnce ==
    \A j, k \in Call :
        /\ call[j].op = "refresh" /\ answer[j] = "ok"
        /\ call[k].op = "refresh" /\ answer[k] = "ok"
        /\ call[j].on = call[k].on
        => j = k

\* A refresh token that was handed out and has stopped working never works again:
\* no later login, refresh or rollback brings its session back with it
\* (session_repo.go:99-121, login.go:226-262).
DeadTokensStayDead ==
    [][\A t \in Issued : ~Refreshable(t) => ~Refreshable(t)']_vars

\* Which of the pairs handed out before it began a finished call has ended.
Covers(k, t) ==
    \/ answer[k] = "reuse"
    \/ /\ answer[k] = "ok"
       /\ \/ call[k].op \in {"logout", "logout_session"} /\ grants[t].id = call[k].on
          \/ call[k].op \in {"logout_others", "change_password"} /\ grants[t].id # call[k].on
          \/ call[k].op \in {"logout_all", "reset_password", "delete", "restore"}

\* What a logout, a reuse, a password change or reset, a deletion or a restoration
\* ends stays ended: whatever was in flight, no refresh token handed out before
\* the call began works after it was answered, and no access token either when the
\* call bumps the token version (sessions.go:146-150, refresh.go:119-122,
\* account_security_flows.go:61-63, 129-131).
EndedTokensAreDead ==
    \A k \in Call : \A t \in before[k] :
        /\ Covers(k, t) => ~Refreshable(t)
        /\ answer[k] = "ok" /\ call[k].op \in Bumping => ~Authenticates(t)
=============================================================================
