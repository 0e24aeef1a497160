------------------------------ MODULE Account -------------------------------
(***************************************************************************)
(* The accounts of the auth service: Register, the recovery and            *)
(* verification tokens, the password and identifier changes, DeleteAccount,*)
(* RestoreAccount, PurgeDeletedAccounts (auth/application) and the failure *)
(* counter that locks Login out, over PostgreSQL and Redis.                *)
(*                                                                         *)
(* A call reads through the pool, or takes a one-time code from Redis,     *)
(* before and inside its READ COMMITTED transaction; a statement that      *)
(* meets a row or an index entry another transaction has written waits.    *)
(* What the calls do to sessions and token_version is the module Sessions'.*)
(* An account has one identifier here, phone and email being handled       *)
(* alike; a username that is taken, like any other error, is Fail.         *)
(***************************************************************************)
EXTENDS Naturals, FiniteSets

CONSTANTS
    Call,         \* calls in flight, one operation each
    Owner,        \* the account there is at the start
    Ident,        \* identifiers
    First,        \* the one Owner holds
    MaxFailures,  \* LoginPolicy.MaxFailures
    None

ASSUME NamesAssumption == Owner \notin Call /\ None \notin Call \cup {Owner} /\ First \in Ident
ASSUME FailuresAssumption == MaxFailures \in Nat \ {0}

VARIABLES
    users,     \* rows of users, None where there is none
    password,  \* user_credentials: who wrote the hash, None where there is no row
    tokens,    \* rows of auth_tokens
    otp,       \* is a code stored for the identifier?
    failures,  \* auth:lockout counters
    ending,    \* identifiers whose counter is in the last half second of its life
    call,      \* what each call holds
    \* history, read by the properties only:
    uses,      \* how often each token has changed an account
    deleted    \* accounts whose deletion committed while the call was open

tables == <<users, password, tokens>>
counters == <<failures, ending>>
redis == <<otp, counters>>
history == <<uses, deleted>>
vars == <<tables, redis, call, history>>

\* A call creates at most one account and one token: both bear its name.
Id == Call \cup {Owner}

\* A password or identifier change; the latter carries the identifier.
Purposes == [purpose : {"reset"}, ident : {None}] \cup [purpose : {"change"}, ident : Ident]

\* Rows of users and of auth_tokens.
User == [state : {"active", "deleted"}, ident : Ident, old : BOOLEAN, posted : BOOLEAN]
Token == [owner : Id, what : Purposes, state : {"live", "used", "expired"}]

ASSUME RowsAssumption == None \notin User \cup Token

Idle == [op |-> "none", step |-> "idle", who |-> {}, arg |-> None, seen |-> None,
         recent |-> FALSE, holds |-> {}, late |-> FALSE, met |-> 0]

\* Owner may be deleted, may have written in chats, may have no password; a token
\* of it is out; earlier logins have failed, up to the limit.
Init ==
    /\ \E state \in {"active", "deleted"}, posted \in BOOLEAN :
          users = [u \in Id |-> IF u = Owner
                     THEN [state |-> state, ident |-> First, old |-> FALSE, posted |-> posted]
                     ELSE None]
    /\ \E writer \in {Owner, None} : password = [u \in Id |-> IF u = Owner THEN writer ELSE None]
    /\ \E p \in Purposes :
          tokens = [t \in Id |-> IF t = Owner
                      THEN [owner |-> Owner, what |-> p, state |-> "live"] ELSE None]
    /\ otp \in [Ident -> BOOLEAN]
    /\ failures \in [Ident -> 0..MaxFailures]
    /\ ending = {}
    /\ call = [c \in Call |-> Idle]
    /\ uses = [t \in Id |-> 0]
    /\ deleted = [c \in Call |-> {}]

Active(u) == users[u] # None /\ users[u].state = "active"
Deleted(u) == users[u] # None /\ users[u].state = "deleted"
Expired(u) == Deleted(u) /\ users[u].old   \* past the grace period

\* Who holds the identifier; the unique index knows deleted accounts too.
Holder(x) == {u \in Id : users[u] # None /\ users[u].ident = x}

\* What a transaction can lock.
Row(u) == <<"users", u>>
Credential(u) == <<"user_credentials", u>>
TokenRow(t) == <<"auth_tokens", t>>
Entry(x) == <<"identifier", x>>

Locked(c, locks) == \E d \in Call \ {c} : call[d].holds \cap locks # {}

At(c, op, step) == call[c].op = op /\ call[c].step = step
Open(c) == call[c].step \notin {"idle", "ended"}

Begin(c, op, step, who, arg) ==
    /\ call[c].step = "idle"
    /\ call' = [call EXCEPT ![c].op = op, ![c].step = step, ![c].who = who, ![c].arg = arg]
    /\ UNCHANGED <<tables, history>>

Goto(c, step) ==
    /\ call' = [call EXCEPT ![c].step = step]
    /\ UNCHANGED <<tables, redis, history>>

\* The call answers; whatever it holds is let go.
Ended(c) == call' = [call EXCEPT ![c] = [Idle EXCEPT !.step = "ended"]]

End(c) == Ended(c) /\ UNCHANGED <<tables, redis, history>>

\* A failed statement, a username that is taken, a cancelled request or a crash.
Fail(c) == Open(c) /\ End(c)

\* A statement of the transaction has written or locked the rows.
Hold(c, locks, step) ==
    /\ ~Locked(c, locks)
    /\ call' = [call EXCEPT ![c].holds = @ \cup locks, ![c].step = step]
    /\ UNCHANGED <<tables, redis, history>>

-----------------------------------------------------------------------------
(* One-time codes: GETDEL takes the code, right or wrong.                  *)

TakeCode(x) == otp[x] /\ otp' = [otp EXCEPT ![x] = FALSE]

SendCode(x) ==
    /\ ~otp[x] /\ otp' = [otp EXCEPT ![x] = TRUE]
    /\ UNCHANGED <<tables, counters, call, history>>

\* Five minutes pass, or a call presents a wrong code and ends.
CodeGone(x) == TakeCode(x) /\ UNCHANGED <<tables, counters, call, history>>

\* FindByID leaves deleted accounts out.
BeginSignedIn(c, op, u, arg) ==
    /\ call[c].step = "idle" /\ Active(u)
    /\ call' = [call EXCEPT ![c].op = op, ![c].step = "reauth", ![c].who = {u},
                           ![c].arg = arg, ![c].seen = users[u].ident]
    /\ UNCHANGED <<tables, redis, history>>

\* Step-up: the password, or a code for the identifier that was read.
Reauth(c, op, step) ==
    /\ At(c, op, "reauth")
    /\ \/ \E u \in call[c].who : password[u] # None /\ UNCHANGED otp
       \/ TakeCode(call[c].seen)
    /\ call' = [call EXCEPT ![c].step = step]
    /\ UNCHANGED <<tables, counters, history>>

-----------------------------------------------------------------------------
(* Register.                                                               *)

BeginRegister(c, x) ==
    /\ TakeCode(x)
    /\ Begin(c, "register", "check", {c}, x)
    /\ UNCHANGED counters

\* identifierTaken does not see deleted accounts.
CheckFree(c) ==
    /\ At(c, "register", "check")
    /\ IF \E u \in Holder(call[c].arg) : Active(u) THEN End(c) ELSE Goto(c, "insert")

InsertUser(c) ==
    /\ At(c, "register", "insert") /\ ~Locked(c, {Entry(call[c].arg)})
    /\ IF Holder(call[c].arg) # {} THEN End(c) ELSE Hold(c, {Entry(call[c].arg)}, "commit")

\* With a password or without.
CommitRegister(c) ==
    /\ At(c, "register", "commit")
    /\ users' = [users EXCEPT ![c] = [state |-> "active", ident |-> call[c].arg,
                                     old |-> FALSE, posted |-> FALSE]]
    /\ \E writer \in {c, None} : password' = [password EXCEPT ![c] = writer]
    /\ Ended(c)
    /\ UNCHANGED <<tokens, redis, history>>

-----------------------------------------------------------------------------
(* Recovery and verification tokens.                                       *)

\* RequestPasswordReset; the answer for an unknown account is the same, and
\* changes nothing.
BeginReset(c, x) ==
    /\ \E u \in Holder(x) : Active(u) /\ Begin(c, "request", "insert", {u}, None)
    /\ UNCHANGED redis

\* RequestEmailChange, RequestPhoneChange.
CheckTarget(c) ==
    /\ At(c, "request", "check")
    /\ IF \E u \in Holder(call[c].arg) : Active(u) THEN End(c) ELSE Goto(c, "insert")

\* The foreign key makes the insert wait for who deletes the row or changes a key.
IssueToken(c) ==
    /\ At(c, "request", "insert")
    /\ \E u \in call[c].who :
          /\ \A d \in Call : call[d].op \in {"purge", "change"} => Row(u) \notin call[d].holds
          /\ IF users[u] = None
               THEN UNCHANGED tokens
               ELSE tokens' = [tokens EXCEPT ![c] =
                      [owner |-> u, state |-> "live",
                       what |-> [purpose |-> IF call[c].arg = None THEN "reset" ELSE "change",
                                 ident |-> call[c].arg]]]
    /\ Ended(c)
    /\ UNCHANGED <<users, password, redis, history>>

\* ResetPassword, or ConfirmEmailChange and ConfirmPhoneChange.
BeginToken(c, op, t) ==
    /\ Begin(c, op, "consume", {}, t)
    /\ UNCHANGED redis

\* A faulty variant: the UPDATE does not ask whether the token is used.
Unused_Unasked(t) == tokens[t] # None

Unused(t) == tokens[t] # None /\ tokens[t].state = "live"

\* A faulty variant: the account is loaded whatever its state.
Usable_AnyState(u) == users[u] # None

Usable(u) == Active(u)

Consume(c) ==
    LET t == call[c].arg IN
    /\ call[c].step = "consume"
    /\ ~Locked(c, {TokenRow(t)})
    /\ IF Unused(t) /\ tokens[t].what.purpose = call[c].op
         THEN call' = [call EXCEPT ![c].holds = {TokenRow(t)}, ![c].step = "find",
                                   ![c].who = {tokens[t].owner}]
         ELSE Ended(c)
    /\ UNCHANGED <<tables, redis, history>>

\* The account is read through the pool, in the midst of the transaction.
FindOwner(c) ==
    /\ call[c].step = "find" /\ call[c].op \in {"reset", "change"}
    /\ IF \A u \in call[c].who : Usable(u) THEN Goto(c, "update") ELSE End(c)

\* SetEmail, SetPhone: the unique index arbitrates.
SetIdentifier(c) ==
    LET x == tokens[call[c].arg].what.ident IN
    /\ At(c, "change", "update")
    /\ \E u \in call[c].who :
          /\ users[u] # None
          /\ ~Locked(c, {Row(u), Entry(x)})
          /\ IF Holder(x) \subseteq {u}
               THEN Hold(c, {Row(u), Entry(x), Entry(users[u].ident)}, "commit")
               ELSE End(c)

CommitChange(c) ==
    LET t == call[c].arg IN
    /\ At(c, "change", "commit")
    /\ \E u \in call[c].who : users' = [users EXCEPT ![u].ident = tokens[t].what.ident]
    /\ tokens' = [tokens EXCEPT ![t].state = "used"]
    /\ uses' = [uses EXCEPT ![t] = @ + 1]
    /\ Ended(c)
    /\ UNCHANGED <<password, redis, deleted>>

-----------------------------------------------------------------------------
(* Passwords: ResetPassword once its token is consumed, ChangePassword.    *)

\* ReplacePassword updates the rows there are: an account that has no password
\* gets none.
ReplacePassword(c) ==
    /\ call[c].op \in {"reset", "password"} /\ call[c].step = "update"
    /\ \E u \in call[c].who :
          Hold(c, IF password[u] = None THEN {} ELSE {Credential(u)}, "bump")

\* BumpTokenVersion, whose UPDATE needs the row.
LockAccount(c) ==
    /\ call[c].step = "bump"
    /\ \E u \in call[c].who :
          /\ ~Locked(c, {Row(u)})
          /\ IF users[u] = None THEN End(c) ELSE Hold(c, {Row(u)}, "commit")

CommitPassword(c) ==
    LET op == call[c].op  t == call[c].arg IN
    /\ op \in {"reset", "password"} /\ call[c].step = "commit"
    /\ \E u \in call[c].who :
          password' = IF Credential(u) \in call[c].holds
                        THEN [password EXCEPT ![u] = c] ELSE password
    /\ IF op = "reset"
         THEN /\ tokens' = [tokens EXCEPT ![t].state = "used"]
              /\ uses' = [uses EXCEPT ![t] = @ + 1]
         ELSE UNCHANGED <<tokens, uses>>
    /\ Ended(c)
    /\ UNCHANGED <<users, redis, deleted>>

-----------------------------------------------------------------------------
(* DeleteAccount, RestoreAccount, PurgeDeletedAccounts.                    *)

MarkDeleted(c) ==
    /\ At(c, "delete", "update")
    /\ \E u \in call[c].who :
          /\ ~Locked(c, {Row(u)})
          /\ IF Active(u) THEN Hold(c, {Row(u)}, "commit") ELSE End(c)

CommitDelete(c) ==
    /\ At(c, "delete", "commit")
    /\ users' = [u \in Id |-> IF u \in call[c].who
                              THEN [users[u] EXCEPT !.state = "deleted", !.old = FALSE]
                              ELSE users[u]]
    /\ deleted' = [d \in Call |-> IF Open(d) THEN deleted[d] \cup call[c].who ELSE deleted[d]]
    /\ Ended(c)
    /\ UNCHANGED <<password, tokens, redis, uses>>

BeginRestore(c, x) ==
    /\ TakeCode(x)
    /\ Begin(c, "restore", "find", {}, x)
    /\ UNCHANGED counters

\* The cutoff is taken here: recent says that the deletion is not before it.
FindDeleted(c) ==
    /\ At(c, "restore", "find")
    /\ \/ \E u \in Holder(call[c].arg) :
             /\ Deleted(u)
             /\ call' = [call EXCEPT ![c].step = "update", ![c].who = {u},
                                    ![c].recent = ~users[u].old]
             /\ UNCHANGED <<tables, redis, history>>
       \/ (\A u \in Holder(call[c].arg) : ~Deleted(u)) /\ End(c)

Restore(c) ==
    /\ At(c, "restore", "update")
    /\ \E u \in call[c].who :
          /\ ~Locked(c, {Row(u)})
          /\ IF Deleted(u) /\ (call[c].recent \/ ~users[u].old)
               THEN Hold(c, {Row(u)}, "commit") ELSE End(c)

CommitRestore(c) ==
    /\ At(c, "restore", "commit")
    /\ users' = [u \in Id |-> IF u \in call[c].who
                              THEN [users[u] EXCEPT !.state = "active", !.old = FALSE]
                              ELSE users[u]]
    /\ Ended(c)
    /\ UNCHANGED <<password, tokens, redis, history>>

\* SELECT .. FOR UPDATE: picked by a snapshot, waited for and looked at again.
BeginPurge(c) ==
    /\ \E u \in Id : Expired(u)
    /\ Begin(c, "purge", "lock", {u \in Id : Expired(u)}, None)
    /\ UNCHANGED redis

\* A faulty variant: the rows of the snapshot are not looked at again.
StillExpired_Snapshot(us) == {u \in us : users[u] # None}

StillExpired(us) == {u \in us : Expired(u)}

LockExpired(c) ==
    LET us == StillExpired(call[c].who) IN
    /\ At(c, "purge", "lock")
    /\ ~Locked(c, {Row(u) : u \in call[c].who})
    /\ call' = [call EXCEPT ![c].who = us, ![c].holds = {Row(u) : u \in us},
                           ![c].step = "delete"]
    /\ UNCHANGED <<tables, redis, history>>

OwnedBy(us) == {t \in Id : tokens[t] # None /\ tokens[t].owner \in us}

\* The rows of chats refer to their authors: one author among the accounts, and
\* the whole batch is rolled back.
DeleteRows(c) ==
    LET us == call[c].who IN
    /\ At(c, "purge", "delete")
    /\ ~Locked(c, {TokenRow(t) : t \in OwnedBy(us)} \cup {Credential(u) : u \in us})
    /\ IF \E u \in us : users[u].posted
         THEN End(c)
         ELSE Hold(c, {TokenRow(t) : t \in OwnedBy(us)} \cup {Credential(u) : u \in us}
                        \cup {Entry(users[u].ident) : u \in us}, "commit")

CommitPurge(c) ==
    LET us == call[c].who IN
    /\ At(c, "purge", "commit")
    /\ users' = [u \in Id |-> IF u \in us THEN None ELSE users[u]]
    /\ password' = [u \in Id |-> IF u \in us THEN None ELSE password[u]]
    /\ tokens' = [t \in Id |-> IF t \in OwnedBy(us) THEN None ELSE tokens[t]]
    /\ Ended(c)
    /\ UNCHANGED <<redis, history>>

-----------------------------------------------------------------------------
(* Login, up to the session.                                               *)

\* A faulty variant: one failure too many.
Admits_OneMore(x) == failures[x] <= MaxFailures

\* LockoutRemaining answers 0 without a look at the TTL.
Admits(x) == failures[x] < MaxFailures

BeginLogin(c, x) ==
    /\ Begin(c, "login", IF Admits(x) THEN "find" ELSE "ttl", {}, x)
    /\ UNCHANGED redis

\* TTL is in whole seconds, rounded: 0 in the last half second, below 0 if the
\* counter has gone since it was read.  Either lets the login through; met counts
\* from here.
AskTTL(c) ==
    LET x == call[c].arg IN
    /\ At(c, "login", "ttl")
    /\ IF failures[x] = 0 \/ x \in ending
         THEN call' = [call EXCEPT ![c].step = "find", ![c].late = x \in ending, ![c].met = 0]
         ELSE Ended(c)
    /\ UNCHANGED <<tables, redis, history>>

FindUser(c) ==
    LET us == {u \in Holder(call[c].arg) : Active(u)} IN
    /\ At(c, "login", "find")
    /\ call' = [call EXCEPT ![c].who = us, ![c].step = IF us = {} THEN "fail" ELSE "verify"]
    /\ UNCHANGED <<tables, redis, history>>

\* A password of an account that has none ends the call, counted nowhere.
VerifyPassword(c) ==
    /\ At(c, "login", "verify")
    /\ \E u \in call[c].who :
          IF password[u] = None THEN End(c)
          ELSE \E step \in {"fail", "clear"} : Goto(c, step)

\* A code that is gone is a failure like a wrong one.
VerifyCode(c) ==
    LET x == call[c].arg IN
    /\ At(c, "login", "verify")
    /\ otp' = [otp EXCEPT ![x] = FALSE]
    /\ \E step \in {"fail"} \cup (IF otp[x] THEN {"clear"} ELSE {}) :
          call' = [call EXCEPT ![c].step = step]
    /\ UNCHANGED <<tables, counters, history>>

\* INCR and EXPIRE: the counter lives a whole lockout from here.  A login keeps
\* how many failures of others were counted since it passed the gate.
RecordFailure(c) ==
    LET x == call[c].arg IN
    /\ At(c, "login", "fail")
    /\ failures' = [failures EXCEPT ![x] = @ + 1]
    /\ ending' = ending \ {x}
    /\ call' = [d \in Call |->
          IF d = c THEN [Idle EXCEPT !.step = "ended"]
          ELSE IF call[d].op = "login" /\ call[d].arg = x THEN [call[d] EXCEPT !.met = @ + 1]
          ELSE call[d]]
    /\ UNCHANGED <<tables, otp, history>>

ClearFailures(c) ==
    LET x == call[c].arg IN
    /\ At(c, "login", "clear")
    /\ failures' = [failures EXCEPT ![x] = 0]
    /\ ending' = ending \ {x}
    /\ Ended(c)
    /\ UNCHANGED <<tables, otp, history>>

\* The counter's time runs out.
FailuresEnding(x) ==
    /\ failures[x] > 0 /\ x \notin ending
    /\ ending' = ending \cup {x}
    /\ UNCHANGED <<tables, otp, failures, call, history>>

FailuresExpire(x) ==
    /\ x \in ending
    /\ failures' = [failures EXCEPT ![x] = 0]
    /\ ending' = ending \ {x}
    /\ UNCHANGED <<tables, otp, call, history>>

-----------------------------------------------------------------------------
(* Time.                                                                   *)

GraceEnds(u) ==
    /\ Deleted(u) /\ ~users[u].old
    /\ users' = [users EXCEPT ![u].old = TRUE]
    /\ UNCHANGED <<password, tokens, redis, call, history>>

TokenExpires(t) ==
    /\ Unused(t)
    /\ tokens' = [tokens EXCEPT ![t].state = "expired"]
    /\ UNCHANGED <<users, password, redis, call, history>>

-----------------------------------------------------------------------------

Register(c) ==
    \/ \E x \in Ident : BeginRegister(c, x)
    \/ CheckFree(c) \/ InsertUser(c) \/ CommitRegister(c)

Request(c) ==
    \/ \E x \in Ident : BeginReset(c, x)
    \/ \E u \in Id, x \in Ident : Active(u) /\ users[u].ident # x
                                       /\ BeginSignedIn(c, "request", u, x)
    \/ Reauth(c, "request", "check") \/ CheckTarget(c) \/ IssueToken(c)

UseToken(c) ==
    \/ \E op \in {"reset", "change"}, t \in Id : BeginToken(c, op, t)
    \/ Consume(c) \/ FindOwner(c) \/ SetIdentifier(c) \/ CommitChange(c)

ChangePassword(c) ==
    \/ \E u \in Id : BeginSignedIn(c, "password", u, None)
    \/ Reauth(c, "password", "update")
    \/ ReplacePassword(c) \/ LockAccount(c) \/ CommitPassword(c)

DeleteAccount(c) ==
    \/ \E u \in Id : BeginSignedIn(c, "delete", u, None)
    \/ Reauth(c, "delete", "update") \/ MarkDeleted(c) \/ CommitDelete(c)

RestoreAccount(c) ==
    \/ \E x \in Ident : BeginRestore(c, x)
    \/ FindDeleted(c) \/ Restore(c) \/ CommitRestore(c)

PurgeDeleted(c) == BeginPurge(c) \/ LockExpired(c) \/ DeleteRows(c) \/ CommitPurge(c)

Login(c) ==
    \/ \E x \in Ident : BeginLogin(c, x)
    \/ AskTTL(c) \/ FindUser(c) \/ VerifyPassword(c) \/ VerifyCode(c)
    \/ RecordFailure(c) \/ ClearFailures(c)

Next ==
    \/ \E c \in Call :
          \/ Register(c) \/ Request(c) \/ UseToken(c) \/ ChangePassword(c)
          \/ DeleteAccount(c) \/ RestoreAccount(c) \/ PurgeDeleted(c) \/ Login(c)
          \/ Fail(c)
    \/ \E x \in Ident : SendCode(x) \/ CodeGone(x) \/ FailuresEnding(x) \/ FailuresExpire(x)
    \/ \E u \in Id : GraceEnds(u) \/ TokenExpires(u)

Spec == Init /\ [][Next]_vars

-----------------------------------------------------------------------------

\* auth_token_repo.go:36-38: a recovery or verification token changes an account
\* at most once, however many calls present it and whichever of them rolls back.
TokensActOnce == \A t \in Id : uses[t] <= 1

\* login.go:40-53, throttle/redis.go:44-84: a failure is counted beyond the limit
\* only for a login that had passed the gate before the limit was reached, and has
\* met as many others as the counter is beyond it, or for one that asked in the last
\* half second of a lockout; of those, all but the first met another failure, so
\* that a lockout cannot be passed twice without a whole one in between.
LockoutPassedOnlyAtItsEnd ==
    [][\A c \in Call : \A x \in Ident :
          /\ call[c].arg = x /\ At(c, "login", "fail")
          /\ failures'[x] > failures[x] /\ call'[c].step = "ended"
          => \/ failures[x] < MaxFailures + call[c].met
             \/ call[c].late /\ (x \in ending \/ call[c].met > 0)]_vars

\* user_repo.go:233-283: only an account whose grace period is over disappears,
\* with its password and tokens, whatever restores it at the same time.
PurgeTakesOnlyTheExpired ==
    [][\A u \in Id : users[u] # None /\ users'[u] = None =>
          /\ Expired(u)
          /\ password'[u] = None
          /\ \A t \in Id : tokens'[t] # None => tokens'[t].owner # u]_vars

\* account_security_flows.go:102-119, 311-320: a deleted account keeps the
\* identifier and the password it was deleted with; only a call that was open when
\* the deletion committed, and had read the account before, still changes them.
DeletedChangeOnlyByOverlap ==
    [][\A u \in Id :
          /\ Deleted(u) /\ users'[u] # None
          /\ users'[u].ident # users[u].ident \/ password'[u] # password[u]
          => \E c \in Call : call[c].step = "commit" /\ call'[c].step = "ended"
                              /\ u \in deleted[c]]_vars
=============================================================================
