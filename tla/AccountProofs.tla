---------------------------- MODULE AccountProofs ----------------------------
(***************************************************************************)
(* Proofs about Account for every set of calls and identifiers and every   *)
(* limit of failures.                                                      *)
(*                                                                         *)
(* A call relies at its COMMIT on what it looked at in earlier steps, so   *)
(* the invariant says of each call what its locks keep true: the token it  *)
(* consumed is there and unused, the accounts it purges are still past     *)
(* their grace period and have no token it has not locked, the account it  *)
(* changes is there, and whoever was deleted under it has been recorded.   *)
(***************************************************************************)
EXTENDS Account, TLAPS

Ops == {"none", "register", "request", "reset", "change", "password", "delete", "restore",
        "purge", "login"}

Steps == {"idle", "check", "insert", "reauth", "consume", "find", "update", "bump", "lock",
          "delete", "verify", "ttl", "fail", "clear", "commit", "ended"}

Locks == {Row(u) : u \in Id} \cup {Credential(u) : u \in Id} \cup {TokenRow(t) : t \in Id}
            \cup {Entry(x) : x \in Ident}

Held == [op : Ops, step : Steps, who : SUBSET Id, arg : Id \cup Ident \cup {None},
         seen : Ident \cup {None}, recent : BOOLEAN, holds : SUBSET Locks, late : BOOLEAN, met : Nat]

TypeOK ==
    /\ users \in [Id -> User \cup {None}]
    /\ password \in [Id -> Id \cup {None}]
    /\ tokens \in [Id -> Token \cup {None}]
    /\ failures \in [Ident -> Nat]
    /\ ending \subseteq Ident
    /\ call \in [Call -> Held]
    /\ uses \in [Id -> Nat]
    /\ deleted \in [Call -> SUBSET Id]

\* What the argument of a call is, and its account.
Shape(c) ==
    /\ call[c].op \in {"register", "login", "restore"} => call[c].arg \in Ident
    /\ call[c].op = "request" => call[c].arg \in Ident \cup {None}
    /\ call[c].op \in {"reset", "change"} => call[c].arg \in Id
    /\ call[c].step \in {"idle", "ended"} => call[c].op = "none"
    /\ call[c].step = "consume" => call[c].op \in {"reset", "change"}
    /\ call[c].step = "bump" => call[c].op \in {"reset", "password"}
    /\ call[c].op \in {"change", "delete", "restore"} => \A u, v \in call[c].who : u = v

\* A consumed token is locked and not used up, and stays so until the COMMIT.
Consumed(c) ==
    call[c].op \in {"reset", "change"} /\ call[c].step \in {"find", "update", "bump", "commit"} =>
        LET t == call[c].arg IN
        /\ TokenRow(t) \in call[c].holds
        /\ tokens[t] # None /\ tokens[t].what.purpose = call[c].op
        /\ uses[t] = 0

\* The accounts a purge deletes are locked and expired, and all it leaves of them
\* to the foreign keys is locked too.
Purging(c) ==
    call[c].op = "purge" /\ call[c].step \in {"delete", "commit"} =>
        /\ \A u \in call[c].who : Row(u) \in call[c].holds /\ Expired(u)
        /\ call[c].step = "commit" =>
              \A t \in OwnedBy(call[c].who) : TokenRow(t) \in call[c].holds

\* An account about to change is locked and there.
Changing(c) ==
    call[c].op \in {"change", "delete", "restore"} /\ call[c].step = "commit" =>
        \A u \in call[c].who : Row(u) \in call[c].holds /\ users[u] # None

\* The account a call has read was active; if it is not any more, its deletion is on
\* record.
Read(c) ==
    \/ call[c].op = "password"
    \/ call[c].op \in {"reset", "change"} /\ call[c].step \in {"update", "bump", "commit"}

Reading(c) ==
    Read(c) => \A u \in call[c].who : Deleted(u) => u \in deleted[c]

CallInv == \A c \in Call : Shape(c) /\ Consumed(c) /\ Purging(c) /\ Changing(c) /\ Reading(c)

Apart == \A c, d \in Call : c # d => call[c].holds \cap call[d].holds = {}

\* What a call creates is there when the call has ended.
Created ==
    \A c \in Call : call[c].step # "ended" => users[c] = None /\ tokens[c] = None /\ uses[c] = 0

UsesInv ==
    \A t \in Id : /\ uses[t] <= 1
                  /\ tokens[t] # None /\ tokens[t].state = "live" => uses[t] = 0

\* Has the login passed the gate?
Admitted(op, step) == op = "login" /\ step # "ttl"

\* A login that passed the gate below the limit has met the failures counted since;
\* one that passed it in the last half second has met another, or is still in it.
Below(x, met) == failures[x] < MaxFailures + met
AtTheEnd(x, late, met) == late /\ (x \in ending \/ met > 0)
Met(x, late, met) == Below(x, met) \/ AtTheEnd(x, late, met)

LoginInv ==
    \A c \in Call : Admitted(call[c].op, call[c].step) =>
        Met(call[c].arg, call[c].late, call[c].met)

Inv == TypeOK /\ CallInv /\ Apart /\ Created /\ UsesInv /\ LoginInv

-----------------------------------------------------------------------------
(* How the record of a call moves.                                         *)

\* Call c comes to a step and holds these; the other calls are left alone.
To(c, op, step, who, arg, holds) ==
    /\ call' \in [Call -> Held]
    /\ \A d \in Call \ {c} : call'[d] = call[d]
    /\ call[c].step # "ended"
    /\ call'[c].op = op /\ call'[c].step = step /\ call'[c].who = who
    /\ call'[c].arg = arg /\ call'[c].holds = holds
    /\ \/ call'[c].late = call[c].late /\ call'[c].met = call[c].met
       \/ op # "login" \/ call[c].step = "ttl"

LEMMA ToHeld ==
    ASSUME TypeOK, NEW c \in Call, NEW h \in Held, call' = [call EXCEPT ![c] = h],
           call[c].step # "ended",
           \/ h.late = call[c].late /\ h.met = call[c].met
           \/ h.op # "login" \/ call[c].step = "ttl"
    PROVE  To(c, h.op, h.step, h.who, h.arg, h.holds)
    BY DEF TypeOK, To

LEMMA GotoTo ==
    ASSUME TypeOK, NEW c \in Call, NEW step \in Steps, call' = [call EXCEPT ![c].step = step],
           call[c].step # "ended"
    PROVE  To(c, call[c].op, step, call[c].who, call[c].arg, call[c].holds)
<1> DEFINE h == [call[c] EXCEPT !.step = step]
<1>1. call[c] \in Held
    BY DEF TypeOK
<1>2. /\ h \in Held /\ h.op = call[c].op /\ h.step = step /\ h.who = call[c].who
      /\ h.arg = call[c].arg /\ h.holds = call[c].holds
      /\ h.late = call[c].late /\ h.met = call[c].met
    BY <1>1 DEF Held
<1>3. call' = [call EXCEPT ![c] = h]
    OBVIOUS
<1> HIDE DEF h
<1>4. QED BY <1>2, <1>3, ToHeld

LEMMA EndedTo ==
    ASSUME TypeOK, NEW c \in Call, Ended(c), call[c].step # "ended"
    PROVE  To(c, "none", "ended", {}, None, {})
<1> DEFINE h == [Idle EXCEPT !.step = "ended"]
<1>1. /\ h \in Held /\ h.op = "none" /\ h.step = "ended" /\ h.who = {} /\ h.arg = None
      /\ h.holds = {}
    BY DEF Idle, Held, Ops, Steps
<1>2. call' = [call EXCEPT ![c] = h]
    BY DEF Ended
<1> HIDE DEF h
<1>3. QED BY <1>1, <1>2, ToHeld

LEMMA BeginTo ==
    ASSUME TypeOK, NEW c \in Call, NEW op \in Ops, NEW step \in Steps, NEW who \in SUBSET Id,
           NEW arg \in Id \cup Ident \cup {None}, Begin(c, op, step, who, arg)
    PROVE  To(c, op, step, who, arg, call[c].holds)
<1> DEFINE h == [call[c] EXCEPT !.op = op, !.step = step, !.who = who, !.arg = arg]
<1>1. call[c] \in Held
    BY DEF TypeOK
<1>2. /\ h \in Held /\ h.op = op /\ h.step = step /\ h.who = who
      /\ h.arg = arg /\ h.holds = call[c].holds
      /\ h.late = call[c].late /\ h.met = call[c].met
    BY <1>1 DEF Held
<1>3. call' = [call EXCEPT ![c] = h] /\ call[c].step # "ended"
    BY DEF Begin
<1> HIDE DEF h
<1>4. QED BY <1>2, <1>3, ToHeld

LEMMA SignedInTo ==
    ASSUME TypeOK, NEW c \in Call, NEW op \in Ops, NEW u \in Id,
           NEW arg \in Id \cup Ident \cup {None}, BeginSignedIn(c, op, u, arg)
    PROVE  To(c, op, "reauth", {u}, arg, call[c].holds)
<1> DEFINE h == [call[c] EXCEPT !.op = op, !.step = "reauth", !.who = {u}, !.arg = arg,
                                !.seen = users[u].ident]
<1>1. call[c] \in Held /\ users[u] \in User
    BY DEF TypeOK, BeginSignedIn, Active
<1>2. users[u].ident \in Ident
    BY <1>1 DEF User
<1>3. /\ h \in Held /\ h.op = op /\ h.step = "reauth" /\ h.who = {u}
      /\ h.arg = arg /\ h.holds = call[c].holds
      /\ h.late = call[c].late /\ h.met = call[c].met
    BY <1>1, <1>2 DEF Held, Steps
<1>4. call' = [call EXCEPT ![c] = h] /\ call[c].step # "ended"
    BY DEF BeginSignedIn
<1> HIDE DEF h
<1>5. QED BY <1>3, <1>4, ToHeld

LEMMA HoldTo ==
    ASSUME TypeOK, NEW c \in Call, NEW locks \in SUBSET Locks, NEW step \in Steps,
           Hold(c, locks, step), call[c].step # "ended"
    PROVE  /\ To(c, call[c].op, step, call[c].who, call[c].arg, call[c].holds \cup locks)
           /\ \A d \in Call \ {c} : call[d].holds \cap locks = {}
<1> DEFINE h == [call[c] EXCEPT !.holds = @ \cup locks, !.step = step]
<1>1. call[c] \in Held
    BY DEF TypeOK
<1>2. /\ h \in Held /\ h.op = call[c].op /\ h.step = step /\ h.who = call[c].who
      /\ h.arg = call[c].arg /\ h.holds = call[c].holds \cup locks
      /\ h.late = call[c].late /\ h.met = call[c].met
    BY <1>1 DEF Held
<1>3. call' = [call EXCEPT ![c] = h]
    BY DEF Hold
<1> HIDE DEF h
<1>4. QED BY <1>2, <1>3, ToHeld DEF Hold, Locked

\* A step that chooses the accounts of the call.
LEMMA PickTo ==
    ASSUME TypeOK, NEW c \in Call, NEW step \in Steps, NEW who \in SUBSET Id,
           call[c].step # "ended",
           \/ call' = [call EXCEPT ![c].who = who, ![c].step = step]
           \/ \E recent \in BOOLEAN :
                 call' = [call EXCEPT ![c].step = step, ![c].who = who, ![c].recent = recent]
    PROVE  To(c, call[c].op, step, who, call[c].arg, call[c].holds)
<1> DEFINE g == [call[c] EXCEPT !.who = who, !.step = step]
           h(recent) == [call[c] EXCEPT !.step = step, !.who = who, !.recent = recent]
<1>1. call[c] \in Held
    BY DEF TypeOK
<1>2. /\ g \in Held /\ g.op = call[c].op /\ g.step = step /\ g.who = who
      /\ g.arg = call[c].arg /\ g.holds = call[c].holds
      /\ g.late = call[c].late /\ g.met = call[c].met
    BY <1>1 DEF Held
<1>3. ASSUME NEW recent \in BOOLEAN
      PROVE  /\ h(recent) \in Held /\ h(recent).op = call[c].op /\ h(recent).step = step
             /\ h(recent).who = who /\ h(recent).arg = call[c].arg
             /\ h(recent).holds = call[c].holds
             /\ h(recent).late = call[c].late /\ h(recent).met = call[c].met
    BY <1>1 DEF Held
<1>4. call' = [call EXCEPT ![c] = g] \/ \E recent \in BOOLEAN : call' = [call EXCEPT ![c] = h(recent)]
    OBVIOUS
<1> HIDE DEF g, h
<1>5. CASE call' = [call EXCEPT ![c] = g]
    BY <1>2, <1>5, ToHeld
<1>6. ASSUME NEW recent \in BOOLEAN, call' = [call EXCEPT ![c] = h(recent)]
      PROVE  To(c, call[c].op, step, who, call[c].arg, call[c].holds)
    BY <1>3, <1>6, ToHeld
<1>7. QED BY <1>4, <1>5, <1>6

\* A step that chooses them and locks some rows.
LEMMA LockTo ==
    ASSUME TypeOK, NEW c \in Call, NEW step \in Steps, NEW who \in SUBSET Id,
           NEW locks \in SUBSET Locks, call[c].step # "ended",
           \/ call' = [call EXCEPT ![c].who = who, ![c].holds = locks, ![c].step = step]
           \/ call' = [call EXCEPT ![c].holds = locks, ![c].step = step, ![c].who = who]
    PROVE  To(c, call[c].op, step, who, call[c].arg, locks)
<1> DEFINE h == [call[c] EXCEPT !.who = who, !.holds = locks, !.step = step]
<1>1. call[c] \in Held
    BY DEF TypeOK
<1>2. /\ h \in Held /\ h.op = call[c].op /\ h.step = step /\ h.who = who
      /\ h.arg = call[c].arg /\ h.holds = locks
      /\ h.late = call[c].late /\ h.met = call[c].met
    BY <1>1 DEF Held
<1>3. call' = [call EXCEPT ![c] = h]
    <2>1. [call[c] EXCEPT !.holds = locks, !.step = step, !.who = who] = h
        BY <1>1 DEF Held
    <2>2. QED BY <2>1
<1> HIDE DEF h
<1>4. QED BY <1>2, <1>3, ToHeld

-----------------------------------------------------------------------------
(* The steps that change no table: what the call may rely on next.         *)

AllowedShape(op, step, who, arg) ==
    /\ op \in {"register", "login", "restore"} => arg \in Ident
    /\ op = "request" => arg \in Ident \cup {None}
    /\ op \in {"reset", "change"} => arg \in Id
    /\ step \in {"idle", "ended"} => op = "none"
    /\ step = "consume" => op \in {"reset", "change"}
    /\ step = "bump" => op \in {"reset", "password"}
    /\ op \in {"change", "delete", "restore"} => \A u, v \in who : u = v

AllowedToken(op, step, arg, holds) ==
    op \in {"reset", "change"} /\ step \in {"find", "update", "bump", "commit"} =>
        /\ TokenRow(arg) \in holds
        /\ tokens[arg] # None /\ tokens[arg].what.purpose = op
        /\ uses[arg] = 0

AllowedPurge(op, step, who, holds) ==
    op = "purge" /\ step \in {"delete", "commit"} =>
        /\ \A u \in who : Row(u) \in holds /\ Expired(u)
        /\ step = "commit" => \A t \in OwnedBy(who) : TokenRow(t) \in holds

AllowedChange(op, step, who, holds) ==
    op \in {"change", "delete", "restore"} /\ step = "commit" =>
        \A u \in who : Row(u) \in holds /\ users[u] # None

AllowedRead(c, op, step, who) ==
    op = "password" \/ (op \in {"reset", "change"} /\ step \in {"update", "bump", "commit"}) =>
        \A u \in who : Deleted(u) => u \in deleted[c]

AllowedLocks(c, holds) == \A d \in Call \ {c} : call[d].holds \cap holds = {}

AllowedLogin(c, op, step, arg) ==
    Admitted(op, step) =>
        \/ Admitted(call[c].op, call[c].step) /\ arg = call[c].arg
        \/ failures[arg] < MaxFailures
        \/ call'[c].late /\ arg \in ending

Allowed(c, op, step, who, arg, holds) ==
    /\ AllowedShape(op, step, who, arg)
    /\ AllowedToken(op, step, arg, holds)
    /\ AllowedPurge(op, step, who, holds)
    /\ AllowedChange(op, step, who, holds)
    /\ AllowedRead(c, op, step, who)
    /\ AllowedLocks(c, holds)
    /\ AllowedLogin(c, op, step, arg)

Kept == <<users, password, tokens, failures, ending, uses, deleted>>

LEMMA OneCall ==
    ASSUME NEW c \in Call, NEW op, NEW step, NEW who, NEW arg, NEW holds,
           To(c, op, step, who, arg, holds), UNCHANGED Kept,
           Allowed(c, op, step, who, arg, holds)
    PROVE  Shape(c)' /\ Consumed(c)' /\ Purging(c)' /\ Changing(c)' /\ Reading(c)'
<1>1. Shape(c)'
    BY DEF To, Allowed, AllowedShape, Shape
<1>2. Consumed(c)'
    BY DEF To, Kept, Allowed, AllowedToken, Consumed
<1>3. Purging(c)'
    BY DEF To, Kept, Allowed, AllowedPurge, Purging, OwnedBy, Expired, Deleted
<1>4. Changing(c)'
    BY DEF To, Kept, Allowed, AllowedChange, Changing
<1>5. Reading(c)'
    BY DEF To, Kept, Allowed, AllowedRead, Reading, Read, Deleted
<1>6. QED BY <1>1, <1>2, <1>3, <1>4, <1>5

\* Nothing of the call moves but what a login counts.
Same(d) ==
    /\ call'[d].op = call[d].op /\ call'[d].step = call[d].step /\ call'[d].who = call[d].who
    /\ call'[d].arg = call[d].arg /\ call'[d].holds = call[d].holds

LEMMA OtherCall ==
    ASSUME CallInv, NEW d \in Call, Same(d), UNCHANGED <<users, tokens, uses, deleted>>
    PROVE  Shape(d)' /\ Consumed(d)' /\ Purging(d)' /\ Changing(d)' /\ Reading(d)'
<1>1. Shape(d) /\ Consumed(d) /\ Purging(d) /\ Changing(d) /\ Reading(d)
    BY DEF CallInv
<1>2. Shape(d)' /\ Consumed(d)'
    BY <1>1 DEF Same, Shape, Consumed
<1>3. Purging(d)'
    BY <1>1 DEF Same, Purging, OwnedBy, Expired, Deleted
<1>4. Changing(d)' /\ Reading(d)'
    BY <1>1 DEF Same, Changing, Reading, Read, Deleted
<1>5. QED BY <1>2, <1>3, <1>4

LEMMA ApartStep ==
    ASSUME Apart, NEW c \in Call, NEW op, NEW step, NEW who, NEW arg, NEW holds,
           To(c, op, step, who, arg, holds), AllowedLocks(c, holds)
    PROVE  Apart'
<1>1. ASSUME NEW d \in Call, NEW e \in Call, d # e
      PROVE  call'[d].holds \cap call'[e].holds = {}
    <2>1. CASE d = c
        BY <1>1, <2>1 DEF To, AllowedLocks
    <2>2. CASE e = c
        BY <1>1, <2>2 DEF To, AllowedLocks
    <2>3. CASE d # c /\ e # c
        BY <1>1, <2>3 DEF To, Apart
    <2>4. QED BY <2>1, <2>2, <2>3
<1>2. QED BY <1>1 DEF Apart

LEMMA LoginStep ==
    ASSUME TypeOK, LoginInv, NEW c \in Call, NEW op, NEW step, NEW who, NEW arg, NEW holds,
           To(c, op, step, who, arg, holds), UNCHANGED <<failures, ending>>,
           AllowedShape(op, step, who, arg), AllowedLogin(c, op, step, arg)
    PROVE  LoginInv'
<1>1. ASSUME NEW d \in Call \ {c}, Admitted(call'[d].op, call'[d].step)
      PROVE  Met(call'[d].arg, call'[d].late, call'[d].met)
    BY <1>1 DEF To, LoginInv
<1>2. ASSUME Admitted(op, step) PROVE Met(arg, call'[c].late, call'[c].met)
    <2>1. CASE failures[arg] < MaxFailures
        <3>1. arg \in Ident
            BY <1>2 DEF AllowedShape, Admitted
        <3>2. failures[arg] \in Nat
            BY <3>1 DEF TypeOK
        <3>3. call'[c] \in Held
            BY DEF To
        <3>4. call'[c].met \in Nat
            BY <3>3 DEF Held
        <3>5. Below(arg, call'[c].met)
            BY <2>1, <3>2, <3>4, FailuresAssumption DEF Below
        <3>6. QED BY <3>5 DEF Met
    <2>2. CASE Admitted(call[c].op, call[c].step) /\ arg = call[c].arg
        <3>1. call'[c].late = call[c].late /\ call'[c].met = call[c].met
            BY <1>2, <2>2 DEF To, Admitted
        <3>2. QED BY <2>2, <3>1 DEF LoginInv
    <2>3. CASE call'[c].late /\ arg \in ending
        BY <2>3 DEF Met, AtTheEnd
    <2>4. QED BY <1>2, <2>1, <2>2, <2>3 DEF AllowedLogin
<1>3. ASSUME NEW d \in Call, Admitted(call'[d].op, call'[d].step)
      PROVE  Met(call'[d].arg, call'[d].late, call'[d].met)
    <2>1. CASE d = c
        BY <1>2, <1>3, <2>1 DEF To
    <2>2. CASE d # c
        BY <1>1, <1>3, <2>2
    <2>3. QED BY <2>1, <2>2
<1>4. QED BY <1>3 DEF LoginInv, Met, Below, AtTheEnd, Admitted

LEMMA QuietStep ==
    ASSUME Inv, NEW c \in Call, NEW op, NEW step, NEW who, NEW arg, NEW holds,
           To(c, op, step, who, arg, holds), UNCHANGED Kept,
           Allowed(c, op, step, who, arg, holds)
    PROVE  Inv'
<1>1. TypeOK'
    BY DEF Inv, TypeOK, To, Kept
<1>2. CallInv'
    <2>1. ASSUME NEW d \in Call \ {c}
          PROVE  Shape(d)' /\ Consumed(d)' /\ Purging(d)' /\ Changing(d)' /\ Reading(d)'
        BY <2>1, OtherCall DEF Inv, To, Kept, Same
    <2>2. QED BY <2>1, OneCall DEF CallInv
<1>3. Apart'
    BY ApartStep DEF Inv, Allowed
<1>4. Created'
    BY DEF Inv, Created, To, Kept
<1>5. UsesInv'
    BY DEF Inv, UsesInv, Kept
<1>6. LoginInv'
    BY LoginStep DEF Inv, Kept, Allowed
<1>7. QED BY <1>1, <1>2, <1>3, <1>4, <1>5, <1>6 DEF Inv

\* Neither does a step that moves no call at all.
LEMMA NoCall ==
    ASSUME Inv, UNCHANGED call, UNCHANGED Kept
    PROVE  Inv'
<1>1. CallInv'
    <2>1. ASSUME NEW d \in Call
          PROVE  Shape(d)' /\ Consumed(d)' /\ Purging(d)' /\ Changing(d)' /\ Reading(d)'
        BY <2>1, OtherCall DEF Inv, Kept, Same
    <2>2. QED BY <2>1 DEF CallInv
<1>2. TypeOK' /\ Apart' /\ Created' /\ UsesInv' /\ LoginInv'
    BY DEF Inv, Kept, TypeOK, Apart, Created, UsesInv, LoginInv, Admitted, Met,
           Below, AtTheEnd
<1>3. QED BY <1>1, <1>2 DEF Inv

LEMMA EndAllowed ==
    ASSUME NEW c \in Call
    PROVE  Allowed(c, "none", "ended", {}, None, {})
    BY DEF Allowed, AllowedShape, AllowedToken, AllowedPurge, AllowedChange, AllowedRead,
           AllowedLocks, AllowedLogin, Admitted

LEMMA EndStep ==
    ASSUME Inv, NEW c \in Call, Ended(c), call[c].step # "ended", UNCHANGED Kept
    PROVE  Inv'
<1>1. To(c, "none", "ended", {}, None, {})
    BY EndedTo DEF Inv
<1>2. QED BY <1>1, EndAllowed, QuietStep

\* A call that goes on with what it has, where its next step asks for nothing.
LEMMA GoStep ==
    ASSUME Inv, NEW c \in Call, NEW step \in Steps, call' = [call EXCEPT ![c].step = step],
           call[c].step \notin {"idle", "ended"}, UNCHANGED Kept,
           step \notin {"idle", "ended", "consume", "bump"},
           call[c].step # "ttl",
           call[c].op = "purge" => step \notin {"delete", "commit"},
           call[c].op \in {"change", "delete", "restore"} => step # "commit",
           call[c].op \in {"reset", "change"} =>
              \/ step \notin {"find", "update", "bump", "commit"}
              \/ Consumed(c) /\ call[c].step \in {"find", "update", "bump", "commit"}
                 /\ \A u \in call[c].who : Deleted(u) => u \in deleted[c]
    PROVE  Inv'
<1> DEFINE op == call[c].op
           who == call[c].who
           arg == call[c].arg
           holds == call[c].holds
<1>1. To(c, op, step, who, arg, holds)
    BY GotoTo DEF Inv
<1>2. Shape(c) /\ Consumed(c) /\ Reading(c)
    BY DEF Inv, CallInv
<1>3. AllowedShape(op, step, who, arg) /\ AllowedLogin(c, op, step, arg)
    BY <1>2 DEF AllowedShape, AllowedLogin, Shape, Admitted
<1>4. AllowedToken(op, step, arg, holds)
    BY <1>2 DEF AllowedToken, Consumed
<1>5. AllowedPurge(op, step, who, holds) /\ AllowedChange(op, step, who, holds)
    BY DEF AllowedPurge, AllowedChange
<1>6. AllowedRead(c, op, step, who)
    BY <1>2 DEF AllowedRead, Reading, Read
<1>7. AllowedLocks(c, holds)
    BY DEF AllowedLocks, Inv, Apart
<1>8. Allowed(c, op, step, who, arg, holds)
    BY <1>3, <1>4, <1>5, <1>6, <1>7 DEF Allowed
<1> HIDE DEF op, who, arg, holds
<1>9. QED BY <1>1, <1>8, QuietStep

-----------------------------------------------------------------------------
(* The steps that change no table, one by one.                             *)

LEMMA LocksTypes ==
    /\ \A u \in Id : Row(u) \in Locks /\ Credential(u) \in Locks /\ TokenRow(u) \in Locks
    /\ \A x \in Ident : Entry(x) \in Locks
    BY DEF Locks

LEMMA HeldFields ==
    ASSUME TypeOK, NEW c \in Call
    PROVE  /\ call[c].op \in Ops /\ call[c].step \in Steps /\ call[c].who \in SUBSET Id
           /\ call[c].arg \in Id \cup Ident \cup {None} /\ call[c].holds \in SUBSET Locks
<1>1. call[c] \in Held
    BY DEF TypeOK
<1>2. QED BY <1>1 DEF Held

\* A call begins: it has no token yet and is going to look at its accounts.
LEMMA BeginStep ==
    ASSUME Inv, NEW c \in Call,
           NEW op \in {"register", "request", "reset", "change", "restore", "purge", "login"},
           NEW step \in {"check", "insert", "consume", "lock", "find", "ttl"},
           NEW who \in SUBSET Id, NEW arg \in Id \cup Ident \cup {None},
           Begin(c, op, step, who, arg), UNCHANGED Kept,
           op \in {"register", "login", "restore"} => arg \in Ident,
           op = "request" => arg = None,
           op \in {"reset", "change"} => arg \in Id /\ step = "consume",
           op \in {"change", "restore"} => who = {},
           step = "consume" => op \in {"reset", "change"},
           Admitted(op, step) => failures[arg] < MaxFailures
    PROVE  Inv'
<1>1. To(c, op, step, who, arg, call[c].holds)
    BY BeginTo DEF Inv, Ops, Steps
<1>2. AllowedShape(op, step, who, arg) /\ AllowedLogin(c, op, step, arg)
    BY DEF AllowedShape, AllowedLogin
<1>3. AllowedToken(op, step, arg, call[c].holds) /\ AllowedPurge(op, step, who, call[c].holds)
    BY DEF AllowedToken, AllowedPurge
<1>4. AllowedChange(op, step, who, call[c].holds) /\ AllowedRead(c, op, step, who)
    BY DEF AllowedChange, AllowedRead
<1>5. AllowedLocks(c, call[c].holds)
    BY DEF AllowedLocks, Inv, Apart
<1>6. Allowed(c, op, step, who, arg, call[c].holds)
    BY <1>2, <1>3, <1>4, <1>5 DEF Allowed
<1>7. QED BY <1>1, <1>6, QuietStep

LEMMA SignedInStep ==
    ASSUME Inv, NEW c \in Call, NEW op \in {"request", "password", "delete"}, NEW u \in Id,
           NEW arg \in Ident \cup {None}, BeginSignedIn(c, op, u, arg)
    PROVE  Inv'
<1>1. To(c, op, "reauth", {u}, arg, call[c].holds)
    BY SignedInTo DEF Inv, Ops
<1>2. Active(u) /\ UNCHANGED Kept
    BY DEF BeginSignedIn, Kept, tables, redis, counters, history
<1>3. AllowedShape(op, "reauth", {u}, arg) /\ AllowedLogin(c, op, "reauth", arg)
    BY DEF AllowedShape, AllowedLogin, Admitted
<1>4. AllowedToken(op, "reauth", arg, call[c].holds) /\ AllowedPurge(op, "reauth", {u}, call[c].holds)
    BY DEF AllowedToken, AllowedPurge
<1>5. AllowedChange(op, "reauth", {u}, call[c].holds) /\ AllowedRead(c, op, "reauth", {u})
    BY <1>2 DEF AllowedChange, AllowedRead, Active, Deleted
<1>6. AllowedLocks(c, call[c].holds)
    BY DEF AllowedLocks, Inv, Apart
<1>7. Allowed(c, op, "reauth", {u}, arg, call[c].holds)
    BY <1>3, <1>4, <1>5, <1>6 DEF Allowed
<1>8. QED BY <1>1, <1>2, <1>7, QuietStep

\* A statement locks rows, and the call goes on with what it has.
LEMMA HoldStep ==
    ASSUME Inv, NEW c \in Call, NEW locks \in SUBSET Locks, NEW step \in Steps,
           Hold(c, locks, step), call[c].step \notin {"idle", "ended", "ttl"},
           step \in {"bump", "commit"}, step = "bump" => call[c].op \in {"reset", "password"},
           call[c].op \in {"reset", "change"} => call[c].step \in {"update", "bump"},
           call[c].op = "purge" =>
              /\ call[c].step = "delete"
              /\ \A t \in OwnedBy(call[c].who) : TokenRow(t) \in locks,
           call[c].op \in {"change", "delete", "restore"} =>
              \A u \in call[c].who : Row(u) \in locks /\ users[u] # None
    PROVE  Inv'
<1> DEFINE op == call[c].op
           who == call[c].who
           arg == call[c].arg
           holds == call[c].holds \cup locks
<1>1. To(c, op, step, who, arg, holds) /\ \A d \in Call \ {c} : call[d].holds \cap locks = {}
    BY HoldTo DEF Inv
<1>2. Shape(c) /\ Consumed(c) /\ Purging(c) /\ Reading(c)
    BY DEF Inv, CallInv
<1>3. UNCHANGED Kept
    BY DEF Hold, Kept, tables, redis, counters, history
<1>4. AllowedShape(op, step, who, arg) /\ AllowedLogin(c, op, step, arg)
    BY <1>2 DEF AllowedShape, AllowedLogin, Shape, Admitted
<1>5. AllowedToken(op, step, arg, holds)
    BY <1>2 DEF AllowedToken, Consumed
<1>6. AllowedPurge(op, step, who, holds)
    BY <1>2 DEF AllowedPurge, Purging
<1>7. AllowedChange(op, step, who, holds)
    BY DEF AllowedChange
<1>8. AllowedRead(c, op, step, who)
    BY <1>2 DEF AllowedRead, Reading, Read
<1>9. AllowedLocks(c, holds)
    <2>1. \A d \in Call \ {c} : call[d].holds \cap call[c].holds = {}
        BY DEF Inv, Apart
    <2>2. QED BY <1>1, <2>1 DEF AllowedLocks
<1>10. Allowed(c, op, step, who, arg, holds)
    BY <1>4, <1>5, <1>6, <1>7, <1>8, <1>9 DEF Allowed
<1> HIDE DEF op, who, arg, holds
<1>11. QED BY <1>1, <1>3, <1>10, QuietStep

LEMMA StepRegister ==
    ASSUME Inv, NEW c \in Call,
           (\E x \in Ident : BeginRegister(c, x)) \/ CheckFree(c) \/ InsertUser(c)
    PROVE  Inv'
<1>1. ASSUME NEW x \in Ident, BeginRegister(c, x) PROVE Inv'
    <2>1. {c} \in SUBSET Id /\ UNCHANGED Kept /\ Begin(c, "register", "check", {c}, x)
        BY <1>1 DEF BeginRegister, Begin, Kept, Id, tables, counters, history
    <2>2. QED BY <2>1, BeginStep DEF Admitted
<1>2. CASE CheckFree(c)
    <2>1. call[c].op = "register" /\ call[c].step = "check" /\ UNCHANGED Kept
        BY <1>2 DEF CheckFree, At, End, Goto, Kept, tables, redis, counters, history
    <2>2. Ended(c) \/ call' = [call EXCEPT ![c].step = "insert"]
        BY <1>2 DEF CheckFree, End, Goto
    <2>3. QED BY <2>1, <2>2, EndStep, GoStep DEF Steps
<1>3. CASE InsertUser(c)
    <2>1. call[c].op = "register" /\ call[c].step = "insert" /\ call[c].arg \in Ident
        BY <1>3 DEF InsertUser, At, Inv, CallInv, Shape
    <2>2. CASE End(c)
        BY <2>1, <2>2, EndStep DEF End, Kept, tables, redis, counters, history
    <2>3. CASE Hold(c, {Entry(call[c].arg)}, "commit")
        <3>1. {Entry(call[c].arg)} \in SUBSET Locks
            BY <2>1, LocksTypes
        <3>2. QED BY <2>1, <2>3, <3>1, HoldStep DEF Steps
    <2>4. QED BY <1>3, <2>2, <2>3 DEF InsertUser
<1>4. QED BY <1>1, <1>2, <1>3

LEMMA StepReauth ==
    ASSUME Inv, NEW c \in Call,
           \/ Reauth(c, "request", "check")
           \/ Reauth(c, "password", "update")
           \/ Reauth(c, "delete", "update")
    PROVE  Inv'
<1>1. UNCHANGED Kept /\ call[c].step = "reauth" /\ call[c].op \in {"request", "password", "delete"}
    BY DEF Reauth, At, Kept, tables, counters, history
<1>2. \E step \in {"check", "update"} : call' = [call EXCEPT ![c].step = step]
    BY DEF Reauth
<1>3. QED BY <1>1, <1>2, GoStep DEF Steps

LEMMA StepRequest ==
    ASSUME Inv, NEW c \in Call,
           \/ \E x \in Ident : BeginReset(c, x)
           \/ \E u \in Id, x \in Ident : BeginSignedIn(c, "request", u, x)
           \/ CheckTarget(c)
    PROVE  Inv'
<1>1. ASSUME NEW x \in Ident, BeginReset(c, x) PROVE Inv'
    <2>1. PICK u \in Id : Begin(c, "request", "insert", {u}, None)
        BY <1>1 DEF BeginReset, Holder
    <2>2. UNCHANGED Kept
        BY <1>1 DEF BeginReset, Begin, Kept, tables, redis, counters, history
    <2>3. QED BY <2>1, <2>2, BeginStep DEF Admitted
<1>2. CASE CheckTarget(c)
    <2>1. call[c].op = "request" /\ call[c].step = "check" /\ UNCHANGED Kept
        BY <1>2 DEF CheckTarget, At, End, Goto, Kept, tables, redis, counters, history
    <2>2. Ended(c) \/ call' = [call EXCEPT ![c].step = "insert"]
        BY <1>2 DEF CheckTarget, End, Goto
    <2>3. QED BY <2>1, <2>2, EndStep, GoStep DEF Steps
<1>3. QED BY <1>1, <1>2, SignedInStep

\* The token is locked, unused and names the account the call is going to look up.
LEMMA StepConsume == ASSUME Inv, NEW c \in Call, Consume(c) PROVE Inv'
<1> DEFINE t == call[c].arg
<1>1. /\ call[c].step = "consume" /\ call[c].op \in {"reset", "change"} /\ t \in Id
      /\ UNCHANGED Kept
    BY DEF Consume, Inv, CallInv, Shape, Kept, tables, redis, counters, history
<1>2. CASE Ended(c)
    BY <1>1, <1>2, EndStep
<1>3. CASE Unused(t) /\ tokens[t].what.purpose = call[c].op
    <2>1. tokens[t] \in Token
        BY <1>1, <1>3 DEF Unused, Inv, TypeOK
    <2>2. {tokens[t].owner} \in SUBSET Id
        BY <2>1 DEF Token
    <2>3. {TokenRow(t)} \in SUBSET Locks
        BY <1>1, LocksTypes
    <2>4. To(c, call[c].op, "find", {tokens[t].owner}, t, {TokenRow(t)})
        BY <1>1, <1>3, <2>2, <2>3, LockTo DEF Consume, Steps, Inv
    <2>5. AllowedShape(call[c].op, "find", {tokens[t].owner}, t)
        BY <1>1 DEF AllowedShape
    <2>6. AllowedToken(call[c].op, "find", t, {TokenRow(t)})
        BY <1>1, <1>3 DEF AllowedToken, Unused, Inv, UsesInv
    <2>7. /\ AllowedPurge(call[c].op, "find", {tokens[t].owner}, {TokenRow(t)})
          /\ AllowedChange(call[c].op, "find", {tokens[t].owner}, {TokenRow(t)})
          /\ AllowedRead(c, call[c].op, "find", {tokens[t].owner})
          /\ AllowedLogin(c, call[c].op, "find", t)
        BY <1>1 DEF AllowedPurge, AllowedChange, AllowedRead, AllowedLogin, Admitted
    <2>8. AllowedLocks(c, {TokenRow(t)})
        BY DEF AllowedLocks, Consume, Locked
    <2>9. QED BY <1>1, <2>4, <2>5, <2>6, <2>7, <2>8, QuietStep DEF Allowed
<1>4. QED BY <1>2, <1>3 DEF Consume

LEMMA StepToken ==
    ASSUME Inv, NEW c \in Call,
           \/ \E op \in {"reset", "change"}, t \in Id : BeginToken(c, op, t)
           \/ FindOwner(c) \/ SetIdentifier(c)
    PROVE  Inv'
<1>1. ASSUME NEW op \in {"reset", "change"}, NEW t \in Id, BeginToken(c, op, t) PROVE Inv'
    <2>1. UNCHANGED Kept /\ Begin(c, op, "consume", {}, t)
        BY <1>1 DEF BeginToken, Begin, Kept, tables, redis, counters, history
    <2>2. QED BY <2>1, BeginStep DEF Admitted
<1>2. CASE FindOwner(c)
    <2>1. call[c].op \in {"reset", "change"} /\ call[c].step = "find" /\ UNCHANGED Kept
        BY <1>2 DEF FindOwner, End, Goto, Kept, tables, redis, counters, history
    <2>2. CASE Ended(c)
        BY <2>1, <2>2, EndStep
    <2>3. CASE /\ \A u \in call[c].who : Usable(u)
               /\ call' = [call EXCEPT ![c].step = "update"]
        <3>1. Consumed(c) /\ \A u \in call[c].who : ~Deleted(u)
            BY <2>3 DEF Usable, Active, Deleted, Inv, CallInv
        <3>2. QED BY <2>1, <2>3, <3>1, GoStep DEF Steps
    <2>4. QED BY <1>2, <2>2, <2>3 DEF FindOwner, End, Goto
<1>3. CASE SetIdentifier(c)
    <2> DEFINE x == tokens[call[c].arg].what.ident
    <2>1. call[c].op = "change" /\ call[c].step = "update"
        BY <1>3 DEF SetIdentifier, At
    <2>2. CASE End(c)
        BY <2>1, <2>2, EndStep DEF End, Kept, tables, redis, counters, history
    <2>3. ASSUME NEW u \in call[c].who, users[u] # None,
                 Hold(c, {Row(u), Entry(x), Entry(users[u].ident)}, "commit")
          PROVE  Inv'
        <3>1. /\ call[c].arg \in Id /\ \A v \in call[c].who : v = u
              /\ tokens[call[c].arg] # None /\ tokens[call[c].arg].what.purpose = "change"
            BY <2>1 DEF Inv, CallInv, Shape, Consumed
        <3>2. x \in Ident
            <4>1. tokens[call[c].arg] \in Token
                BY <3>1 DEF Inv, TypeOK
            <4>2. tokens[call[c].arg].what \in Purposes
                BY <4>1 DEF Token
            <4>3. QED BY <3>1, <4>2 DEF Purposes
        <3>3. u \in Id /\ users[u] \in User
            BY <2>3, HeldFields DEF Inv, TypeOK
        <3>4. users[u].ident \in Ident
            BY <3>3 DEF User
        <3>5. {Row(u), Entry(x), Entry(users[u].ident)} \in SUBSET Locks
            BY <3>2, <3>3, <3>4, LocksTypes
        <3>6. QED BY <2>1, <2>3, <3>1, <3>5, HoldStep DEF Steps
    <2>4. QED BY <1>3, <2>2, <2>3 DEF SetIdentifier
<1>4. QED BY <1>1, <1>2, <1>3

LEMMA StepPassword ==
    ASSUME Inv, NEW c \in Call,
           \/ \E u \in Id : BeginSignedIn(c, "password", u, None)
           \/ ReplacePassword(c) \/ LockAccount(c)
    PROVE  Inv'
<1>1. CASE ReplacePassword(c)
    <2>1. call[c].op \in {"reset", "password"} /\ call[c].step = "update"
        BY <1>1 DEF ReplacePassword
    <2>2. PICK u \in call[c].who :
             Hold(c, IF password[u] = None THEN {} ELSE {Credential(u)}, "bump")
        BY <1>1 DEF ReplacePassword
    <2>3. (IF password[u] = None THEN {} ELSE {Credential(u)}) \in SUBSET Locks
        BY LocksTypes, HeldFields DEF Inv
    <2>4. QED BY <2>1, <2>2, <2>3, HoldStep DEF Steps
<1>2. CASE LockAccount(c)
    <2>1. call[c].op \in {"reset", "password"} /\ call[c].step = "bump"
        BY <1>2 DEF LockAccount, Inv, CallInv, Shape
    <2>2. CASE End(c)
        BY <2>1, <2>2, EndStep DEF End, Kept, tables, redis, counters, history
    <2>3. ASSUME NEW u \in call[c].who, Hold(c, {Row(u)}, "commit") PROVE Inv'
        <3>1. {Row(u)} \in SUBSET Locks
            BY LocksTypes, HeldFields DEF Inv
        <3>2. QED BY <2>1, <2>3, <3>1, HoldStep DEF Steps
    <2>4. QED BY <1>2, <2>2, <2>3 DEF LockAccount
<1>3. QED BY <1>1, <1>2, SignedInStep

LEMMA StepDelete ==
    ASSUME Inv, NEW c \in Call,
           (\E u \in Id : BeginSignedIn(c, "delete", u, None)) \/ MarkDeleted(c)
    PROVE  Inv'
<1>1. CASE MarkDeleted(c)
    <2>1. call[c].op = "delete" /\ call[c].step = "update"
        BY <1>1 DEF MarkDeleted, At
    <2>2. CASE End(c)
        BY <2>1, <2>2, EndStep DEF End, Kept, tables, redis, counters, history
    <2>3. ASSUME NEW u \in call[c].who, Active(u), Hold(c, {Row(u)}, "commit") PROVE Inv'
        <3>1. {Row(u)} \in SUBSET Locks
            BY LocksTypes, HeldFields DEF Inv
        <3>2. \A v \in call[c].who : v = u
            BY <2>1 DEF Inv, CallInv, Shape
        <3>3. users[u] # None
            BY <2>3 DEF Active
        <3>4. QED BY <2>1, <2>3, <3>1, <3>2, <3>3, HoldStep DEF Steps
    <2>4. QED BY <1>1, <2>2, <2>3 DEF MarkDeleted
<1>2. QED BY <1>1, SignedInStep

LEMMA StepRestore ==
    ASSUME Inv, NEW c \in Call,
           (\E x \in Ident : BeginRestore(c, x)) \/ FindDeleted(c) \/ Restore(c)
    PROVE  Inv'
<1>1. ASSUME NEW x \in Ident, BeginRestore(c, x) PROVE Inv'
    <2>1. UNCHANGED Kept /\ Begin(c, "restore", "find", {}, x)
        BY <1>1 DEF BeginRestore, Begin, Kept, tables, counters, history
    <2>2. QED BY <2>1, BeginStep DEF Admitted
<1>2. CASE FindDeleted(c)
    <2>1. call[c].op = "restore" /\ call[c].step = "find" /\ call[c].arg \in Ident
        BY <1>2 DEF FindDeleted, At, Inv, CallInv, Shape
    <2>2. CASE End(c)
        BY <2>1, <2>2, EndStep DEF End, Kept, tables, redis, counters, history
    <2>3. ASSUME NEW u \in Holder(call[c].arg), Deleted(u), UNCHANGED <<tables, redis, history>>,
                 call' = [call EXCEPT ![c].step = "update", ![c].who = {u},
                                      ![c].recent = ~users[u].old]
          PROVE  Inv'
        <3>1. u \in Id /\ users[u] \in User
            BY <2>3 DEF Holder, Deleted, Inv, TypeOK
        <3>2. (~users[u].old) \in BOOLEAN
            OBVIOUS
        <3>3. To(c, "restore", "update", {u}, call[c].arg, call[c].holds)
            BY <2>1, <2>3, <3>1, <3>2, PickTo DEF Inv, Steps
        <3>4. /\ AllowedShape("restore", "update", {u}, call[c].arg)
              /\ AllowedToken("restore", "update", call[c].arg, call[c].holds)
              /\ AllowedPurge("restore", "update", {u}, call[c].holds)
              /\ AllowedChange("restore", "update", {u}, call[c].holds)
              /\ AllowedRead(c, "restore", "update", {u})
              /\ AllowedLogin(c, "restore", "update", call[c].arg)
            BY <2>1 DEF AllowedShape, AllowedToken, AllowedPurge, AllowedChange, AllowedRead,
                        AllowedLogin, Admitted
        <3>5. AllowedLocks(c, call[c].holds)
            BY DEF AllowedLocks, Inv, Apart
        <3>6. UNCHANGED Kept
            BY <2>3 DEF Kept, tables, redis, counters, history
        <3>7. QED BY <3>3, <3>4, <3>5, <3>6, QuietStep DEF Allowed
    <2>4. QED BY <1>2, <2>2, <2>3 DEF FindDeleted
<1>3. CASE Restore(c)
    <2>1. call[c].op = "restore" /\ call[c].step = "update"
        BY <1>3 DEF Restore, At
    <2>2. CASE End(c)
        BY <2>1, <2>2, EndStep DEF End, Kept, tables, redis, counters, history
    <2>3. ASSUME NEW u \in call[c].who, Deleted(u), Hold(c, {Row(u)}, "commit") PROVE Inv'
        <3>1. {Row(u)} \in SUBSET Locks
            BY LocksTypes, HeldFields DEF Inv
        <3>2. \A v \in call[c].who : v = u
            BY <2>1 DEF Inv, CallInv, Shape
        <3>3. users[u] # None
            BY <2>3 DEF Deleted
        <3>4. QED BY <2>1, <2>3, <3>1, <3>2, <3>3, HoldStep DEF Steps
    <2>4. QED BY <1>3, <2>2, <2>3 DEF Restore
<1>4. QED BY <1>1, <1>2, <1>3

LEMMA StepPurge ==
    ASSUME Inv, NEW c \in Call, BeginPurge(c) \/ LockExpired(c) \/ DeleteRows(c)
    PROVE  Inv'
<1>1. CASE BeginPurge(c)
    <2>1. UNCHANGED Kept
        BY <1>1 DEF BeginPurge, Begin, Kept, tables, redis, counters, history
    <2>2. QED BY <1>1, <2>1, BeginStep DEF BeginPurge, Admitted
<1>2. CASE LockExpired(c)
    <2> DEFINE us == StillExpired(call[c].who)
               locks == {Row(u) : u \in us}
    <2>1. call[c].op = "purge" /\ call[c].step = "lock" /\ UNCHANGED Kept
        BY <1>2 DEF LockExpired, At, Kept, tables, redis, counters, history
    <2>2. us \in SUBSET Id /\ us \subseteq call[c].who /\ \A u \in us : Expired(u)
        BY HeldFields DEF Inv, StillExpired
    <2>3. locks \in SUBSET Locks
        BY <2>2, LocksTypes
    <2>4. call' = [call EXCEPT ![c].who = us, ![c].holds = locks, ![c].step = "delete"]
        BY <1>2 DEF LockExpired
    <2>5. AllowedLocks(c, locks)
        BY <1>2, <2>2 DEF LockExpired, Locked, AllowedLocks
    <2>6. AllowedPurge("purge", "delete", us, locks)
        BY <2>2 DEF AllowedPurge
    <2> HIDE DEF us, locks
    <2>7. To(c, "purge", "delete", us, call[c].arg, locks)
        BY <2>1, <2>2, <2>3, <2>4, LockTo DEF Inv, Steps
    <2>8. /\ AllowedShape("purge", "delete", us, call[c].arg)
          /\ AllowedToken("purge", "delete", call[c].arg, locks)
          /\ AllowedChange("purge", "delete", us, locks)
          /\ AllowedRead(c, "purge", "delete", us)
          /\ AllowedLogin(c, "purge", "delete", call[c].arg)
        BY DEF AllowedShape, AllowedToken, AllowedChange, AllowedRead, AllowedLogin, Admitted
    <2>9. QED BY <2>1, <2>5, <2>6, <2>7, <2>8, QuietStep DEF Allowed
<1>3. CASE DeleteRows(c)
    <2> DEFINE us == call[c].who
               locks == {TokenRow(t) : t \in OwnedBy(us)} \cup {Credential(u) : u \in us}
                            \cup {Entry(users[u].ident) : u \in us}
    <2>1. call[c].op = "purge" /\ call[c].step = "delete"
        BY <1>3 DEF DeleteRows, At
    <2>2. CASE End(c)
        BY <2>1, <2>2, EndStep DEF End, Kept, tables, redis, counters, history
    <2>3. ASSUME Hold(c, locks, "commit") PROVE Inv'
        <3>1. \A u \in us : u \in Id /\ Expired(u)
            BY <2>1, HeldFields DEF Inv, CallInv, Purging
        <3>2. \A u \in us : users[u] \in User
            BY <3>1 DEF Expired, Deleted, Inv, TypeOK
        <3>3. \A u \in us : users[u].ident \in Ident
            BY <3>2 DEF User
        <3>4. OwnedBy(us) \subseteq Id
            BY DEF OwnedBy
        <3>5. locks \in SUBSET Locks
            BY <3>1, <3>3, <3>4, LocksTypes
        <3>6. \A t \in OwnedBy(us) : TokenRow(t) \in locks
            OBVIOUS
        <3> HIDE DEF locks
        <3>7. QED BY <2>1, <2>3, <3>5, <3>6, HoldStep DEF Steps
    <2>4. QED BY <1>3, <2>2, <2>3 DEF DeleteRows
<1>4. QED BY <1>1, <1>2, <1>3

LEMMA StepLogin ==
    ASSUME Inv, NEW c \in Call,
           \/ \E x \in Ident : BeginLogin(c, x)
           \/ FindUser(c) \/ VerifyPassword(c) \/ VerifyCode(c)
    PROVE  Inv'
<1>1. ASSUME NEW x \in Ident, BeginLogin(c, x) PROVE Inv'
    <2> DEFINE step == IF Admits(x) THEN "find" ELSE "ttl"
    <2>1. UNCHANGED Kept /\ Begin(c, "login", step, {}, x)
        BY <1>1 DEF BeginLogin, Begin, Kept, tables, redis, counters, history
    <2>2. step \in {"find", "ttl"} /\ (Admitted("login", step) => failures[x] < MaxFailures)
        BY DEF Admits, Admitted
    <2> HIDE DEF step
    <2>3. QED BY <2>1, <2>2, BeginStep
<1>2. CASE FindUser(c)
    <2> DEFINE us == {u \in Holder(call[c].arg) : Active(u)}
               step == IF us = {} THEN "fail" ELSE "verify"
    <2>1. call[c].op = "login" /\ call[c].step = "find" /\ UNCHANGED Kept
        BY <1>2 DEF FindUser, At, Kept, tables, redis, counters, history
    <2>2. us \in SUBSET Id /\ step \in {"fail", "verify"}
        BY DEF Holder
    <2>3. call' = [call EXCEPT ![c].who = us, ![c].step = step]
        BY <1>2 DEF FindUser
    <2> HIDE DEF us, step
    <2>4. To(c, "login", step, us, call[c].arg, call[c].holds)
        BY <2>1, <2>2, <2>3, PickTo DEF Inv, Steps
    <2>5. call[c].arg \in Ident
        BY <2>1 DEF Inv, CallInv, Shape
    <2>6. /\ AllowedShape("login", step, us, call[c].arg)
          /\ AllowedToken("login", step, call[c].arg, call[c].holds)
          /\ AllowedPurge("login", step, us, call[c].holds)
          /\ AllowedChange("login", step, us, call[c].holds)
          /\ AllowedRead(c, "login", step, us)
          /\ AllowedLogin(c, "login", step, call[c].arg)
        BY <2>1, <2>2, <2>5 DEF AllowedShape, AllowedToken, AllowedPurge, AllowedChange,
                                AllowedRead, AllowedLogin, Admitted
    <2>7. AllowedLocks(c, call[c].holds)
        BY DEF AllowedLocks, Inv, Apart
    <2>8. QED BY <2>1, <2>4, <2>6, <2>7, QuietStep DEF Allowed
<1>3. CASE VerifyPassword(c) \/ VerifyCode(c)
    <2>1. call[c].op = "login" /\ call[c].step = "verify" /\ UNCHANGED Kept
        BY <1>3 DEF VerifyPassword, VerifyCode, At, End, Goto, Kept, tables, redis, counters, history
    <2>2. Ended(c) \/ \E step \in {"fail", "clear"} : call' = [call EXCEPT ![c].step = step]
        BY <1>3 DEF VerifyPassword, VerifyCode, End, Goto
    <2>3. QED BY <2>1, <2>2, EndStep, GoStep DEF Steps
<1>4. QED BY <1>1, <1>2, <1>3

LEMMA StepAskTTL == ASSUME Inv, NEW c \in Call, AskTTL(c) PROVE Inv'
<1> DEFINE x == call[c].arg
           late == x \in ending
           h == [call[c] EXCEPT !.step = "find", !.late = late, !.met = 0]
<1>1. /\ call[c].op = "login" /\ call[c].step = "ttl" /\ x \in Ident
      /\ UNCHANGED Kept
    BY DEF AskTTL, At, Inv, CallInv, Shape, Kept, tables, redis, counters, history
<1>2. CASE Ended(c)
    BY <1>1, <1>2, EndStep
<1>3. CASE (failures[x] = 0 \/ x \in ending) /\ call' = [call EXCEPT ![c] = h]
    <2>1. call[c] \in Held /\ late \in BOOLEAN
        BY DEF Inv, TypeOK
    <2> HIDE DEF late
    <2>2. /\ h \in Held /\ h.op = "login" /\ h.step = "find" /\ h.who = call[c].who
          /\ h.arg = x /\ h.holds = call[c].holds /\ h.late = late
        BY <1>1, <2>1 DEF Held, Steps
    <2> HIDE DEF h
    <2>3. To(c, "login", "find", call[c].who, x, call[c].holds)
        BY <1>1, <1>3, <2>2, ToHeld DEF Inv
    <2>4. call'[c].late = late
        BY <1>3, <2>2 DEF Inv, TypeOK
    <2>5. AllowedLogin(c, "login", "find", x)
        <3>1. CASE failures[x] = 0
            BY <3>1, FailuresAssumption DEF AllowedLogin
        <3>2. CASE x \in ending
            BY <2>4, <3>2 DEF AllowedLogin, late
        <3>3. QED BY <1>3, <3>1, <3>2
    <2>6. /\ AllowedShape("login", "find", call[c].who, x)
          /\ AllowedToken("login", "find", x, call[c].holds)
          /\ AllowedPurge("login", "find", call[c].who, call[c].holds)
          /\ AllowedChange("login", "find", call[c].who, call[c].holds)
          /\ AllowedRead(c, "login", "find", call[c].who)
        BY <1>1 DEF AllowedShape, AllowedToken, AllowedPurge, AllowedChange, AllowedRead
    <2>7. AllowedLocks(c, call[c].holds)
        BY DEF AllowedLocks, Inv, Apart
    <2>8. QED BY <1>1, <2>3, <2>5, <2>6, <2>7, QuietStep DEF Allowed
<1>4. QED
    <2>1. [call EXCEPT ![c].step = "find", ![c].late = late, ![c].met = 0] = [call EXCEPT ![c] = h]
        BY DEF Inv, TypeOK, Held
    <2>2. QED BY <1>2, <1>3, <2>1 DEF AskTTL

LEMMA StepFail == ASSUME Inv, NEW c \in Call, Fail(c) PROVE Inv'
    BY EndStep DEF Fail, Open, End, Kept, tables, redis, counters, history

\* The counter of failed logins: the rest of the invariant does not speak of it.
LEMMA StepRecordFailure == ASSUME Inv, NEW c \in Call, RecordFailure(c) PROVE Inv'
<1> DEFINE x == call[c].arg
           gone == [Idle EXCEPT !.step = "ended"]
<1>1. /\ call[c].op = "login" /\ call[c].step = "fail" /\ x \in Ident
      /\ UNCHANGED <<users, password, tokens, uses, deleted>>
      /\ failures' = [failures EXCEPT ![x] = @ + 1] /\ ending' = ending \ {x}
    BY DEF RecordFailure, At, Inv, CallInv, Shape, tables, history
<1>2. /\ failures \in [Ident -> Nat] /\ failures' \in [Ident -> Nat] /\ failures[x] \in Nat
      /\ failures'[x] = failures[x] + 1
      /\ \A y \in Ident \ {x} : failures'[y] = failures[y]
    BY <1>1 DEF Inv, TypeOK
<1>3. \A d \in Call : call[d] \in Held /\ call[d].met \in Nat
    BY DEF Inv, TypeOK, Held
<1>4. /\ gone \in Held /\ gone.op = "none" /\ gone.step = "ended" /\ gone.who = {}
      /\ gone.arg = None /\ gone.holds = {}
    BY DEF Idle, Held, Ops, Steps
<1>5. ASSUME NEW d \in Call
      PROVE  LET m == [call[d] EXCEPT !.met = @ + 1] IN
             /\ m \in Held /\ m.op = call[d].op /\ m.step = call[d].step /\ m.who = call[d].who
             /\ m.arg = call[d].arg /\ m.holds = call[d].holds
             /\ m.late = call[d].late /\ m.met = call[d].met + 1
    BY <1>3 DEF Held
<1>6. call' = [d \in Call |->
          IF d = c THEN gone
          ELSE IF call[d].op = "login" /\ call[d].arg = x THEN [call[d] EXCEPT !.met = @ + 1]
          ELSE call[d]]
    BY DEF RecordFailure
<1> HIDE DEF gone
<1>7. /\ call' \in [Call -> Held]
      /\ call'[c] = gone
    BY <1>3, <1>4, <1>5, <1>6
<1>8. ASSUME NEW d \in Call \ {c}
      PROVE  /\ Same(d) /\ call'[d].late = call[d].late
             /\ IF call[d].op = "login" /\ call[d].arg = x
                  THEN call'[d].met = call[d].met + 1 ELSE call'[d].met = call[d].met
    <2>1. CASE call[d].op = "login" /\ call[d].arg = x
        <3>1. call'[d] = [call[d] EXCEPT !.met = @ + 1]
            BY <1>6, <2>1
        <3>2. QED BY <1>5, <2>1, <3>1 DEF Same
    <2>2. CASE ~(call[d].op = "login" /\ call[d].arg = x)
        <3>1. call'[d] = call[d]
            BY <1>6, <2>2
        <3>2. QED BY <1>3, <2>2, <3>1 DEF Same
    <2>3. QED BY <2>1, <2>2
<1>9. TypeOK'
    BY <1>1, <1>2, <1>7 DEF Inv, TypeOK
<1>10. CallInv'
    <2>1. ASSUME NEW d \in Call \ {c}
          PROVE  Shape(d)' /\ Consumed(d)' /\ Purging(d)' /\ Changing(d)' /\ Reading(d)'
        BY <1>1, <1>8, OtherCall DEF Inv
    <2>2. Shape(c)' /\ Consumed(c)' /\ Purging(c)' /\ Changing(c)' /\ Reading(c)'
        BY <1>4, <1>7 DEF Shape, Consumed, Purging, Changing, Reading, Read
    <2>3. QED BY <2>1, <2>2 DEF CallInv
<1>11. Apart'
    <2>1. \A d \in Call : call'[d].holds \subseteq call[d].holds
        BY <1>4, <1>7, <1>8 DEF Same
    <2>2. QED BY <2>1 DEF Inv, Apart
<1>12. Created' /\ UsesInv'
    <2>1. \A d \in Call : call'[d].step # "ended" => call[d].step # "ended"
        BY <1>4, <1>7, <1>8 DEF Same
    <2>2. QED BY <1>1, <2>1 DEF Inv, Created, UsesInv
<1>13. LoginInv'
    <2>1. ASSUME NEW d \in Call, Admitted(call[d].op, call[d].step)'
          PROVE  Met(call[d].arg, call[d].late, call[d].met)'
        <3>1. d # c
            BY <1>4, <1>7, <2>1 DEF Admitted
        <3>2. Same(d) /\ call[d].op = "login"
            BY <1>8, <2>1, <3>1 DEF Same, Admitted
        <3>3. Met(call[d].arg, call[d].late, call[d].met) /\ call[d].arg \in Ident
            BY <2>1, <3>2 DEF Same, Inv, LoginInv, CallInv, Shape
        <3>4. CASE call[d].arg = x
            <4>1. call'[d].met = call[d].met + 1 /\ call'[d].late = call[d].late /\ call'[d].arg = x
                BY <1>8, <3>1, <3>2, <3>4 DEF Same
            <4>2. call[d].met \in Nat
                BY <1>3
            <4>3. CASE Below(x, call[d].met)
                <5>1. failures'[x] < MaxFailures + call'[d].met
                    BY <1>2, <4>1, <4>2, <4>3, FailuresAssumption DEF Below
                <5>2. Below(call[d].arg, call[d].met)'
                    BY <4>1, <5>1 DEF Below
                <5>3. QED BY <5>2 DEF Met
            <4>4. CASE AtTheEnd(x, call[d].late, call[d].met)
                <5>1. call'[d].met > 0
                    BY <4>1, <4>2
                <5>2. AtTheEnd(call[d].arg, call[d].late, call[d].met)'
                    BY <4>1, <4>4, <5>1 DEF AtTheEnd
                <5>3. QED BY <5>2 DEF Met
            <4>5. QED BY <3>3, <3>4, <4>3, <4>4 DEF Met
        <3>5. CASE call[d].arg # x
            <4>1. /\ call'[d].met = call[d].met /\ call'[d].late = call[d].late
                  /\ call'[d].arg = call[d].arg
                BY <1>8, <3>1, <3>2, <3>5 DEF Same
            <4>2. /\ failures'[call[d].arg] = failures[call[d].arg]
                  /\ call[d].arg \in ending' <=> call[d].arg \in ending
                BY <1>1, <1>2, <3>3, <3>5
            <4>3. QED BY <3>3, <4>1, <4>2 DEF Met, Below, AtTheEnd
        <3>6. QED BY <3>4, <3>5
    <2>2. QED BY <2>1 DEF LoginInv
<1>14. QED BY <1>9, <1>10, <1>11, <1>12, <1>13 DEF Inv

\* The counter goes, or nears its end: what the logins have met covers it still.
LEMMA FewerFailures ==
    ASSUME TypeOK, LoginInv, CallInv, NEW x \in Ident,
           \/ failures' = [failures EXCEPT ![x] = 0] /\ ending' = ending \ {x}
           \/ failures' = failures /\ ending' = ending \cup {x},
           NEW d \in Call, Admitted(call[d].op, call[d].step)
    PROVE  Met(call[d].arg, call[d].late, call[d].met)'
           \/ call'[d] # call[d]
<1>1. SUFFICES ASSUME call'[d] = call[d] PROVE Met(call[d].arg, call[d].late, call[d].met)'
    OBVIOUS
<1> DEFINE y == call[d].arg
<1>2. y \in Ident /\ Met(y, call[d].late, call[d].met)
    BY DEF CallInv, Shape, LoginInv, Admitted
<1>3. call[d].met \in Nat
    <2>1. call[d] \in Held
        BY DEF TypeOK
    <2>2. QED BY <2>1 DEF Held
<1>4. CASE failures' = failures /\ ending' = ending \cup {x}
    BY <1>1, <1>2, <1>4 DEF Met, Below, AtTheEnd
<1>5. CASE failures' = [failures EXCEPT ![x] = 0] /\ ending' = ending \ {x}
    <2>1. CASE y = x
        <3>1. failures'[y] = 0
            BY <1>2, <1>5, <2>1 DEF TypeOK
        <3>2. Below(y, call[d].met)'
            BY <1>1, <1>3, <3>1, FailuresAssumption DEF Below
        <3>3. QED BY <3>2 DEF Met
    <2>2. CASE y # x
        <3>1. failures'[y] = failures[y] /\ (y \in ending' <=> y \in ending)
            BY <1>2, <1>5, <2>2 DEF TypeOK
        <3>2. QED BY <1>1, <1>2, <3>1 DEF Met, Below, AtTheEnd
    <2>3. QED BY <2>1, <2>2
<1>6. QED BY <1>4, <1>5

LEMMA StepFailuresExpire ==
    ASSUME Inv, NEW x \in Ident, FailuresExpire(x) \/ FailuresEnding(x)
    PROVE  Inv'
<1>1. /\ UNCHANGED call /\ UNCHANGED <<users, password, tokens, uses, deleted>>
      /\ \/ failures' = [failures EXCEPT ![x] = 0] /\ ending' = ending \ {x}
         \/ failures' = failures /\ ending' = ending \cup {x}
    BY DEF FailuresExpire, FailuresEnding, tables, history
<1>2. LoginInv'
    <2>1. ASSUME NEW d \in Call, Admitted(call[d].op, call[d].step)
          PROVE  Met(call[d].arg, call[d].late, call[d].met)'
        BY <1>1, <2>1, FewerFailures DEF Inv
    <2>2. QED BY <1>1, <2>1 DEF LoginInv, Admitted
<1>3. TypeOK'
    BY <1>1 DEF Inv, TypeOK
<1>4. CallInv'
    <2>1. ASSUME NEW d \in Call
          PROVE  Shape(d)' /\ Consumed(d)' /\ Purging(d)' /\ Changing(d)' /\ Reading(d)'
        BY <1>1, <2>1, OtherCall DEF Inv, Same
    <2>2. QED BY <2>1 DEF CallInv
<1>5. Apart' /\ Created' /\ UsesInv'
    BY <1>1 DEF Inv, Apart, Created, UsesInv
<1>6. QED BY <1>2, <1>3, <1>4, <1>5 DEF Inv

LEMMA StepClear == ASSUME Inv, NEW c \in Call, ClearFailures(c) PROVE Inv'
<1> DEFINE x == call[c].arg
<1>1. /\ call[c].op = "login" /\ call[c].step = "clear" /\ x \in Ident
      /\ UNCHANGED <<users, password, tokens, uses, deleted>>
      /\ failures' = [failures EXCEPT ![x] = 0] /\ ending' = ending \ {x} /\ Ended(c)
    BY DEF ClearFailures, At, Inv, CallInv, Shape, tables, history
<1>2. To(c, "none", "ended", {}, None, {})
    BY <1>1, EndedTo DEF Inv
<1>3. TypeOK'
    BY <1>1, <1>2 DEF Inv, TypeOK, To
<1>4. CallInv'
    <2>1. ASSUME NEW d \in Call \ {c}
          PROVE  Shape(d)' /\ Consumed(d)' /\ Purging(d)' /\ Changing(d)' /\ Reading(d)'
        BY <1>1, <1>2, <2>1, OtherCall DEF Inv, To, Same
    <2>2. Shape(c)' /\ Consumed(c)' /\ Purging(c)' /\ Changing(c)' /\ Reading(c)'
        BY <1>2 DEF To, Shape, Consumed, Purging, Changing, Reading, Read
    <2>3. QED BY <2>1, <2>2 DEF CallInv
<1>5. Apart'
    BY <1>2, ApartStep, EndAllowed DEF Inv, Allowed
<1>6. Created' /\ UsesInv'
    BY <1>1, <1>2 DEF Inv, Created, UsesInv, To
<1>7. LoginInv'
    <2>1. ASSUME NEW d \in Call, Admitted(call'[d].op, call'[d].step)
          PROVE  Met(call[d].arg, call[d].late, call[d].met)' /\ call'[d] = call[d]
        <3>1. d # c /\ call'[d] = call[d]
            BY <1>2, <2>1 DEF To, Admitted
        <3>2. QED BY <1>1, <2>1, <3>1, FewerFailures DEF Inv
    <2>2. QED BY <2>1 DEF LoginInv, Admitted
<1>8. QED BY <1>3, <1>4, <1>5, <1>6, <1>7 DEF Inv

-----------------------------------------------------------------------------
(* The steps that change tables: what the other calls rely on stays true.  *)

TablesTyped ==
    /\ users' \in [Id -> User \cup {None}]
    /\ password' \in [Id -> Id \cup {None}]
    /\ tokens' \in [Id -> Token \cup {None}]
    /\ uses' \in [Id -> Nat]
    /\ deleted' \in [Call -> SUBSET Id]

\* For a call that does not move.
Spared(d) ==
    /\ Same(d) => Consumed(d)' /\ Purging(d)' /\ Changing(d)' /\ Reading(d)'
    /\ call[d].step # "ended" => users'[d] = None /\ tokens'[d] = None /\ uses'[d] = 0

LEMMA TableStep ==
    ASSUME Inv, NEW c \in Call, Ended(c), call[c].step # "ended", UNCHANGED <<failures, ending>>,
           TablesTyped, UsesInv', \A d \in Call \ {c} : Spared(d)
    PROVE  Inv'
<1>1. To(c, "none", "ended", {}, None, {})
    BY EndedTo DEF Inv
<1>2. TypeOK'
    BY <1>1 DEF Inv, TypeOK, TablesTyped, To
<1>3. CallInv'
    <2>1. ASSUME NEW d \in Call \ {c}
          PROVE  Shape(d)' /\ Consumed(d)' /\ Purging(d)' /\ Changing(d)' /\ Reading(d)'
        <3>1. Same(d)
            BY <1>1 DEF To, Same
        <3>2. Shape(d)'
            BY <3>1 DEF Inv, CallInv, Shape, Same
        <3>3. QED BY <3>1, <3>2 DEF Spared
    <2>2. Shape(c)' /\ Consumed(c)' /\ Purging(c)' /\ Changing(c)' /\ Reading(c)'
        BY <1>1 DEF To, Shape, Consumed, Purging, Changing, Reading, Read
    <2>3. QED BY <2>1, <2>2 DEF CallInv
<1>4. Apart'
    BY <1>1, ApartStep, EndAllowed DEF Inv, Allowed
<1>5. Created'
    BY <1>1 DEF Created, Spared, To
<1>6. LoginInv'
    BY <1>1, LoginStep, EndAllowed DEF Inv, Allowed
<1>7. QED BY <1>2, <1>3, <1>4, <1>5, <1>6 DEF Inv

LEMMA StepCommitRegister == ASSUME Inv, NEW c \in Call, CommitRegister(c) PROVE Inv'
<1> DEFINE new == [state |-> "active", ident |-> call[c].arg, old |-> FALSE, posted |-> FALSE]
<1>1. /\ call[c].op = "register" /\ call[c].step = "commit" /\ call[c].arg \in Ident /\ c \in Id
      /\ UNCHANGED <<tokens, failures, ending, uses, deleted>> /\ Ended(c)
      /\ users' = [users EXCEPT ![c] = new]
    BY DEF CommitRegister, At, Inv, CallInv, Shape, Id, redis, counters, history
<1>2. new \in User /\ new.state = "active" /\ users[c] = None
    BY <1>1 DEF User, Inv, Created
<1> HIDE DEF new
<1>3. new # None
    BY <1>2, RowsAssumption
<1>4. /\ users'[c] = new /\ users' \in [Id -> User \cup {None}]
      /\ \A u \in Id \ {c} : users'[u] = users[u]
    BY <1>1, <1>2 DEF Inv, TypeOK
<1>5. PICK writer \in {c, None} : password' = [password EXCEPT ![c] = writer]
    BY DEF CommitRegister
<1>6. TablesTyped
    BY <1>1, <1>4, <1>5 DEF TablesTyped, Inv, TypeOK
<1>7. ASSUME NEW d \in Call \ {c} PROVE Spared(d)
    <2>1. Consumed(d) /\ Purging(d) /\ Changing(d) /\ Reading(d) /\ call[d].who \in SUBSET Id
        BY HeldFields DEF Inv, CallInv
    <2>2. Same(d) => Consumed(d)'
        BY <1>1, <2>1 DEF Same, Consumed
    <2>3. Same(d) => Purging(d)'
        BY <1>1, <1>2, <1>4, <2>1 DEF Same, Purging, OwnedBy, Expired, Deleted
    <2>4. Same(d) => Changing(d)'
        BY <1>3, <1>4, <2>1 DEF Same, Changing
    <2>5. Same(d) => Reading(d)'
        BY <1>1, <1>2, <1>4, <2>1 DEF Same, Reading, Read, Deleted
    <2>6. call[d].step # "ended" => users'[d] = None /\ tokens'[d] = None /\ uses'[d] = 0
        BY <1>1, <1>4 DEF Inv, Created, Id
    <2>7. QED BY <2>2, <2>3, <2>4, <2>5, <2>6 DEF Spared
<1>8. UsesInv'
    BY <1>1 DEF Inv, UsesInv
<1>9. QED BY <1>1, <1>6, <1>7, <1>8, TableStep

LEMMA StepIssueToken == ASSUME Inv, NEW c \in Call, IssueToken(c) PROVE Inv'
<1>1. /\ call[c].op = "request" /\ call[c].step = "insert"
      /\ call[c].arg \in Ident \cup {None} /\ c \in Id
      /\ UNCHANGED <<users, password, failures, ending, uses, deleted>> /\ Ended(c)
    BY DEF IssueToken, At, Inv, CallInv, Shape, Id, redis, counters, history
<1>2. PICK u \in call[c].who :
          /\ \A d \in Call : call[d].op \in {"purge", "change"} => Row(u) \notin call[d].holds
          /\ IF users[u] = None
               THEN UNCHANGED tokens
               ELSE tokens' = [tokens EXCEPT ![c] =
                      [owner |-> u, state |-> "live",
                       what |-> [purpose |-> IF call[c].arg = None THEN "reset" ELSE "change",
                                 ident |-> call[c].arg]]]
    BY DEF IssueToken
<1>3. CASE UNCHANGED tokens
    <2>1. UNCHANGED Kept
        BY <1>1, <1>3 DEF Kept
    <2>2. QED BY <1>1, <2>1, EndStep
<1>4. CASE tokens' # tokens
    <2> DEFINE what == [purpose |-> IF call[c].arg = None THEN "reset" ELSE "change",
                        ident |-> call[c].arg]
               new == [owner |-> u, state |-> "live", what |-> what]
    <2>1. u \in Id
        BY HeldFields DEF Inv
    <2>2. what \in Purposes
        BY <1>1 DEF Purposes
    <2>3. tokens' = [tokens EXCEPT ![c] = new]
        BY <1>2, <1>4
    <2> HIDE DEF what
    <2>4. new \in Token /\ new.owner = u
        BY <2>1, <2>2 DEF Token
    <2> HIDE DEF new
    <2>5. /\ tokens'[c] = new /\ tokens' \in [Id -> Token \cup {None}]
          /\ \A t \in Id \ {c} : tokens'[t] = tokens[t]
        BY <1>1, <2>3, <2>4 DEF Inv, TypeOK
    <2>6. tokens[c] = None /\ uses[c] = 0
        BY <1>1 DEF Inv, Created
    <2>7. TablesTyped
        BY <1>1, <2>5 DEF TablesTyped, Inv, TypeOK
    <2>8. ASSUME NEW d \in Call \ {c} PROVE Spared(d)
        <3>1. /\ Shape(d) /\ Consumed(d) /\ Purging(d) /\ Changing(d) /\ Reading(d)
              /\ call[d].who \in SUBSET Id
            BY HeldFields DEF Inv, CallInv
        <3>2. Same(d) => Consumed(d)'
            BY <1>1, <2>5, <2>6, <3>1 DEF Same, Shape, Consumed
        <3>3. Same(d) => Purging(d)'
            <4>1. SUFFICES ASSUME Same(d), call[d].op = "purge", call[d].step \in {"delete", "commit"}
                           PROVE  Purging(d)'
                BY DEF Same, Purging
            <4>2. \A v \in call[d].who : Row(v) \in call[d].holds /\ Expired(v)
                BY <3>1, <4>1 DEF Purging
            <4>3. u \notin call[d].who
                BY <1>2, <4>1, <4>2
            <4>4. OwnedBy(call[d].who)' \subseteq OwnedBy(call[d].who)
                BY <2>4, <2>5, <4>1, <4>3 DEF OwnedBy, Same
            <4>5. QED BY <1>1, <3>1, <4>1, <4>2, <4>4 DEF Same, Purging, Expired, Deleted
        <3>4. Same(d) => Changing(d)' /\ Reading(d)'
            BY <1>1, <3>1 DEF Same, Changing, Reading, Read, Deleted
        <3>5. call[d].step # "ended" => users'[d] = None /\ tokens'[d] = None /\ uses'[d] = 0
            BY <1>1, <2>5 DEF Inv, Created, Id
        <3>6. QED BY <3>2, <3>3, <3>4, <3>5 DEF Spared
    <2>9. UsesInv'
        BY <1>1, <2>5, <2>6 DEF Inv, UsesInv
    <2>10. QED BY <1>1, <2>7, <2>8, <2>9, TableStep
<1>5. QED BY <1>3, <1>4

\* A consumed token is used up at the COMMIT.
UsesUp(t) ==
    /\ tokens' = [tokens EXCEPT ![t].state = "used"]
    /\ uses' = [uses EXCEPT ![t] = @ + 1]

LEMMA TokenUsed ==
    ASSUME Inv, NEW c \in Call, call[c].op \in {"reset", "change"}, call[c].step = "commit",
           UsesUp(call[c].arg)
    PROVE  /\ tokens' \in [Id -> Token \cup {None}] /\ uses' \in [Id -> Nat]
           /\ UsesInv'
           /\ \A t \in Id : /\ tokens'[t] = None <=> tokens[t] = None
                            /\ tokens[t] # None => tokens'[t].owner = tokens[t].owner
           /\ \A d \in Call \ {c} :
                 /\ Same(d) => Consumed(d)'
                 /\ call[d].step # "ended" => tokens'[d] = None /\ uses'[d] = 0
<1> DEFINE t == call[c].arg
           new == [tokens[t] EXCEPT !.state = "used"]
<1>1. /\ t \in Id /\ TokenRow(t) \in call[c].holds /\ tokens[t] # None /\ uses[t] = 0
    BY DEF Inv, CallInv, Shape, Consumed
<1>2. tokens[t] \in Token
    BY <1>1 DEF Inv, TypeOK
<1>3. new \in Token /\ new.owner = tokens[t].owner /\ new.state = "used"
    BY <1>2 DEF Token
<1>4. tokens' = [tokens EXCEPT ![t] = new]
    BY DEF UsesUp
<1> HIDE DEF new
<1>5. new # None
    BY <1>3, RowsAssumption
<1>6. /\ tokens' \in [Id -> Token \cup {None}] /\ tokens'[t] = new
      /\ \A s \in Id \ {t} : tokens'[s] = tokens[s]
    BY <1>1, <1>3, <1>4 DEF Inv, TypeOK
<1>7. /\ uses' \in [Id -> Nat] /\ uses'[t] = 1
      /\ \A s \in Id \ {t} : uses'[s] = uses[s]
    BY <1>1 DEF UsesUp, Inv, TypeOK
<1>8. UsesInv'
    BY <1>3, <1>6, <1>7 DEF Inv, UsesInv
<1>9. \A s \in Id : /\ tokens'[s] = None <=> tokens[s] = None
                    /\ tokens[s] # None => tokens'[s].owner = tokens[s].owner
    BY <1>1, <1>3, <1>5, <1>6
<1>10. ASSUME NEW d \in Call \ {c}, Same(d) PROVE Consumed(d)'
    <2>1. SUFFICES ASSUME call[d].op \in {"reset", "change"},
                          call[d].step \in {"find", "update", "bump", "commit"}
                   PROVE  Consumed(d)'
        BY <1>10 DEF Same, Consumed
    <2>2. call[d].arg \in Id /\ Consumed(d) /\ TokenRow(call[d].arg) \in call[d].holds
        BY <2>1 DEF Inv, CallInv, Shape, Consumed
    <2>3. call[d].arg # t
        BY <1>1, <2>2 DEF Inv, Apart
    <2>4. QED BY <1>6, <1>7, <1>10, <2>2, <2>3 DEF Same, Consumed
<1>11. ASSUME NEW d \in Call \ {c}, call[d].step # "ended"
       PROVE  tokens'[d] = None /\ uses'[d] = 0
    <2>1. d \in Id /\ tokens[d] = None /\ uses[d] = 0
        BY <1>11 DEF Inv, Created, Id
    <2>2. QED BY <1>1, <1>6, <1>7, <2>1
<1>12. QED BY <1>6, <1>7, <1>8, <1>9, <1>10, <1>11

LEMMA StepCommitChange == ASSUME Inv, NEW c \in Call, CommitChange(c) PROVE Inv'
<1> DEFINE t == call[c].arg
           x == tokens[t].what.ident
<1>1. /\ call[c].op = "change" /\ call[c].step = "commit" /\ UsesUp(t) /\ t \in Id
      /\ UNCHANGED <<password, failures, ending, deleted>> /\ Ended(c)
      /\ tokens[t] # None /\ tokens[t].what.purpose = "change"
    BY DEF CommitChange, At, UsesUp, Inv, CallInv, Shape, Consumed, redis, counters
<1>2. x \in Ident
    <2>1. tokens[t] \in Token
        BY <1>1 DEF Inv, TypeOK
    <2>2. tokens[t].what \in Purposes
        BY <2>1 DEF Token
    <2>3. QED BY <1>1, <2>2 DEF Purposes
<1>3. PICK u \in call[c].who : users' = [users EXCEPT ![u].ident = x]
    BY DEF CommitChange
<1> DEFINE new == [users[u] EXCEPT !.ident = x]
<1>4. u \in Id /\ users[u] \in User
    BY <1>1, HeldFields DEF Inv, CallInv, Changing, TypeOK
<1>5. new \in User /\ new.state = users[u].state /\ new.old = users[u].old
    BY <1>2, <1>4 DEF User
<1>6. users' = [users EXCEPT ![u] = new]
    BY <1>3
<1> HIDE DEF new
<1>7. new # None /\ users[u] # None
    BY <1>4, <1>5, RowsAssumption
<1>8. /\ users' \in [Id -> User \cup {None}]
      /\ \A v \in Id : /\ users'[v] = None <=> users[v] = None
                       /\ users[v] # None => /\ users'[v].state = users[v].state
                                             /\ users'[v].old = users[v].old
    BY <1>4, <1>5, <1>6, <1>7 DEF Inv, TypeOK
<1>9. TablesTyped
    BY <1>1, <1>8, TokenUsed DEF TablesTyped, Inv, TypeOK
<1>10. ASSUME NEW d \in Call \ {c} PROVE Spared(d)
    <2>1. Purging(d) /\ Changing(d) /\ Reading(d) /\ call[d].who \in SUBSET Id
        BY HeldFields DEF Inv, CallInv
    <2>2. \A v \in Id : (Deleted(v)' <=> Deleted(v)) /\ (Expired(v)' <=> Expired(v))
        BY <1>8 DEF Deleted, Expired
    <2>3. OwnedBy(call[d].who)' = OwnedBy(call'[d].who)
        <3>1. \A s \in Id : /\ tokens'[s] = None <=> tokens[s] = None
                            /\ tokens[s] # None => tokens'[s].owner = tokens[s].owner
            BY <1>1, TokenUsed
        <3>2. QED BY <3>1 DEF OwnedBy
    <2>4. Same(d) => Purging(d)'
        BY <2>1, <2>2, <2>3 DEF Same, Purging
    <2>5. Same(d) => Changing(d)'
        BY <1>8, <2>1 DEF Same, Changing
    <2>6. Same(d) => Reading(d)'
        BY <1>1, <2>1, <2>2 DEF Same, Reading, Read
    <2>7. call[d].step # "ended" => users'[d] = None
        BY <1>8 DEF Inv, Created, Id
    <2>8. QED BY <1>1, <2>4, <2>5, <2>6, <2>7, TokenUsed DEF Spared
<1>11. QED BY <1>1, <1>9, <1>10, TokenUsed, TableStep

LEMMA StepCommitPassword == ASSUME Inv, NEW c \in Call, CommitPassword(c) PROVE Inv'
<1>1. /\ call[c].op \in {"reset", "password"} /\ call[c].step = "commit"
      /\ UNCHANGED <<users, failures, ending, deleted>> /\ Ended(c) /\ c \in Id
    BY DEF CommitPassword, redis, counters, Id
<1>2. password' \in [Id -> Id \cup {None}]
    BY <1>1 DEF CommitPassword, Inv, TypeOK
<1>3. CASE call[c].op = "reset" /\ UsesUp(call[c].arg)
    <2>1. TablesTyped
        BY <1>1, <1>2, <1>3, TokenUsed DEF TablesTyped, Inv, TypeOK
    <2>2. ASSUME NEW d \in Call \ {c} PROVE Spared(d)
        <3>1. Purging(d) /\ Changing(d) /\ Reading(d)
            BY DEF Inv, CallInv
        <3>2. OwnedBy(call[d].who)' = OwnedBy(call'[d].who)
            <4>1. \A s \in Id : /\ tokens'[s] = None <=> tokens[s] = None
                                /\ tokens[s] # None => tokens'[s].owner = tokens[s].owner
                BY <1>1, <1>3, TokenUsed
            <4>2. QED BY <4>1 DEF OwnedBy
        <3>3. Same(d) => Purging(d)'
            BY <1>1, <3>1, <3>2 DEF Same, Purging, Expired, Deleted
        <3>4. Same(d) => Changing(d)' /\ Reading(d)'
            BY <1>1, <3>1 DEF Same, Changing, Reading, Read, Deleted
        <3>5. call[d].step # "ended" => users'[d] = None
            BY <1>1 DEF Inv, Created
        <3>6. QED BY <1>1, <1>3, <3>3, <3>4, <3>5, TokenUsed DEF Spared
    <2>3. QED BY <1>1, <1>3, <2>1, <2>2, TokenUsed, TableStep
<1>4. CASE UNCHANGED <<tokens, uses>>
    <2>1. TablesTyped
        BY <1>1, <1>2, <1>4 DEF TablesTyped, Inv, TypeOK
    <2>2. ASSUME NEW d \in Call \ {c} PROVE Spared(d)
        <3>1. Same(d) => Consumed(d)' /\ Purging(d)' /\ Changing(d)' /\ Reading(d)'
            BY <1>1, <1>4, OtherCall DEF Inv
        <3>2. QED BY <1>1, <1>4, <3>1 DEF Spared, Inv, Created
    <2>3. UsesInv'
        BY <1>4 DEF Inv, UsesInv
    <2>4. QED BY <1>1, <2>1, <2>2, <2>3, TableStep
<1>5. QED BY <1>1, <1>3, <1>4 DEF CommitPassword, UsesUp

\* Nobody else holds the accounts that a call with their rows locked changes.
LEMMA RowsApart ==
    ASSUME Inv, NEW c \in Call, NEW d \in Call \ {c}, NEW u, Row(u) \in call[c].holds
    PROVE  /\ call[d].op = "purge" /\ call[d].step \in {"delete", "commit"} => u \notin call[d].who
           /\ call[d].op \in {"change", "delete", "restore"} /\ call[d].step = "commit" =>
                 u \notin call[d].who
    BY DEF Inv, Apart, CallInv, Purging, Changing

LEMMA StepCommitDelete == ASSUME Inv, NEW c \in Call, CommitDelete(c) PROVE Inv'
<1> DEFINE us == call[c].who
           new(u) == [users[u] EXCEPT !.state = "deleted", !.old = FALSE]
<1>1. /\ call[c].op = "delete" /\ call[c].step = "commit" /\ Ended(c)
      /\ UNCHANGED <<password, tokens, failures, ending, uses>>
      /\ us \in SUBSET Id /\ \A u \in us : Row(u) \in call[c].holds /\ users[u] # None
    BY HeldFields DEF CommitDelete, At, redis, counters, Inv, CallInv, Changing
<1>2. ASSUME NEW u \in us PROVE new(u) \in User /\ new(u) # None
    <2>1. users[u] \in User
        BY <1>1 DEF Inv, TypeOK
    <2>2. new(u) \in User
        BY <2>1 DEF User
    <2>3. QED BY <2>2, RowsAssumption
<1>3. users' = [u \in Id |-> IF u \in us THEN new(u) ELSE users[u]]
    BY DEF CommitDelete
<1> HIDE DEF new
<1>4. /\ users' \in [Id -> User \cup {None}]
      /\ \A u \in us : users'[u] # None
      /\ \A u \in Id \ us : users'[u] = users[u]
    BY <1>1, <1>2, <1>3 DEF Inv, TypeOK
<1>5. /\ deleted' \in [Call -> SUBSET Id]
      /\ \A d \in Call : deleted[d] \subseteq deleted'[d] /\ (Open(d) => us \subseteq deleted'[d])
    BY <1>1 DEF CommitDelete, Inv, TypeOK
<1>6. TablesTyped
    BY <1>1, <1>4, <1>5 DEF TablesTyped, Inv, TypeOK
<1>7. ASSUME NEW d \in Call \ {c} PROVE Spared(d)
    <2>1. /\ Shape(d) /\ Consumed(d) /\ Purging(d) /\ Changing(d) /\ Reading(d)
          /\ call[d].who \in SUBSET Id
        BY HeldFields DEF Inv, CallInv
    <2>2. Same(d) => Consumed(d)'
        BY <1>1, <2>1 DEF Same, Consumed
    <2>3. Same(d) => Purging(d)'
        <3>1. call[d].op = "purge" /\ call[d].step \in {"delete", "commit"} =>
                 \A u \in call[d].who : u \in Id \ us
            BY <1>1, <2>1, RowsApart
        <3>2. QED BY <1>1, <1>4, <2>1, <3>1 DEF Same, Purging, OwnedBy, Expired, Deleted
    <2>4. Same(d) => Changing(d)'
        BY <1>4, <2>1 DEF Same, Changing
    <2>5. Same(d) => Reading(d)'
        <3>1. Read(d) => Open(d)
            BY <2>1 DEF Read, Open, Shape
        <3>2. QED BY <1>4, <1>5, <2>1, <3>1 DEF Same, Reading, Read, Deleted
    <2>6. call[d].step # "ended" => users'[d] = None /\ tokens'[d] = None /\ uses'[d] = 0
        BY <1>1, <1>4 DEF Inv, Created, Id
    <2>7. QED BY <2>2, <2>3, <2>4, <2>5, <2>6 DEF Spared
<1>8. UsesInv'
    BY <1>1 DEF Inv, UsesInv
<1>9. QED BY <1>1, <1>6, <1>7, <1>8, TableStep

LEMMA StepCommitRestore == ASSUME Inv, NEW c \in Call, CommitRestore(c) PROVE Inv'
<1> DEFINE us == call[c].who
           new(u) == [users[u] EXCEPT !.state = "active", !.old = FALSE]
<1>1. /\ call[c].op = "restore" /\ call[c].step = "commit" /\ Ended(c)
      /\ UNCHANGED <<password, tokens, failures, ending, uses, deleted>>
      /\ us \in SUBSET Id /\ \A u \in us : Row(u) \in call[c].holds /\ users[u] # None
    BY HeldFields DEF CommitRestore, At, redis, counters, history, Inv, CallInv, Changing
<1>2. ASSUME NEW u \in us PROVE new(u) \in User /\ new(u) # None /\ new(u).state = "active"
    <2>1. users[u] \in User
        BY <1>1 DEF Inv, TypeOK
    <2>2. new(u) \in User /\ new(u).state = "active"
        BY <2>1 DEF User
    <2>3. QED BY <2>2, RowsAssumption
<1>3. users' = [u \in Id |-> IF u \in us THEN new(u) ELSE users[u]]
    BY DEF CommitRestore
<1> HIDE DEF new
<1>4. /\ users' \in [Id -> User \cup {None}]
      /\ \A u \in us : users'[u] # None /\ users'[u].state = "active"
      /\ \A u \in Id \ us : users'[u] = users[u]
    BY <1>1, <1>2, <1>3 DEF Inv, TypeOK
<1>5. TablesTyped
    BY <1>1, <1>4 DEF TablesTyped, Inv, TypeOK
<1>6. ASSUME NEW d \in Call \ {c} PROVE Spared(d)
    <2>1. /\ Consumed(d) /\ Purging(d) /\ Changing(d) /\ Reading(d)
          /\ call[d].who \in SUBSET Id
        BY HeldFields DEF Inv, CallInv
    <2>2. Same(d) => Consumed(d)'
        BY <1>1, <2>1 DEF Same, Consumed
    <2>3. Same(d) => Purging(d)'
        <3>1. call[d].op = "purge" /\ call[d].step \in {"delete", "commit"} =>
                 \A u \in call[d].who : u \in Id \ us
            BY <1>1, <2>1, RowsApart
        <3>2. QED BY <1>1, <1>4, <2>1, <3>1 DEF Same, Purging, OwnedBy, Expired, Deleted
    <2>4. Same(d) => Changing(d)' /\ Reading(d)'
        BY <1>1, <1>4, <2>1 DEF Same, Changing, Reading, Read, Deleted
    <2>5. call[d].step # "ended" => users'[d] = None /\ tokens'[d] = None /\ uses'[d] = 0
        BY <1>1, <1>4 DEF Inv, Created, Id
    <2>6. QED BY <2>2, <2>3, <2>4, <2>5 DEF Spared
<1>7. UsesInv'
    BY <1>1 DEF Inv, UsesInv
<1>8. QED BY <1>1, <1>5, <1>6, <1>7, TableStep

LEMMA StepCommitPurge == ASSUME Inv, NEW c \in Call, CommitPurge(c) PROVE Inv'
<1> DEFINE us == call[c].who
           ts == OwnedBy(us)
<1>1. /\ call[c].op = "purge" /\ call[c].step = "commit" /\ Ended(c)
      /\ UNCHANGED <<failures, ending, uses, deleted>>
      /\ us \in SUBSET Id /\ \A u \in us : Row(u) \in call[c].holds
      /\ \A t \in ts : TokenRow(t) \in call[c].holds
    BY HeldFields DEF CommitPurge, At, redis, counters, history, Inv, CallInv, Purging
<1>2. /\ users' = [u \in Id |-> IF u \in us THEN None ELSE users[u]]
      /\ password' = [u \in Id |-> IF u \in us THEN None ELSE password[u]]
      /\ tokens' = [t \in Id |-> IF t \in ts THEN None ELSE tokens[t]]
    BY DEF CommitPurge
<1> HIDE DEF ts
<1>3. TablesTyped
    BY <1>1, <1>2 DEF TablesTyped, Inv, TypeOK
<1>4. ASSUME NEW d \in Call \ {c} PROVE Spared(d)
    <2>1. /\ Shape(d) /\ Consumed(d) /\ Purging(d) /\ Changing(d) /\ Reading(d)
          /\ call[d].who \in SUBSET Id
        BY HeldFields DEF Inv, CallInv
    <2>2. Same(d) => Consumed(d)'
        <3>1. SUFFICES ASSUME Same(d), call[d].op \in {"reset", "change"},
                              call[d].step \in {"find", "update", "bump", "commit"}
                       PROVE  Consumed(d)'
            BY DEF Same, Consumed
        <3>2. call[d].arg \in Id /\ TokenRow(call[d].arg) \in call[d].holds
            BY <2>1, <3>1 DEF Shape, Consumed
        <3>3. call[d].arg \notin ts
            BY <1>1, <3>2 DEF Inv, Apart
        <3>4. QED BY <1>1, <1>2, <2>1, <3>1, <3>2, <3>3 DEF Same, Consumed
    <2>3. Same(d) => Purging(d)'
        <3>1. SUFFICES ASSUME Same(d), call[d].op = "purge", call[d].step \in {"delete", "commit"}
                       PROVE  Purging(d)'
            BY DEF Same, Purging
        <3>2. \A u \in call[d].who : u \in Id \ us
            BY <1>1, <2>1, <3>1, RowsApart
        <3>3. \A u \in call[d].who : Row(u) \in call[d].holds /\ Expired(u)'
            BY <1>2, <2>1, <3>1, <3>2 DEF Purging, Expired, Deleted
        <3>4. OwnedBy(call[d].who)' \subseteq OwnedBy(call[d].who)
            BY <1>2, <3>1 DEF Same, OwnedBy
        <3>5. QED BY <2>1, <3>1, <3>3, <3>4 DEF Same, Purging
    <2>4. Same(d) => Changing(d)'
        <3>1. call[d].op \in {"change", "delete", "restore"} /\ call[d].step = "commit" =>
                 \A u \in call[d].who : u \in Id \ us
            BY <1>1, <2>1, RowsApart
        <3>2. QED BY <1>2, <2>1, <3>1 DEF Same, Changing
    <2>5. Same(d) => Reading(d)'
        BY <1>1, <1>2, <2>1 DEF Same, Reading, Read, Deleted
    <2>6. call[d].step # "ended" => users'[d] = None /\ tokens'[d] = None /\ uses'[d] = 0
        BY <1>1, <1>2 DEF Inv, Created, Id
    <2>7. QED BY <2>2, <2>3, <2>4, <2>5, <2>6 DEF Spared
<1>5. UsesInv'
    BY <1>1, <1>2 DEF Inv, UsesInv
<1>6. QED BY <1>1, <1>3, <1>4, <1>5, TableStep

\* Time: no call moves.
LEMMA TimeStep ==
    ASSUME Inv, UNCHANGED <<call, failures, ending>>, TablesTyped, UsesInv', \A d \in Call : Spared(d)
    PROVE  Inv'
<1>1. ASSUME NEW d \in Call
      PROVE  Shape(d)' /\ Consumed(d)' /\ Purging(d)' /\ Changing(d)' /\ Reading(d)'
    BY DEF Inv, CallInv, Shape, Spared, Same
<1>2. TypeOK' /\ Created'
    BY DEF Inv, TypeOK, TablesTyped, Created, Spared
<1>3. Apart' /\ LoginInv'
    BY DEF Inv, Apart, LoginInv, Admitted, Met, Below, AtTheEnd
<1>4. QED BY <1>1, <1>2, <1>3 DEF Inv, CallInv

LEMMA StepGraceEnds == ASSUME Inv, NEW u \in Id, GraceEnds(u) PROVE Inv'
<1> DEFINE new == [users[u] EXCEPT !.old = TRUE]
<1>1. /\ Deleted(u) /\ users' = [users EXCEPT ![u] = new]
      /\ UNCHANGED <<password, tokens, failures, ending, call, uses, deleted>>
    BY DEF GraceEnds, redis, counters, history
<1>2. users[u] \in User
    BY <1>1 DEF Deleted, Inv, TypeOK
<1>3. new \in User /\ new.state = users[u].state /\ new.old
    BY <1>2 DEF User
<1> HIDE DEF new
<1>4. new # None /\ users[u] # None
    BY <1>2, <1>3, RowsAssumption
<1>5. /\ users' \in [Id -> User \cup {None}] /\ users'[u] = new
      /\ \A v \in Id \ {u} : users'[v] = users[v]
    BY <1>1, <1>3 DEF Inv, TypeOK
<1>6. TablesTyped
    BY <1>1, <1>5 DEF TablesTyped, Inv, TypeOK
<1>7. \A v \in Id : (Deleted(v)' <=> Deleted(v)) /\ (Expired(v) => Expired(v)')
                    /\ (users'[v] = None <=> users[v] = None)
    BY <1>3, <1>4, <1>5 DEF Deleted, Expired
<1>8. ASSUME NEW d \in Call PROVE Spared(d)
    <2>1. /\ Consumed(d) /\ Purging(d) /\ Changing(d) /\ Reading(d)
          /\ call[d].who \in SUBSET Id
        BY HeldFields DEF Inv, CallInv
    <2>2. Consumed(d)' /\ Changing(d)'
        BY <1>1, <1>7, <2>1 DEF Consumed, Changing
    <2>3. OwnedBy(call[d].who)' = OwnedBy(call[d].who)
        BY <1>1 DEF OwnedBy
    <2>4. Purging(d)' /\ Reading(d)'
        BY <1>1, <1>7, <2>1, <2>3 DEF Purging, Reading, Read
    <2>5. QED BY <1>1, <1>7, <2>2, <2>4 DEF Spared, Inv, Created, Id
<1>9. UsesInv'
    BY <1>1 DEF Inv, UsesInv
<1>10. QED BY <1>1, <1>6, <1>8, <1>9, TimeStep

LEMMA StepTokenExpires == ASSUME Inv, NEW t \in Id, TokenExpires(t) PROVE Inv'
<1> DEFINE new == [tokens[t] EXCEPT !.state = "expired"]
<1>1. /\ tokens[t] # None /\ tokens' = [tokens EXCEPT ![t] = new]
      /\ UNCHANGED <<users, password, failures, ending, call, uses, deleted>>
    BY DEF TokenExpires, Unused, redis, counters, history
<1>2. tokens[t] \in Token
    BY <1>1 DEF Inv, TypeOK
<1>3. /\ new \in Token /\ new.owner = tokens[t].owner /\ new.what = tokens[t].what
      /\ new.state = "expired"
    BY <1>2 DEF Token
<1> HIDE DEF new
<1>4. new # None
    BY <1>3, RowsAssumption
<1>5. /\ tokens' \in [Id -> Token \cup {None}] /\ tokens'[t] = new
      /\ \A s \in Id \ {t} : tokens'[s] = tokens[s]
    BY <1>1, <1>3 DEF Inv, TypeOK
<1>6. TablesTyped
    BY <1>1, <1>5 DEF TablesTyped, Inv, TypeOK
<1>7. \A s \in Id : /\ tokens'[s] = None <=> tokens[s] = None
                    /\ tokens[s] # None => /\ tokens'[s].owner = tokens[s].owner
                                           /\ tokens'[s].what = tokens[s].what
    BY <1>1, <1>3, <1>4, <1>5
<1>8. ASSUME NEW d \in Call PROVE Spared(d)
    <2>1. /\ Shape(d) /\ Consumed(d) /\ Purging(d) /\ Changing(d) /\ Reading(d)
        BY DEF Inv, CallInv
    <2>2. Consumed(d)'
        BY <1>1, <1>7, <2>1 DEF Consumed, Shape
    <2>3. OwnedBy(call[d].who)' = OwnedBy(call[d].who)
        BY <1>1, <1>7 DEF OwnedBy
    <2>4. Purging(d)'
        BY <1>1, <2>1, <2>3 DEF Purging, Expired, Deleted
    <2>5. Changing(d)' /\ Reading(d)'
        BY <1>1, <2>1 DEF Changing, Reading, Read, Deleted
    <2>6. QED BY <1>1, <1>7, <2>2, <2>4, <2>5 DEF Spared, Inv, Created, Id
<1>9. UsesInv'
    BY <1>1, <1>3, <1>5 DEF Inv, UsesInv
<1>10. QED BY <1>1, <1>6, <1>8, <1>9, TimeStep

-----------------------------------------------------------------------------

LEMMA InvInit == ASSUME Init PROVE Inv
<1>1. \A c \in Call : call[c] = Idle
    BY DEF Init
<1>2. /\ Idle \in Held /\ Idle.op = "none" /\ Idle.step = "idle" /\ Idle.holds = {}
    BY DEF Idle, Held, Ops, Steps
<1>3. users \in [Id -> User \cup {None}] /\ \A u \in Id \ {Owner} : users[u] = None
    <2>1. PICK state \in {"active", "deleted"}, posted \in BOOLEAN :
              users = [u \in Id |-> IF u = Owner
                     THEN [state |-> state, ident |-> First, old |-> FALSE, posted |-> posted]
                     ELSE None]
        BY DEF Init
    <2>2. [state |-> state, ident |-> First, old |-> FALSE, posted |-> posted] \in User
        BY NamesAssumption DEF User
    <2>3. QED BY <2>1, <2>2
<1>4. tokens \in [Id -> Token \cup {None}] /\ \A t \in Id \ {Owner} : tokens[t] = None
    <2>1. PICK p \in Purposes :
              tokens = [t \in Id |-> IF t = Owner
                      THEN [owner |-> Owner, what |-> p, state |-> "live"] ELSE None]
        BY DEF Init
    <2>2. [owner |-> Owner, what |-> p, state |-> "live"] \in Token
        BY DEF Token, Id
    <2>3. QED BY <2>1, <2>2
<1>5. password \in [Id -> Id \cup {None}]
    BY DEF Init, Id
<1>6. TypeOK
    <2>1. failures \in [Ident -> Nat]
        BY FailuresAssumption DEF Init
    <2>2. QED BY <1>2, <1>3, <1>4, <1>5, <2>1 DEF Init, TypeOK
<1>7. CallInv
    BY <1>1, <1>2 DEF CallInv, Shape, Consumed, Purging, Changing, Reading, Read
<1>8. Apart /\ UsesInv
    BY <1>1, <1>2 DEF Init, Apart, UsesInv
<1>9. Created
    BY <1>3, <1>4, NamesAssumption DEF Init, Created, Id
<1>10. LoginInv
    BY <1>1, <1>2 DEF LoginInv, Admitted
<1>11. QED BY <1>6, <1>7, <1>8, <1>9, <1>10 DEF Inv

LEMMA StepCodes == ASSUME Inv, NEW x \in Ident, SendCode(x) \/ CodeGone(x) PROVE Inv'
    BY NoCall DEF SendCode, CodeGone, Kept, tables, counters, history

LEMMA InvStep == ASSUME Inv, [Next]_vars PROVE Inv'
<1>1. ASSUME NEW c \in Call, Register(c) \/ Request(c) PROVE Inv'
    BY <1>1, StepRegister, StepCommitRegister, StepRequest, StepReauth, StepIssueToken
       DEF Register, Request
<1>2. ASSUME NEW c \in Call, UseToken(c) \/ ChangePassword(c) PROVE Inv'
    BY <1>2, StepToken, StepConsume, StepCommitChange, StepPassword, StepReauth,
       StepCommitPassword DEF UseToken, ChangePassword
<1>3. ASSUME NEW c \in Call, DeleteAccount(c) \/ RestoreAccount(c) PROVE Inv'
    BY <1>3, StepDelete, StepReauth, StepCommitDelete, StepRestore, StepCommitRestore
       DEF DeleteAccount, RestoreAccount
<1>4. ASSUME NEW c \in Call, PurgeDeleted(c) \/ Login(c) PROVE Inv'
    BY <1>4, StepPurge, StepCommitPurge, StepLogin, StepAskTTL, StepRecordFailure, StepClear
       DEF PurgeDeleted, Login
<1>5. CASE UNCHANGED vars
    BY <1>5, NoCall DEF vars, Kept, tables, redis, counters, history
<1>6. QED BY <1>1, <1>2, <1>3, <1>4, <1>5, StepFail, StepCodes, StepFailuresExpire,
             StepGraceEnds, StepTokenExpires DEF Next

-----------------------------------------------------------------------------
(* Who changes accounts and passwords.                                     *)

LEMMA Writers ==
    ASSUME [Next]_vars
    PROVE  \/ UNCHANGED <<users, password>>
           \/ \E c \in Call : \/ CommitRegister(c) \/ CommitChange(c) \/ CommitPassword(c)
                              \/ CommitDelete(c) \/ CommitRestore(c) \/ CommitPurge(c)
           \/ \E u \in Id : GraceEnds(u)
<1>1. ASSUME NEW c \in Call, Register(c) \/ Request(c)
      PROVE  UNCHANGED <<users, password>> \/ CommitRegister(c)
    BY <1>1 DEF Register, BeginRegister, CheckFree, InsertUser, Request, BeginReset, BeginSignedIn,
                Reauth, CheckTarget, IssueToken, Begin, End, Goto, Hold, tables
<1>2. ASSUME NEW c \in Call, UseToken(c) \/ ChangePassword(c)
      PROVE  UNCHANGED <<users, password>> \/ CommitChange(c) \/ CommitPassword(c)
    BY <1>2 DEF UseToken, BeginToken, Consume, FindOwner, SetIdentifier, ChangePassword,
                BeginSignedIn, Reauth, ReplacePassword, LockAccount, Begin, End, Goto, Hold, tables
<1>3. ASSUME NEW c \in Call, DeleteAccount(c) \/ RestoreAccount(c)
      PROVE  UNCHANGED <<users, password>> \/ CommitDelete(c) \/ CommitRestore(c)
    BY <1>3 DEF DeleteAccount, BeginSignedIn, Reauth, MarkDeleted, RestoreAccount, BeginRestore,
                FindDeleted, Restore, Begin, End, Goto, Hold, tables
<1>4. ASSUME NEW c \in Call, PurgeDeleted(c) \/ Login(c)
      PROVE  UNCHANGED <<users, password>> \/ CommitPurge(c)
    BY <1>4 DEF PurgeDeleted, BeginPurge, LockExpired, DeleteRows, Login, BeginLogin, AskTTL,
                FindUser, VerifyPassword, VerifyCode, RecordFailure, ClearFailures, Begin, End, Goto, Hold,
                tables
<1>5. ASSUME NEW c \in Call, Fail(c) PROVE UNCHANGED <<users, password>>
    BY <1>5 DEF Fail, End, tables
<1>6. ASSUME NEW x \in Ident, SendCode(x) \/ CodeGone(x) \/ FailuresEnding(x) \/ FailuresExpire(x)
      PROVE  UNCHANGED <<users, password>>
    BY <1>6 DEF SendCode, CodeGone, FailuresEnding, FailuresExpire, tables
<1>7. ASSUME NEW t \in Id, TokenExpires(t) PROVE UNCHANGED <<users, password>>
    BY <1>7 DEF TokenExpires
<1>8. CASE UNCHANGED vars
    BY <1>8 DEF vars, tables
<1>9. QED BY <1>1, <1>2, <1>3, <1>4, <1>5, <1>6, <1>7, <1>8 DEF Next

\* What the writers but the purge do to a row that is there.
Survives(u) ==
    users[u] # None => /\ users'[u] # None
                       /\ users'[u].ident = users[u].ident

LEMMA Rewritten ==
    ASSUME Inv, NEW c \in Call, CommitDelete(c) \/ CommitRestore(c), NEW u \in Id
    PROVE  Survives(u)
<1>1. SUFFICES ASSUME users[u] # None PROVE Survives(u)
    BY DEF Survives
<1>2. users[u] \in User
    BY <1>1 DEF Inv, TypeOK
<1>3. \A state \in {"active", "deleted"} :
         LET h == [users[u] EXCEPT !.state = state, !.old = FALSE] IN
         h \in User /\ h.ident = users[u].ident
    BY <1>2 DEF User
<1>4. \/ users'[u] = users[u]
      \/ \E state \in {"active", "deleted"} :
            users'[u] = [users[u] EXCEPT !.state = state, !.old = FALSE]
    BY DEF CommitDelete, CommitRestore
<1>5. QED BY <1>1, <1>3, <1>4, RowsAssumption DEF Survives

LEMMA Registered ==
    ASSUME Inv, NEW c \in Call, CommitRegister(c), NEW u \in Id
    PROVE  /\ Survives(u)
           /\ users[u] # None => password'[u] = password[u]
<1>1. users[c] = None
    BY DEF Inv, Created, CommitRegister, At
<1>2. u # c => users'[u] = users[u] /\ password'[u] = password[u]
    BY DEF CommitRegister, Inv, TypeOK
<1>3. QED BY <1>1, <1>2 DEF Survives

LEMMA Aged ==
    ASSUME Inv, NEW v \in Id, GraceEnds(v), NEW u \in Id
    PROVE  Survives(u)
<1>1. SUFFICES ASSUME users[u] # None PROVE Survives(u)
    BY DEF Survives
<1>2. users[u] \in User
    BY <1>1 DEF Inv, TypeOK
<1>3. LET h == [users[u] EXCEPT !.old = TRUE] IN h \in User /\ h.ident = users[u].ident
    BY <1>2 DEF User
<1>4. users'[u] = users[u] \/ users'[u] = [users[u] EXCEPT !.old = TRUE]
    BY DEF GraceEnds, Inv, TypeOK
<1>5. QED BY <1>1, <1>3, <1>4, RowsAssumption DEF Survives

LEMMA Changed ==
    ASSUME Inv, NEW c \in Call, CommitChange(c), NEW u \in Id
    PROVE  /\ users[u] # None => users'[u] # None
           /\ u \notin call[c].who => users'[u] = users[u]
<1> DEFINE t == call[c].arg
           x == tokens[t].what.ident
<1>1. /\ t \in Id /\ tokens[t] # None /\ tokens[t].what.purpose = "change"
      /\ call[c].who \in SUBSET Id
      /\ \A v \in call[c].who : users[v] # None
    BY HeldFields DEF CommitChange, At, Inv, CallInv, Shape, Consumed, Changing
<1>2. x \in Ident
    <2>1. tokens[t] \in Token
        BY <1>1 DEF Inv, TypeOK
    <2>2. tokens[t].what \in Purposes
        BY <2>1 DEF Token
    <2>3. QED BY <1>1, <2>2 DEF Purposes
<1>3. PICK v \in call[c].who : users' = [users EXCEPT ![v].ident = x]
    BY DEF CommitChange
<1> DEFINE new == [users[v] EXCEPT !.ident = x]
<1>4. v \in Id /\ users[v] \in User
    BY <1>1, <1>3 DEF Inv, TypeOK
<1>5. new \in User
    BY <1>2, <1>4 DEF User
<1>6. users' = [users EXCEPT ![v] = new]
    BY <1>3
<1> HIDE DEF new
<1>7. new # None
    BY <1>5, RowsAssumption
<1>8. QED BY <1>3, <1>4, <1>6, <1>7 DEF Inv, TypeOK

\* The purge takes the accounts it has locked, and nothing else.
LEMMA Purged ==
    ASSUME Inv, NEW c \in Call, CommitPurge(c), NEW u \in Id
    PROVE  /\ u \in call[c].who =>
                 /\ Expired(u) /\ password'[u] = None
                 /\ \A t \in Id : tokens'[t] # None => tokens'[t].owner # u
           /\ u \notin call[c].who => users'[u] = users[u] /\ password'[u] = password[u]
<1>1. u \in call[c].who => Expired(u) /\ password'[u] = None
    BY DEF CommitPurge, At, Inv, CallInv, Purging
<1>2. ASSUME u \in call[c].who, NEW t \in Id, tokens'[t] # None PROVE tokens'[t].owner # u
    BY <1>2 DEF CommitPurge, OwnedBy
<1>3. u \notin call[c].who => users'[u] = users[u] /\ password'[u] = password[u]
    BY DEF CommitPurge, Inv, TypeOK
<1>4. QED BY <1>1, <1>2, <1>3

\* A call that changes an account it has found deleted was open at the deletion.
LEMMA Overtaken ==
    ASSUME Inv, NEW c \in Call, CommitChange(c) \/ CommitPassword(c), NEW u \in call[c].who,
           Deleted(u)
    PROVE  call[c].step = "commit" /\ call'[c].step = "ended" /\ u \in deleted[c]
<1>1. call[c].step = "commit" /\ Read(c) /\ Ended(c)
    BY DEF CommitChange, CommitPassword, At, Read
<1>2. Reading(c)
    BY DEF Inv, CallInv
<1>3. call'[c].step = "ended"
    BY <1>1 DEF Ended, Idle, Inv, TypeOK
<1>4. QED BY <1>1, <1>2, <1>3 DEF Reading

LEMMA PasswordWritten ==
    ASSUME Inv, NEW c \in Call, CommitPassword(c), NEW u \in Id, u \notin call[c].who
    PROVE  password'[u] = password[u]
    BY HeldFields DEF CommitPassword, Inv, TypeOK

-----------------------------------------------------------------------------

LEMMA InvHolds == Spec => []Inv
<1>1. Init => Inv
    BY InvInit
<1>2. Inv /\ [Next]_vars => Inv'
    BY InvStep
<1>3. QED BY <1>1, <1>2, PTL DEF Spec

\* Every call, row and counter keeps its shape: TypeOK, with which the numbers and
\* the locks of the other theorems make sense.
THEOREM AccountTypes == Spec => []TypeOK
<1>1. Inv => TypeOK
    BY DEF Inv
<1>2. QED BY <1>1, InvHolds, PTL

\* A recovery or verification token changes an account at most once, however many
\* calls present it and whichever roll back: TokensActOnce, of Consume's UPDATE ..
\* WHERE used_at IS NULL in the transaction of the change (auth_token_repo.go:36-38).
THEOREM AccountTokensActOnce == Spec => []TokensActOnce
<1>1. Inv => TokensActOnce
    BY DEF Inv, UsesInv, TokensActOnce
<1>2. QED BY <1>1, InvHolds, PTL

\* A failure is counted beyond the limit only for a login that passed the gate below
\* it, and has met as many others, or in the last half second of a lockout:
\* LockoutPassedOnlyAtItsEnd, of LockoutRemaining's two reads before the password is
\* looked at and RecordFailure after it (login.go:40-53, throttle/redis.go:44-84).
THEOREM AccountLockoutPassedOnlyAtItsEnd == Spec => LockoutPassedOnlyAtItsEnd
<1>1. ASSUME Inv, NEW c \in Call, NEW x \in Ident, call[c].arg = x, At(c, "login", "fail")
      PROVE  \/ failures[x] < MaxFailures + call[c].met
             \/ call[c].late /\ (x \in ending \/ call[c].met > 0)
    BY <1>1 DEF Inv, LoginInv, Met, Below, AtTheEnd, Admitted, At
<1>2. Inv /\ [Next]_vars =>
         [\A c \in Call : \A x \in Ident :
             /\ call[c].arg = x /\ At(c, "login", "fail")
             /\ failures'[x] > failures[x] /\ call'[c].step = "ended"
             => \/ failures[x] < MaxFailures + call[c].met
                \/ call[c].late /\ (x \in ending \/ call[c].met > 0)]_vars
    BY <1>1
<1>3. QED BY <1>2, InvHolds, PTL DEF Spec, LockoutPassedOnlyAtItsEnd

\* Only an account past its grace period disappears, with its password and its
\* tokens, whatever restores it at the same time: PurgeTakesOnlyTheExpired, of the
\* rows PurgeDeleted locks and looks at again (user_repo.go:233-283).
THEOREM AccountPurgeTakesOnlyTheExpired == Spec => PurgeTakesOnlyTheExpired
<1>1. ASSUME Inv, [Next]_vars, NEW u \in Id, users[u] # None, users'[u] = None
      PROVE  /\ Expired(u)
             /\ password'[u] = None
             /\ \A t \in Id : tokens'[t] # None => tokens'[t].owner # u
    <2>1. ASSUME NEW c \in Call, CommitPurge(c)
          PROVE  /\ Expired(u)
                 /\ password'[u] = None
                 /\ \A t \in Id : tokens'[t] # None => tokens'[t].owner # u
        <3>1. u \in call[c].who
            BY <1>1, <2>1, Purged
        <3>2. QED BY <1>1, <2>1, <3>1, Purged
    <2>2. ASSUME NEW c \in Call, CommitRegister(c) \/ CommitDelete(c) \/ CommitRestore(c)
          PROVE  FALSE
        BY <1>1, <2>2, Registered, Rewritten DEF Survives
    <2>3. ASSUME NEW c \in Call, CommitChange(c) PROVE FALSE
        BY <1>1, <2>3, Changed
    <2>4. ASSUME NEW c \in Call, CommitPassword(c) PROVE FALSE
        BY <1>1, <2>4 DEF CommitPassword
    <2>5. ASSUME NEW v \in Id, GraceEnds(v) PROVE FALSE
        BY <1>1, <2>5, Aged DEF Survives
    <2>6. QED BY <1>1, <2>1, <2>2, <2>3, <2>4, <2>5, Writers
<1>2. Inv /\ [Next]_vars =>
         [\A u \in Id : users[u] # None /\ users'[u] = None =>
             /\ Expired(u)
             /\ password'[u] = None
             /\ \A t \in Id : tokens'[t] # None => tokens'[t].owner # u]_vars
    BY <1>1
<1>3. QED BY <1>2, InvHolds, PTL DEF Spec, PurgeTakesOnlyTheExpired

\* A deleted account keeps the identifier and the password it was deleted with,
\* unless a call that had read it before the deletion still commits:
\* DeletedChangeOnlyByOverlap, of the accounts that ResetPassword, ChangePassword and
\* the confirmations read through the pool (account_security_flows.go:102-119, 311-320).
THEOREM AccountDeletedChangeOnlyByOverlap == Spec => DeletedChangeOnlyByOverlap
<1>1. ASSUME Inv, [Next]_vars, NEW u \in Id, Deleted(u), users'[u] # None,
             users'[u].ident # users[u].ident \/ password'[u] # password[u]
      PROVE  \E c \in Call : /\ call[c].step = "commit" /\ call'[c].step = "ended"
                             /\ u \in deleted[c]
    <2>1. users[u] # None
        BY <1>1 DEF Deleted
    <2>2. ASSUME NEW c \in Call, CommitChange(c)
          PROVE  call[c].step = "commit" /\ call'[c].step = "ended" /\ u \in deleted[c]
        <3>1. password'[u] = password[u]
            BY <2>2 DEF CommitChange
        <3>2. u \in call[c].who
            BY <1>1, <2>2, <3>1, Changed
        <3>3. QED BY <1>1, <2>2, <3>2, Overtaken
    <2>3. ASSUME NEW c \in Call, CommitPassword(c)
          PROVE  call[c].step = "commit" /\ call'[c].step = "ended" /\ u \in deleted[c]
        <3>1. users'[u] = users[u]
            BY <2>3 DEF CommitPassword
        <3>2. u \in call[c].who
            BY <1>1, <2>3, <3>1, PasswordWritten
        <3>3. QED BY <1>1, <2>3, <3>2, Overtaken
    <2>4. ASSUME NEW c \in Call, CommitDelete(c) \/ CommitRestore(c) PROVE FALSE
        <3>1. password'[u] = password[u]
            BY <2>4 DEF CommitDelete, CommitRestore
        <3>2. QED BY <1>1, <2>1, <2>4, <3>1, Rewritten DEF Survives
    <2>5. ASSUME NEW c \in Call, CommitRegister(c) PROVE FALSE
        BY <1>1, <2>1, <2>5, Registered DEF Survives
    <2>6. ASSUME NEW c \in Call, CommitPurge(c) PROVE FALSE
        <3>1. u \notin call[c].who
            BY <1>1, <2>6 DEF CommitPurge
        <3>2. QED BY <1>1, <2>6, <3>1, Purged
    <2>7. ASSUME NEW v \in Id, GraceEnds(v) PROVE FALSE
        <3>1. password'[u] = password[u]
            BY <2>7 DEF GraceEnds
        <3>2. QED BY <1>1, <2>1, <2>7, <3>1, Aged DEF Survives
    <2>8. QED BY <1>1, <2>2, <2>3, <2>4, <2>5, <2>6, <2>7, Writers
<1>2. Inv /\ [Next]_vars =>
         [\A u \in Id :
             /\ Deleted(u) /\ users'[u] # None
             /\ users'[u].ident # users[u].ident \/ password'[u] # password[u]
             => \E c \in Call : call[c].step = "commit" /\ call'[c].step = "ended"
                                 /\ u \in deleted[c]]_vars
    BY <1>1
<1>3. QED BY <1>2, InvHolds, PTL DEF Spec, DeletedChangeOnlyByOverlap
=============================================================================
