--------------------------- MODULE SessionsProofs ---------------------------
(***************************************************************************)
(* Proofs about Sessions for every set of devices, calls and operations.   *)
(*                                                                         *)
(* The tokens say little about the committed rows alone: a call holds rows *)
(* it has locked, a token it is about to hand out and a version it has     *)
(* read.  The invariant says of every such copy how it relates to the      *)
(* committed row it is a copy of, and of every call that ends sessions     *)
(* which tokens it still has to end.                                       *)
(***************************************************************************)
EXTENDS Sessions, TLAPS

USE DEF held, Steps, Goto

\* The absent values are told apart from the others by their states.
LEMMA Absent == NoRow \notin Row /\ NoAccount \notin Account /\ None \notin Token
<1>1. NoRow.state = "none" /\ \A r \in Row : r.state # "none"
    BY DEF NoRow, Row, States
<1>2. NoAccount.state = "none" /\ \A a \in Account : a.state # "none"
    BY DEF NoAccount, Account
<1>3. QED BY <1>1, <1>2, NoneAssumption DEF Token

\* A row that is there, seen by its state, its tokens or its id.
LEMMA RowThere ==
    ASSUME NEW r \in Row \cup {NoRow},
           r.state # "none" \/ r.current \in Token \/ r.id \in Token \/ r.previous \in Token
    PROVE  r \in Row
    BY Absent DEF NoRow

\* What each call was asked, and what that says of the step it is at.
Shape(k) ==
    /\ pc[k] = "done" <=> answer[k] # "none"
    /\ pc[k] # "idle" => call[k] \in Asked
    /\ pc[k] \in {"find", "write"} => call[k].op = "login" /\ call[k].on \in Device
    /\ pc[k] \in {"current", "account", "rotate"} => call[k].op = "refresh"
    /\ call[k].op = "refresh" => call[k].on \in Issued
    /\ pc[k] \in {"user", "scan", "end"} => call[k].op # "login"
    /\ pc[k] = "user" => call[k].op # "refresh"
    /\ before[k] \subseteq Issued

ShapeInv == TypeOK /\ \A k \in Call : Shape(k)

LEMMA IssuedTokens == Issued \subseteq Token
    BY DevicesAssumption DEF Issued, Token

\* The step of one call leaves the shape of the others alone.
LEMMA ShapeOthers ==
    ASSUME ShapeInv, NEW k \in Call, Shape(k)', Issued \subseteq Issued',
           \A j \in Call \ {k} :
              /\ pc'[j] = pc[j] /\ call'[j] = call[j]
              /\ answer'[j] = answer[j] /\ before'[j] = before[j]
    PROVE  \A j \in Call : Shape(j)'
<1>1. ASSUME NEW j \in Call \ {k} PROVE Shape(j)'
    BY <1>1 DEF ShapeInv, Shape
<1>2. QED BY <1>1

LEMMA EndType ==
    ASSUME TypeOK, NEW k \in Call, NEW told \in {"ok", "reuse", "failed"}, End(k, told)
    PROVE  /\ pc' = [pc EXCEPT ![k] = "done"] /\ pc' \in [Call -> Steps]
           /\ answer' = [answer EXCEPT ![k] = told]
           /\ answer' \in [Call -> {"none", "ok", "reuse", "failed"}]
           /\ seen' \in [Call -> Nat]
           /\ row' \in [Call -> Row \cup {NoRow}]
           /\ targets' \in [Call -> SUBSET Device]
           /\ DOMAIN wrote' = Call
           /\ wrote'[k] = NoRows /\ DOMAIN NoRows = {}
           /\ \A j \in Call :
                 DOMAIN wrote'[j] \subseteq Device /\ wrote'[j] \in [DOMAIN wrote'[j] -> Row]
           /\ newUser' \in [Call -> Account \cup {NoAccount}]
<1>1. NoRows \in [{} -> Row] /\ DOMAIN NoRows = {}
    BY DEF NoRows
<1>2. wrote' = [wrote EXCEPT ![k] = NoRows]
    BY DEF End
<1>3. \A j \in Call :
         DOMAIN wrote'[j] \subseteq Device /\ wrote'[j] \in [DOMAIN wrote'[j] -> Row]
    BY <1>1, <1>2 DEF TypeOK
<1>4. QED BY <1>1, <1>2, <1>3 DEF TypeOK, End

\* A rule for the steps that write rows of their transaction.
LEMMA WroteType ==
    ASSUME TypeOK, NEW k \in Call, NEW devices \in SUBSET Device,
           NEW rows \in [devices -> Row], wrote' = [wrote EXCEPT ![k] = rows]
    PROVE  /\ DOMAIN wrote' = Call
           /\ wrote'[k] = rows /\ DOMAIN wrote'[k] = devices
           /\ \A j \in Call \ {k} : wrote'[j] = wrote[j]
           /\ \A j \in Call :
                 DOMAIN wrote'[j] \subseteq Device /\ wrote'[j] \in [DOMAIN wrote'[j] -> Row]
    BY DEF TypeOK

LEMMA SignedInType ==
    ASSUME NEW k \in Call, NEW id \in Token, NEW previous \in Token \cup {None}
    PROVE  SignedIn(k, id, previous) \in Row
    BY DEF SignedIn, Row, States, Token

LEMMA EndedType ==
    ASSUME NEW op, NEW r \in Row
    PROVE  /\ Ended(op, r) \in Row
           /\ Ended(op, r).state # "active"
           /\ Ended(op, r).id = r.id /\ Ended(op, r).current = r.current
    BY DEF Ended, Row, States

LEMMA RotatedType ==
    ASSUME NEW k \in Call, NEW t \in Token, NEW r \in Row
    PROVE  LET s == [r EXCEPT !.current = k, !.previous = t, !.old = FALSE]
           IN  s \in Row /\ s.current = k /\ s.id = r.id
    BY DEF Row, Token

LEMMA ShapeInit == ASSUME Init PROVE ShapeInv
<1>1. NoRows \in [{} -> Row] /\ DOMAIN NoRows = {}
    BY DEF NoRows
<1>2. \A d \in Device :
         [id |-> d, state |-> "active", current |-> d, previous |-> None, old |-> FALSE] \in Row
    BY DEF Row, States, Token
<1>3. \A t \in Known : t \in Device /\ [device |-> t, id |-> t, ver |-> 0] \in Grant
    BY DevicesAssumption DEF Grant, Token
<1>4. TypeOK
    BY <1>1, <1>2, <1>3 DEF Init, TypeOK, Account
<1>5. ASSUME NEW k \in Call PROVE Shape(k)
    BY DEF Init, Shape, Nothing
<1>6. QED BY <1>4, <1>5 DEF ShapeInv

\* Everything issued stays issued: an answer is final.
LEMMA IssuedGrows ==
    ASSUME ShapeInv, NEW k \in Call,
           answer' = answer \/ \E told \in {"ok", "reuse", "failed"} :
                                  pc[k] # "done" /\ answer' = [answer EXCEPT ![k] = told],
           \A j \in Call : answer[j] # "none" => call'[j] = call[j]
    PROVE  Issued \subseteq Issued'
<1>1. \A j \in Call : answer[j] = "ok" => answer'[j] = "ok" /\ call'[j] = call[j]
    BY DEF ShapeInv, Shape, TypeOK
<1>2. QED BY <1>1 DEF Issued

\* A call begins.
LEMMA ShapeBegin ==
    ASSUME ShapeInv, NEW k \in Call, NEW op \in AllOps, NEW on \in Token \cup {None},
           NEW next \in {"find", "current", "scan", "user"}, Begin(k, op, on, next),
           seen' \in [Call -> Nat],
           op = "login" => next = "find" /\ on \in Device,
           op = "refresh" => next = "current" /\ on \in Issued,
           next = "find" => op = "login",
           next = "current" => op = "refresh"
    PROVE  ShapeInv'
<1>1. /\ pc[k] = "idle" /\ op \in Ops
      /\ call' = [call EXCEPT ![k] = [op |-> op, on |-> on]]
      /\ before' = [before EXCEPT ![k] = Issued]
      /\ pc' = [pc EXCEPT ![k] = next]
      /\ UNCHANGED <<user, sessions, row, targets, wrote, newUser, grants, answer>>
    BY DEF Begin
<1>2. [op |-> op, on |-> on] \in Asked
    BY <1>1 DEF Asked
<1>3. answer[k] = "none"
    BY <1>1 DEF ShapeInv, Shape
<1>4. TypeOK'
    BY <1>1, <1>2, IssuedTokens DEF ShapeInv, TypeOK
<1>5. Issued \subseteq Issued'
    BY <1>1, <1>3, IssuedGrows DEF ShapeInv, TypeOK
<1>6. /\ pc'[k] = next /\ call'[k] = [op |-> op, on |-> on] /\ before'[k] = Issued
      /\ answer'[k] = "none"
      /\ \A j \in Call \ {k} :
            /\ pc'[j] = pc[j] /\ call'[j] = call[j]
            /\ answer'[j] = answer[j] /\ before'[j] = before[j]
    BY <1>1, <1>3 DEF ShapeInv, TypeOK
<1>7. Shape(k)'
    BY <1>2, <1>5, <1>6 DEF Shape
<1>8. QED BY <1>4, <1>5, <1>6, <1>7, ShapeOthers DEF ShapeInv

LEMMA ShapeBegins ==
    ASSUME ShapeInv, NEW k \in Call,
           BeginLogin(k) \/ BeginRefresh(k) \/ BeginSignedIn(k) \/ BeginRecovery(k)
    PROVE  /\ ShapeInv'
           /\ \E op \in AllOps, on \in Token \cup {None}, next \in {"find", "current", "scan", "user"} :
                 /\ Begin(k, op, on, next)
                 /\ op = "refresh" => next = "current" /\ on \in Issued
                 /\ op \in Bumping => next = "user"
                 /\ op = "login" => next = "find"
           /\ seen' = seen \/ seen' = [seen EXCEPT ![k] = user.ver]
<1> DEFINE Steps1 == {"find", "current", "scan", "user"}
<1>1. user.ver \in Nat /\ seen \in [Call -> Nat]
    BY DEF ShapeInv, TypeOK, Account
<1>2. CASE BeginLogin(k)
    <2>1. PICK d \in Device : Begin(k, "login", d, "find")
        BY <1>2 DEF BeginLogin
    <2>2. seen' = [seen EXCEPT ![k] = user.ver]
        BY <1>2 DEF BeginLogin
    <2>3. d \in Token /\ "login" \in AllOps /\ "login" \notin Bumping
        BY DEF Token, AllOps, Bumping
    <2>4. QED BY <1>1, <2>1, <2>2, <2>3, ShapeBegin
<1>3. CASE BeginRefresh(k)
    <2>1. PICK t \in Issued : Begin(k, "refresh", t, "current")
        BY <1>3 DEF BeginRefresh
    <2>2. seen' = seen
        BY <1>3 DEF BeginRefresh
    <2>3. t \in Token /\ "refresh" \in AllOps /\ "refresh" \notin Bumping
        BY IssuedTokens DEF AllOps, Bumping
    <2>4. QED BY <1>1, <2>1, <2>2, <2>3, ShapeBegin
<1>4. CASE BeginSignedIn(k)
    <2>1. PICK t \in Issued :
             /\ Authenticates(t)
             /\ \/ \E op \in {"logout", "logout_others"} : Begin(k, op, grants[t].id, "scan")
                \/ \E d \in Device :
                      Exists(d) /\ Begin(k, "logout_session", sessions[d].id, "scan")
                \/ Begin(k, "change_password", grants[t].id, "user")
                \/ \E op \in {"logout_all", "delete"} : Begin(k, op, None, "user")
        BY <1>4 DEF BeginSignedIn
    <2>2. seen' = seen
        BY <1>4 DEF BeginSignedIn
    <2>3. grants[t].id \in Token \cup {None}
        BY IssuedTokens DEF ShapeInv, TypeOK, Grant, NoGrant
    <2>4. CASE \E op \in {"logout", "logout_others"} : Begin(k, op, grants[t].id, "scan")
        <3>1. PICK op \in {"logout", "logout_others"} : Begin(k, op, grants[t].id, "scan")
            BY <2>4
        <3>2. op \in AllOps /\ op \notin Bumping /\ op # "login" /\ op # "refresh"
            BY DEF AllOps, Bumping, Revoking
        <3>3. QED BY <1>1, <2>2, <2>3, <3>1, <3>2, ShapeBegin
    <2>5. CASE \E d \in Device :
                  Exists(d) /\ Begin(k, "logout_session", sessions[d].id, "scan")
        <3>1. PICK d \in Device : Exists(d) /\ Begin(k, "logout_session", sessions[d].id, "scan")
            BY <2>5
        <3>2. sessions[d].id \in Token
            BY <3>1, RowThere DEF Exists, ShapeInv, TypeOK, Row
        <3>3. "logout_session" \in AllOps /\ "logout_session" \notin Bumping
            BY DEF AllOps, Bumping, Revoking
        <3>4. QED BY <1>1, <2>2, <3>1, <3>2, <3>3, ShapeBegin
    <2>6. CASE Begin(k, "change_password", grants[t].id, "user")
        <3>1. "change_password" \in AllOps
            BY DEF AllOps, Suspending
        <3>2. QED BY <1>1, <2>2, <2>3, <2>6, <3>1, ShapeBegin
    <2>7. CASE \E op \in {"logout_all", "delete"} : Begin(k, op, None, "user")
        <3>1. PICK op \in {"logout_all", "delete"} : Begin(k, op, None, "user")
            BY <2>7
        <3>2. op \in AllOps /\ op # "login" /\ op # "refresh"
            BY DEF AllOps, Revoking
        <3>3. QED BY <1>1, <2>2, <3>1, <3>2, ShapeBegin
    <2>8. QED BY <2>1, <2>4, <2>5, <2>6, <2>7
<1>5. CASE BeginRecovery(k)
    <2>1. PICK op \in {"reset_password", "restore"} : Begin(k, op, None, "user")
        BY <1>5 DEF BeginRecovery
    <2>2. seen' = seen
        BY <1>5 DEF BeginRecovery
    <2>3. op \in AllOps /\ op # "login" /\ op # "refresh"
        BY DEF AllOps, Suspending, Revoking
    <2>4. QED BY <1>1, <2>1, <2>2, <2>3, ShapeBegin
<1>6. QED BY <1>2, <1>3, <1>4, <1>5

\* A call goes on: its request, its answer and what was issued stay.
LEMMA ShapeGoesOn ==
    ASSUME ShapeInv, NEW k \in Call, TypeOK', NEW next \in Steps,
           pc' = [pc EXCEPT ![k] = next], UNCHANGED <<call, answer, before>>,
           pc[k] \notin {"idle", "done"}, next \notin {"idle", "done"},
           next \in {"find", "write"} => call[k].op = "login" /\ call[k].on \in Device,
           next \in {"current", "account", "rotate"} => call[k].op = "refresh",
           next \in {"user", "scan", "end"} => call[k].op # "login",
           next = "user" => call[k].op # "refresh"
    PROVE  ShapeInv' /\ Issued' = Issued
<1>1. Issued' = Issued
    BY DEF Issued
<1>2. Shape(k)'
    BY <1>1 DEF ShapeInv, Shape, TypeOK
<1>3. \A j \in Call \ {k} : pc'[j] = pc[j]
    BY DEF ShapeInv, TypeOK
<1>4. QED BY <1>1, <1>2, <1>3, ShapeOthers DEF ShapeInv

LEMMA ShapeEnd ==
    ASSUME ShapeInv, NEW k \in Call, NEW told \in {"ok", "reuse", "failed"}, End(k, told),
           pc[k] \notin {"idle", "done"}, UNCHANGED <<call, before>>, TypeOK'
    PROVE  ShapeInv' /\ Issued \subseteq Issued'
<1>1. /\ pc' = [pc EXCEPT ![k] = "done"] /\ answer' = [answer EXCEPT ![k] = told]
    BY DEF End
<1>2. Issued \subseteq Issued'
    BY <1>1, IssuedGrows
<1>3. Shape(k)'
    BY <1>1, <1>2 DEF ShapeInv, Shape, TypeOK
<1>4. \A j \in Call \ {k} : pc'[j] = pc[j] /\ answer'[j] = answer[j]
    BY <1>1 DEF ShapeInv, TypeOK
<1>5. QED BY <1>2, <1>3, <1>4, ShapeOthers DEF ShapeInv

LEMMA ShapeLogin ==
    ASSUME ShapeInv, NEW k \in Call, FindDevice(k) \/ UpdateDevice(k) \/ CreateDevice(k)
    PROVE  ShapeInv'
<1>1. /\ pc[k] \in {"find", "write"} /\ UNCHANGED <<call, answer, before>>
      /\ call[k] \in Asked /\ call[k].op = "login" /\ call[k].on \in Device
    BY DEF FindDevice, UpdateDevice, CreateDevice, ShapeInv, Shape
<1> DEFINE d == call[k].on
<1>2. CASE FindDevice(k)
    <2>1. TypeOK'
        BY <1>1, <1>2 DEF FindDevice, ShapeInv, TypeOK
    <2>2. pc' = [pc EXCEPT ![k] = "write"]
        BY <1>2 DEF FindDevice
    <2>3. QED BY <1>1, <2>1, <2>2, ShapeGoesOn
<1>3. CASE UpdateDevice(k)
    <2>1. row[k] \in Row /\ row[k].id \in Token /\ row[k].current \in Token
        BY <1>3, RowThere DEF UpdateDevice, ShapeInv, TypeOK, Row
    <2>2. PICK devices \in SUBSET Device : \E rows \in [devices -> Row] :
              wrote' = [wrote EXCEPT ![k] = rows]
        <3>1. [e \in {d} |-> SignedIn(k, row[k].id, row[k].current)] \in [{d} -> Row]
            BY <2>1, SignedInType
        <3>2. NoRows \in [{} -> Row]
            BY DEF NoRows
        <3>3. {d} \in SUBSET Device /\ {} \in SUBSET Device
            BY <1>1
        <3>4. CASE sessions[d].id = row[k].id
            <4>1. wrote' = [wrote EXCEPT ![k] = [e \in {d} |-> SignedIn(k, row[k].id, row[k].current)]]
                BY <1>3, <3>4 DEF UpdateDevice
            <4>2. QED BY <3>1, <3>3, <4>1
        <3>5. CASE sessions[d].id # row[k].id
            <4>1. wrote' = [wrote EXCEPT ![k] = NoRows]
                BY <1>3, <3>5 DEF UpdateDevice
            <4>2. QED BY <3>2, <3>3, <4>1
        <3>6. QED BY <3>4, <3>5
    <2>3. grants' = [grants EXCEPT ![k] = [device |-> d, id |-> row[k].id, ver |-> seen[k]]]
        BY <1>3 DEF UpdateDevice
    <2>4. [device |-> d, id |-> row[k].id, ver |-> seen[k]] \in Grant
        BY <1>1, <2>1 DEF Grant, ShapeInv, TypeOK
    <2>5. TypeOK'
        <3>1. UNCHANGED <<user, sessions, call, seen, row, targets, newUser, answer, before>>
              /\ pc' = [pc EXCEPT ![k] = "commit"]
            BY <1>3 DEF UpdateDevice
        <3>2. QED BY <2>2, <2>3, <2>4, <3>1, WroteType DEF ShapeInv, TypeOK
    <2>6. pc' = [pc EXCEPT ![k] = "commit"]
        BY <1>3 DEF UpdateDevice
    <2>7. QED BY <1>1, <2>5, <2>6, ShapeGoesOn
<1>4. CASE CreateDevice(k)
    <2>1. k \in Token
        BY DEF Token
    <2>2. [e \in {d} |-> SignedIn(k, k, None)] \in [{d} -> Row] /\ {d} \in SUBSET Device
        BY <1>1, <2>1, SignedInType
    <2>3. wrote' = [wrote EXCEPT ![k] = [e \in {d} |-> SignedIn(k, k, None)]]
        BY <1>4 DEF CreateDevice
    <2>4. grants' = [grants EXCEPT ![k] = [device |-> d, id |-> k, ver |-> seen[k]]]
        BY <1>4 DEF CreateDevice
    <2>5. [device |-> d, id |-> k, ver |-> seen[k]] \in Grant
        BY <1>1, <2>1 DEF Grant, ShapeInv, TypeOK
    <2>6. TypeOK'
        <3>1. UNCHANGED <<user, sessions, call, seen, row, targets, newUser, answer, before>>
              /\ pc' = [pc EXCEPT ![k] = "commit"]
            BY <1>4 DEF CreateDevice
        <3>2. QED BY <2>2, <2>3, <2>4, <2>5, <3>1, WroteType DEF ShapeInv, TypeOK
    <2>7. pc' = [pc EXCEPT ![k] = "commit"]
        BY <1>4 DEF CreateDevice
    <2>8. QED BY <1>1, <2>6, <2>7, ShapeGoesOn
<1>5. QED BY <1>2, <1>3, <1>4

LEMMA ShapeRefresh ==
    ASSUME ShapeInv, NEW k \in Call,
           LockCurrent(k) \/ ReadAccount(k) \/ Rotate(k) \/ LockPrevious(k)
    PROVE  ShapeInv'
<1>1. /\ pc[k] \in {"current", "account", "rotate"} /\ UNCHANGED <<call, answer, before>>
      /\ call[k] \in Asked /\ call[k].op = "refresh" /\ call[k].on \in Token
    BY IssuedTokens DEF LockCurrent, ReadAccount, Rotate, LockPrevious, ShapeInv, Shape
<1>2. CASE LockCurrent(k)
    <2>1. PICK d \in Device :
             sessions[d].state = "active" /\ wrote' = [wrote EXCEPT ![k] = [e \in {d} |-> sessions[d]]]
        BY <1>2 DEF LockCurrent
    <2>2. sessions[d] \in Row
        BY <2>1, RowThere DEF ShapeInv, TypeOK
    <2>3. [e \in {d} |-> sessions[d]] \in [{d} -> Row] /\ {d} \in SUBSET Device
        BY <2>2
    <2>4. TypeOK'
        BY <1>2, <2>1, <2>3, WroteType DEF LockCurrent, ShapeInv, TypeOK
    <2>5. pc' = [pc EXCEPT ![k] = "account"]
        BY <1>2 DEF LockCurrent
    <2>6. QED BY <1>1, <2>4, <2>5, ShapeGoesOn
<1>3. CASE ReadAccount(k)
    <2>1. TypeOK'
        BY <1>3 DEF ReadAccount, ShapeInv, TypeOK, Account
    <2>2. pc' = [pc EXCEPT ![k] = "rotate"]
        BY <1>3 DEF ReadAccount
    <2>3. QED BY <1>1, <2>1, <2>2, ShapeGoesOn
<1>4. CASE Rotate(k)
    <2> DEFINE rows == [d \in DOMAIN wrote[k] |->
                [wrote[k][d] EXCEPT !.current = k, !.previous = call[k].on, !.old = FALSE]]
    <2>1. /\ wrote' = [wrote EXCEPT ![k] = rows] /\ pc' = [pc EXCEPT ![k] = "commit"]
          /\ UNCHANGED <<user, sessions, call, seen, row, targets, newUser, answer, before>>
        BY <1>4 DEF Rotate
    <2>2. DOMAIN wrote[k] \in SUBSET Device /\ \A d \in DOMAIN wrote[k] : wrote[k][d] \in Row
        BY DEF ShapeInv, TypeOK
    <2>3. rows \in [DOMAIN wrote[k] -> Row]
        BY <1>1, <2>2, RotatedType
    <2>4. PICK d \in DOMAIN wrote[k] :
             grants' = [grants EXCEPT ![k] =
                [device |-> d, id |-> wrote[k][d].id, ver |-> seen[k]]]
        BY <1>4 DEF Rotate
    <2>5. [device |-> d, id |-> wrote[k][d].id, ver |-> seen[k]] \in Grant
        BY <2>2 DEF Grant, Row, ShapeInv, TypeOK
    <2> HIDE DEF rows
    <2>6. TypeOK'
        BY <2>1, <2>2, <2>3, <2>4, <2>5, WroteType DEF ShapeInv, TypeOK
    <2>7. QED BY <1>1, <2>1, <2>6, ShapeGoesOn
<1>5. CASE LockPrevious(k)
    <2>1. PICK d \in Device :
             /\ sessions[d].previous = call[k].on
             /\ wrote' = [wrote EXCEPT ![k] = [e \in {d} |-> sessions[d]]]
        BY <1>5 DEF LockPrevious
    <2>2. sessions[d] \in Row
        BY <1>1, <2>1, RowThere DEF ShapeInv, TypeOK
    <2>3. [e \in {d} |-> sessions[d]] \in [{d} -> Row] /\ {d} \in SUBSET Device
        BY <2>2
    <2>4. TypeOK'
        BY <1>5, <2>1, <2>3, WroteType DEF LockPrevious, ShapeInv, TypeOK
    <2>5. pc' = [pc EXCEPT ![k] = "scan"]
        BY <1>5 DEF LockPrevious
    <2>6. QED BY <1>1, <2>4, <2>5, ShapeGoesOn
<1>6. QED BY <1>2, <1>3, <1>4, <1>5

LEMMA ShapeEndsSessions ==
    ASSUME ShapeInv, NEW k \in Call, UpdateUser(k) \/ Scan(k) \/ UpdateSessions(k)
    PROVE  ShapeInv'
<1>1. /\ pc[k] \in {"user", "scan", "end"} /\ UNCHANGED <<call, answer, before>>
      /\ call[k].op # "login"
    BY DEF UpdateUser, Scan, UpdateSessions, ShapeInv, Shape
<1>2. CASE UpdateUser(k)
    <2> DEFINE op == call[k].op
               new == [state |-> CASE op = "delete" -> "deleted"
                                   [] op = "restore" -> "active"
                                   [] OTHER -> user.state,
                       ver |-> IF Bumped(op) THEN user.ver + 1 ELSE user.ver]
    <2>1. /\ newUser' = [newUser EXCEPT ![k] = new] /\ pc' = [pc EXCEPT ![k] = "scan"]
          /\ UNCHANGED <<user, sessions, call, seen, row, targets, wrote, grants, answer, before>>
        BY <1>2 DEF UpdateUser
    <2>2. new \in Account
        BY DEF ShapeInv, TypeOK, Account
    <2> HIDE DEF new, op
    <2>3. TypeOK'
        BY <2>1, <2>2 DEF ShapeInv, TypeOK
    <2>4. QED BY <1>1, <2>1, <2>3, ShapeGoesOn
<1>3. CASE Scan(k)
    <2>1. TypeOK'
        BY <1>3 DEF Scan, ShapeInv, TypeOK
    <2>2. pc' = [pc EXCEPT ![k] = "end"]
        BY <1>3 DEF Scan
    <2>3. QED BY <1>1, <2>1, <2>2, ShapeGoesOn
<1>4. CASE UpdateSessions(k)
    <2> DEFINE hit == {d \in LockedRows(k) : Ends(call[k].op, call[k].on, sessions[d])}
               rows == [d \in DOMAIN wrote[k] \cup hit |->
                            IF d \in hit THEN Ended(call[k].op, sessions[d]) ELSE wrote[k][d]]
    <2>1. /\ wrote' = [wrote EXCEPT ![k] = rows] /\ pc' = [pc EXCEPT ![k] = "commit"]
          /\ UNCHANGED <<user, sessions, call, seen, row, targets, newUser, grants, answer, before>>
        BY <1>4 DEF UpdateSessions
    <2>2. hit \subseteq Device /\ \A d \in hit : sessions[d] \in Row
        BY RowThere DEF LockedRows, Ends, States, ShapeInv, TypeOK
    <2>3. DOMAIN wrote[k] \subseteq Device /\ \A d \in DOMAIN wrote[k] : wrote[k][d] \in Row
        BY DEF ShapeInv, TypeOK
    <2> HIDE DEF hit
    <2>4. rows \in [DOMAIN wrote[k] \cup hit -> Row] /\ DOMAIN wrote[k] \cup hit \in SUBSET Device
        BY <2>2, <2>3, EndedType
    <2> HIDE DEF rows
    <2>5. TypeOK'
        BY <2>1, <2>4, WroteType DEF ShapeInv, TypeOK
    <2>6. QED BY <1>1, <2>1, <2>5, ShapeGoesOn
<1>5. QED BY <1>2, <1>3, <1>4

LEMMA ShapeCommit ==
    ASSUME ShapeInv, NEW k \in Call, Commit(k)
    PROVE  ShapeInv' /\ Issued \subseteq Issued'
<1> DEFINE told == IF Reused(k) THEN "reuse" ELSE "ok"
<1>1. /\ End(k, told) /\ told \in {"ok", "reuse", "failed"} /\ pc[k] = "commit"
      /\ sessions' = [d \in Device |-> IF d \in DOMAIN wrote[k] THEN wrote[k][d] ELSE sessions[d]]
      /\ user' = IF newUser[k] = NoAccount THEN user ELSE newUser[k]
      /\ UNCHANGED <<call, grants, before>>
    BY DEF Commit
<1>2. sessions' \in [Device -> Row \cup {NoRow}] /\ user' \in Account
    BY <1>1 DEF ShapeInv, TypeOK
<1> HIDE DEF told
<1>3. TypeOK'
    BY <1>1, <1>2, EndType DEF ShapeInv, TypeOK
<1>4. QED BY <1>1, <1>3, ShapeEnd

LEMMA ShapeFail ==
    ASSUME ShapeInv, NEW k \in Call, Fail(k)
    PROVE  ShapeInv' /\ Issued \subseteq Issued'
<1>1. /\ End(k, "failed") /\ pc[k] \notin {"idle", "done"}
      /\ UNCHANGED <<user, sessions, call, grants, before>>
    BY DEF Fail
<1>2. TypeOK'
    BY <1>1, EndType DEF ShapeInv, TypeOK
<1>3. QED BY <1>1, <1>2, ShapeEnd

LEMMA ShapeSweep ==
    ASSUME ShapeInv, NEW d \in Device, Age(d) \/ ExpireIdle(d) \/ Purge(d)
    PROVE  ShapeInv' /\ Issued' = Issued
<1>1. UNCHANGED <<user, pc, call, held, grants, answer, before>>
    BY DEF Age, ExpireIdle, Purge
<1>2. \A r \in Row : [r EXCEPT !.old = TRUE] \in Row
                     /\ [r EXCEPT !.state = "expired", !.old = FALSE] \in Row
    BY DEF Row, States
<1>3. sessions' \in [Device -> Row \cup {NoRow}]
    <2>1. CASE Age(d)
        <3>1. sessions[d] \in Row /\ sessions' = [sessions EXCEPT ![d].old = TRUE]
            BY <2>1, RowThere DEF Age, Exists, ShapeInv, TypeOK
        <3>2. QED BY <1>2, <3>1 DEF ShapeInv, TypeOK
    <2>2. CASE ExpireIdle(d)
        <3>1. sessions[d] \in Row
              /\ sessions' = [sessions EXCEPT ![d].state = "expired", ![d].old = FALSE]
            BY <2>2, RowThere DEF ExpireIdle, ShapeInv, TypeOK
        <3> DEFINE expired == [sessions[d] EXCEPT !.state = "expired", !.old = FALSE]
        <3>2. sessions' = [sessions EXCEPT ![d] = expired]
            BY <3>1 DEF ShapeInv, TypeOK, Row
        <3>3. expired \in Row
            BY <1>2, <3>1
        <3> HIDE DEF expired
        <3>4. QED BY <3>2, <3>3 DEF ShapeInv, TypeOK
    <2>3. CASE Purge(d)
        BY <2>3 DEF Purge, ShapeInv, TypeOK
    <2>4. QED BY <2>1, <2>2, <2>3
<1>4. TypeOK' /\ Issued' = Issued
    BY <1>1, <1>3 DEF ShapeInv, TypeOK, Issued
<1>5. QED BY <1>1, <1>4 DEF ShapeInv, Shape

LEMMA ShapeStep == ASSUME ShapeInv, [Next]_vars PROVE ShapeInv'
<1>1. ASSUME UNCHANGED vars PROVE ShapeInv'
    BY <1>1 DEF vars, ShapeInv, TypeOK, Shape, Issued
<1>2. QED
    BY <1>1, ShapeBegins, ShapeLogin, ShapeRefresh, ShapeEndsSessions, ShapeCommit, ShapeFail,
       ShapeSweep DEF Next

\* Every value keeps its type: TypeOK.
THEOREM SessionsTypes == Spec => []TypeOK
<1>1. Init => ShapeInv
    BY ShapeInit
<1>2. ShapeInv /\ [Next]_vars => ShapeInv'
    BY ShapeStep
<1>3. ShapeInv => TypeOK
    BY DEF ShapeInv
<1>4. QED BY <1>1, <1>2, <1>3, PTL DEF Spec

-----------------------------------------------------------------------------
\* A row that the open transaction of k has locked or ended: the committed one,
\* with its token; it works only if the committed one does ...
Copied(k, d) ==
    /\ Exists(d)
    /\ wrote[k][d].id = sessions[d].id
    /\ wrote[k][d].current = sessions[d].current
    /\ wrote[k][d].state = "active" => sessions[d].state = "active"

\* ... or a row with the token that k is about to hand out, in the place of the
\* token it was given, if it is a refresh.
Fresh(k, d) ==
    /\ pc[k] = "commit" /\ call[k].op \in {"login", "refresh"}
    /\ wrote[k][d].current = k
    /\ grants[k].device = d /\ grants[k].id = wrote[k][d].id
    /\ call[k].op = "refresh" => sessions[d].current = call[k].on

Locking == {"account", "rotate", "scan", "end", "commit"}

Rows(k) ==
    /\ pc[k] \notin Locking => DOMAIN wrote[k] = {}
    /\ pc[k] \in {"account", "rotate"} =>
          \E d \in Device :
             /\ DOMAIN wrote[k] = {d}
             /\ Copied(k, d)
             /\ sessions[d].current = call[k].on
    /\ \A d \in DOMAIN wrote[k] : Copied(k, d) \/ Fresh(k, d)

\* The users row of an open transaction.
UserRow(k) ==
    /\ newUser[k] # NoAccount => pc[k] \in {"scan", "end", "commit"}
    /\ newUser[k] # NoAccount =>
          /\ user.ver <= newUser[k].ver
          /\ call[k].op \in Bumping => user.ver < newUser[k].ver
    /\ call[k].op \in Bumping /\ pc[k] \in {"scan", "end", "commit"} => newUser[k] # NoAccount
    /\ seen[k] <= user.ver

Apart ==
    \A j, k \in Call : j # k =>
        /\ DOMAIN wrote[j] \cap DOMAIN wrote[k] = {}
        /\ newUser[j] = NoAccount \/ newUser[k] = NoAccount

\* A committed row holds a token that was handed out, for that row and no other.
Tokens ==
    \A d \in Device : Exists(d) =>
        /\ sessions[d].current \in Issued
        /\ grants[sessions[d].current].device = d
        /\ grants[sessions[d].current].id = sessions[d].id

Versions == \A t \in Token : grants[t].ver <= user.ver

\* What a refresh has spent is no row's token any more.
Spent(k) ==
    call[k].op = "refresh" /\ answer[k] = "ok" =>
        \A d \in Device : sessions[d].current # call[k].on

\* The tokens that a call of this kind ends.
Doomed(k) ==
    {t \in before[k] :
        \/ call[k].op \in {"logout", "logout_session"} /\ grants[t].id = call[k].on
        \/ call[k].op \in {"logout_others", "change_password"} /\ grants[t].id # call[k].on
        \/ call[k].op \in {"refresh", "logout_all", "reset_password", "delete", "restore"}}

\* A doomed token that still works is among the rows picked, then among the
\* rows ended, and then there is none.
Ending(k) ==
    /\ pc[k] = "end" =>
          \A t \in Doomed(k) : Refreshable(t) => grants[t].device \in targets[k]
    /\ pc[k] = "commit" /\ (call[k].op = "refresh" => Reused(k)) =>
          \A t \in Doomed(k) : Refreshable(t) =>
             /\ grants[t].device \in DOMAIN wrote[k]
             /\ wrote[k][grants[t].device].state # "active"
    /\ \A t \in before[k] :
          /\ Covers(k, t) => ~Refreshable(t)
          /\ answer[k] = "ok" /\ call[k].op \in Bumping => grants[t].ver < user.ver

RowInv == Apart /\ \A k \in Call : Rows(k) /\ UserRow(k)
TokenInv == Tokens /\ Versions
CallsInv == TokensSpentOnce /\ \A k \in Call : Spent(k) /\ Ending(k)

Inv == ShapeInv /\ RowInv /\ TokenInv /\ CallsInv

LEMMA RefreshableSame ==
    ASSUME NEW t, sessions' = sessions
    PROVE  Refreshable(t)' <=> Refreshable(t)
    BY DEF Refreshable

\* A call that has no answer yet has issued nothing.
LEMMA NotIssued == ASSUME ShapeInv, NEW k \in Call, answer[k] = "none" PROVE k \notin Issued
    BY DevicesAssumption DEF Issued

\* What a step leaves of a call whose own state it does not touch.
LEMMA CallKept ==
    ASSUME Inv, NEW j \in Call,
           /\ pc'[j] = pc[j] /\ call'[j] = call[j] /\ seen'[j] = seen[j]
           /\ targets'[j] = targets[j] /\ wrote'[j] = wrote[j] /\ newUser'[j] = newUser[j]
           /\ grants'[j] = grants[j] /\ answer'[j] = answer[j] /\ before'[j] = before[j],
           \A t \in Issued : grants'[t] = grants[t] /\ (Refreshable(t)' => Refreshable(t)),
           \A d \in DOMAIN wrote[j] : sessions'[d] = sessions[d],
           newUser[j] # NoAccount => user' = user,
           user.ver \in Nat, user'.ver \in Nat, user.ver <= user'.ver
    PROVE  Rows(j)' /\ UserRow(j)' /\ Ending(j)'
<1>1. Rows(j)'
    <2>1. \A d \in DOMAIN wrote[j] : (Copied(j, d) => Copied(j, d)') /\ (Fresh(j, d) => Fresh(j, d)')
        BY DEF Copied, Fresh, Exists
    <2>2. Rows(j)
        BY DEF Inv, RowInv
    <2>3. \A d \in Device : DOMAIN wrote[j] = {d} =>
              (Copied(j, d) => Copied(j, d)') /\ sessions'[d] = sessions[d]
        BY <2>1
    <2>4. QED BY <2>1, <2>2, <2>3 DEF Rows
<1>2. UserRow(j)'
    <2>1. UserRow(j) /\ seen[j] \in Nat
        BY DEF Inv, RowInv, ShapeInv, TypeOK
    <2>2. QED BY <2>1 DEF UserRow
<1>3. Ending(j)'
    <2>1. Ending(j) /\ before[j] \subseteq Issued
        BY DEF Inv, CallsInv, ShapeInv, Shape
    <2>2. Doomed(j)' = Doomed(j)
        BY <2>1 DEF Doomed
    <2>3. Doomed(j) \subseteq Issued
        BY <2>1 DEF Doomed
    <2>4. Reused(j)' <=> Reused(j)
        BY DEF Reused
    <2>5. \A t \in before[j] : Covers(j, t)' => Covers(j, t)
        BY <2>1 DEF Covers
    <2>6. \A t \in before[j] : grants'[t] = grants[t] /\ grants[t].ver \in Nat
        BY <2>1, IssuedTokens DEF Inv, ShapeInv, TypeOK, Grant, NoGrant
    <2>7. ASSUME pc'[j] = "end", NEW t \in Doomed(j)', Refreshable(t)'
          PROVE  grants'[t].device \in targets'[j]
        BY <2>1, <2>2, <2>3, <2>7 DEF Ending
    <2>8. ASSUME pc'[j] = "commit", call'[j].op = "refresh" => Reused(j)',
                 NEW t \in Doomed(j)', Refreshable(t)'
          PROVE  /\ grants'[t].device \in DOMAIN wrote'[j]
                 /\ wrote'[j][grants'[t].device].state # "active"
        BY <2>1, <2>2, <2>3, <2>4, <2>8 DEF Ending
    <2>9. ASSUME NEW t \in before'[j]
          PROVE  /\ Covers(j, t)' => ~Refreshable(t)'
                 /\ answer'[j] = "ok" /\ call'[j].op \in Bumping => grants'[t].ver < user'.ver
        BY <2>1, <2>5, <2>6 DEF Ending
    <2>10. QED BY <2>7, <2>8, <2>9 DEF Ending
<1>4. QED BY <1>1, <1>2, <1>3

\* A step of k's own: nothing committed changes and no call but k moves.
Quiet(k) ==
    /\ UNCHANGED <<user, sessions>>
    /\ \A j \in Call \ {k} :
          /\ pc'[j] = pc[j] /\ call'[j] = call[j] /\ seen'[j] = seen[j]
          /\ targets'[j] = targets[j] /\ wrote'[j] = wrote[j] /\ newUser'[j] = newUser[j]
          /\ answer'[j] = answer[j] /\ before'[j] = before[j]
    /\ \A t \in Token \ {k} : grants'[t] = grants[t]
    /\ answer[k] = "none" /\ answer'[k] # "ok"

LEMMA QuietInv ==
    ASSUME Inv, ShapeInv', NEW k \in Call, Quiet(k), Apart',
           Rows(k)', UserRow(k)', Ending(k)', grants'[k].ver <= user.ver
    PROVE  Inv'
<1>1. k \notin Issued /\ Issued \subseteq Token /\ Issued' = Issued
    <2>1. k \notin Issued
        BY NotIssued DEF Inv, Quiet
    <2>2. Issued' = Issued
        BY DEF Issued, Quiet
    <2>3. QED BY <2>1, <2>2, IssuedTokens
<1>2. \A t \in Issued : grants'[t] = grants[t]
    BY <1>1 DEF Quiet
<1>3. user.ver \in Nat /\ user' = user
    BY DEF Inv, ShapeInv, TypeOK, Account, Quiet
<1>4. ASSUME NEW j \in Call PROVE Rows(j)' /\ UserRow(j)' /\ Ending(j)'
    <2>1. CASE j = k
        BY <2>1
    <2>2. CASE j # k
        <3>1. j \in Call \ {k} /\ j \in Token \ {k}
            BY <2>2 DEF Token
        <3>2. \A t \in Issued : grants'[t] = grants[t] /\ (Refreshable(t)' => Refreshable(t))
            BY <1>2, RefreshableSame DEF Quiet
        <3>3. QED BY <1>3, <3>1, <3>2, CallKept DEF Quiet
    <2>3. QED BY <2>1, <2>2
<1>5. ASSUME NEW j \in Call PROVE Spent(j)'
    <2>1. CASE j = k
        BY <2>1 DEF Spent, Quiet
    <2>2. CASE j # k
        BY <2>2 DEF Spent, Quiet, Inv, CallsInv
    <2>3. QED BY <2>1, <2>2
<1>6. TokensSpentOnce'
    BY DEF TokensSpentOnce, Quiet, Inv, CallsInv
<1>7. Tokens'
    BY <1>1, <1>2 DEF Tokens, Exists, Quiet, Inv, TokenInv
<1>8. Versions'
    BY <1>3 DEF Versions, Quiet, Inv, TokenInv
<1>9. QED BY <1>4, <1>5, <1>6, <1>7, <1>8 DEF Inv, RowInv, TokenInv, CallsInv

\* The rows k writes and the users row are free, so no two calls hold one.
LEMMA ApartKept ==
    ASSUME Inv, NEW k \in Call, NEW devices \in SUBSET Device,
           \A j \in Call \ {k} : wrote'[j] = wrote[j] /\ newUser'[j] = newUser[j],
           DOMAIN wrote'[k] \subseteq DOMAIN wrote[k] \cup devices, Unlocked(k, devices),
           newUser'[k] = newUser[k] \/ newUser'[k] = NoAccount \/ UserUnlocked(k)
    PROVE  Apart'
<1>1. Apart
    BY DEF Inv, RowInv
<1>2. \A j \in Call \ {k} : devices \cap DOMAIN wrote[j] = {}
    BY DEF Unlocked
<1>3. \A j \in Call \ {k} : DOMAIN wrote'[k] \cap DOMAIN wrote[j] = {}
    BY <1>1, <1>2 DEF Apart
<1>4. \A j \in Call \ {k} : newUser'[k] = NoAccount \/ newUser[j] = NoAccount
    BY <1>1 DEF Apart, UserUnlocked
<1>5. QED BY <1>1, <1>3, <1>4 DEF Apart

LEMMA NothingLocked == ASSUME NEW k PROVE Unlocked(k, {})
    BY DEF Unlocked

LEMMA InvBegins ==
    ASSUME Inv, ShapeInv', NEW k \in Call,
           BeginLogin(k) \/ BeginRefresh(k) \/ BeginSignedIn(k) \/ BeginRecovery(k)
    PROVE  Inv'
<1>1. PICK op \in AllOps, on \in Token \cup {None}, next \in {"find", "current", "scan", "user"} :
          /\ Begin(k, op, on, next)
          /\ op = "refresh" => next = "current" /\ on \in Issued
          /\ op \in Bumping => next = "user"
          /\ op = "login" => next = "find"
    BY ShapeBegins DEF Inv
<1>2. seen' = seen \/ seen' = [seen EXCEPT ![k] = user.ver]
    BY ShapeBegins DEF Inv
<1>3. /\ pc[k] = "idle" /\ pc' = [pc EXCEPT ![k] = next]
      /\ call' = [call EXCEPT ![k] = [op |-> op, on |-> on]]
      /\ before' = [before EXCEPT ![k] = Issued]
      /\ UNCHANGED <<user, sessions, row, targets, wrote, newUser, grants, answer>>
    BY <1>1 DEF Begin
<1>4. /\ pc'[k] = next /\ call'[k].op = op /\ answer[k] = "none" /\ answer'[k] = "none"
      /\ user.ver \in Nat /\ seen[k] \in Nat
      /\ \A j \in Call \ {k} : seen'[j] = seen[j]
      /\ seen'[k] \in {seen[k], user.ver}
    BY <1>2, <1>3 DEF Inv, ShapeInv, Shape, TypeOK, Account
<1>5. Quiet(k)
    BY <1>3, <1>4 DEF Quiet, Inv, ShapeInv, TypeOK
<1>6. DOMAIN wrote[k] = {} /\ newUser[k] = NoAccount
    BY <1>3 DEF Inv, RowInv, Rows, UserRow, Locking
<1>7. Rows(k)'
    BY <1>3, <1>4, <1>6 DEF Rows, Locking
<1>8. UserRow(k)'
    <2>1. seen[k] <= user.ver
        BY DEF Inv, RowInv, UserRow
    <2>2. QED BY <1>1, <1>3, <1>4, <1>6, <2>1 DEF UserRow
<1>9. Ending(k)'
    BY <1>4 DEF Ending, Covers
<1>10. Apart'
    BY <1>3, <1>6, NothingLocked, ApartKept
<1>11. grants'[k].ver <= user.ver
    BY <1>3 DEF Inv, TokenInv, Versions, Token
<1>12. QED BY <1>5, <1>7, <1>8, <1>9, <1>10, <1>11, QuietInv

LEMMA InvLogin ==
    ASSUME Inv, ShapeInv', NEW k \in Call, FindDevice(k) \/ UpdateDevice(k) \/ CreateDevice(k)
    PROVE  Inv'
<1> DEFINE d == call[k].on
<1>1. /\ pc[k] \in {"find", "write"} /\ call[k].op = "login" /\ d \in Device
      /\ answer[k] = "none" /\ DOMAIN wrote[k] = {} /\ newUser[k] = NoAccount
      /\ k \in Token /\ grants[k].ver <= user.ver /\ seen[k] <= user.ver
      /\ UNCHANGED <<user, sessions, call, seen, newUser, answer, before, targets>>
    BY DEF FindDevice, UpdateDevice, CreateDevice, Inv, ShapeInv, Shape, RowInv, Rows, UserRow,
           Locking, TokenInv, Versions, Token
<1>2. UserRow(k)'
    BY <1>1 DEF UserRow, Bumping
<1>3. CASE FindDevice(k)
    <2>1. /\ pc' = [pc EXCEPT ![k] = "write"]
          /\ UNCHANGED <<user, sessions, call, seen, targets, wrote, newUser, grants, answer, before>>
        BY <1>3 DEF FindDevice
    <2>2. Quiet(k) /\ pc'[k] = "write"
        BY <1>1, <2>1 DEF Quiet, Inv, ShapeInv, TypeOK
    <2>3. Rows(k)' /\ Ending(k)'
        BY <1>1, <2>1, <2>2 DEF Rows, Locking, Ending, Covers
    <2>4. Apart'
        BY <1>1, <2>1, NothingLocked, ApartKept
    <2>5. QED BY <1>1, <1>2, <2>1, <2>2, <2>3, <2>4, QuietInv
<1>4. ASSUME NEW id, NEW devices \in SUBSET {d},
             pc' = [pc EXCEPT ![k] = "commit"], UNCHANGED row,
             DOMAIN wrote'[k] = devices, \A j \in Call \ {k} : wrote'[j] = wrote[j],
             \A e \in devices : wrote'[k][e].current = k /\ wrote'[k][e].id = id,
             grants' = [grants EXCEPT ![k] = [device |-> d, id |-> id, ver |-> seen[k]]],
             Unlocked(k, {d})
      PROVE  Inv'
    <2>1. Quiet(k) /\ pc'[k] = "commit"
        BY <1>1, <1>4 DEF Quiet, Inv, ShapeInv, TypeOK
    <2>2. grants'[k] = [device |-> d, id |-> id, ver |-> seen[k]]
        BY <1>1, <1>4 DEF Inv, ShapeInv, TypeOK
    <2>3. \A e \in DOMAIN wrote'[k] : Fresh(k, e)'
        BY <1>1, <1>4, <2>1, <2>2 DEF Fresh
    <2>4. Rows(k)'
        BY <2>1, <2>3 DEF Rows, Locking
    <2>5. Ending(k)'
        BY <1>1, <2>1 DEF Ending, Covers, Doomed
    <2>6. Apart'
        BY <1>1, <1>4, ApartKept
    <2>7. grants'[k].ver <= user.ver
        BY <1>1, <2>2
    <2>8. QED BY <1>2, <2>1, <2>4, <2>5, <2>6, <2>7, QuietInv
<1>5. CASE UpdateDevice(k)
    <2> DEFINE rows == [e \in {d} |-> SignedIn(k, row[k].id, row[k].current)]
    <2>1. /\ pc' = [pc EXCEPT ![k] = "commit"] /\ UNCHANGED row /\ Unlocked(k, {d})
          /\ wrote' = [wrote EXCEPT ![k] = IF sessions[d].id = row[k].id THEN rows ELSE NoRows]
          /\ grants' = [grants EXCEPT ![k] = [device |-> d, id |-> row[k].id, ver |-> seen[k]]]
        BY <1>5 DEF UpdateDevice
    <2>2. DOMAIN rows = {d} /\ \A e \in {d} : rows[e].current = k /\ rows[e].id = row[k].id
        BY DEF SignedIn
    <2>3. DOMAIN NoRows = {}
        BY DEF NoRows
    <2> HIDE DEF rows
    <2>4. /\ DOMAIN wrote'[k] \in SUBSET {d}
          /\ \A e \in DOMAIN wrote'[k] : wrote'[k][e].current = k /\ wrote'[k][e].id = row[k].id
          /\ \A j \in Call \ {k} : wrote'[j] = wrote[j]
        BY <2>1, <2>2, <2>3 DEF Inv, ShapeInv, TypeOK
    <2>5. QED BY <1>4, <2>1, <2>4
<1>6. CASE CreateDevice(k)
    <2> DEFINE rows == [e \in {d} |-> SignedIn(k, k, None)]
    <2>1. /\ pc' = [pc EXCEPT ![k] = "commit"] /\ UNCHANGED row /\ Unlocked(k, {d})
          /\ wrote' = [wrote EXCEPT ![k] = rows]
          /\ grants' = [grants EXCEPT ![k] = [device |-> d, id |-> k, ver |-> seen[k]]]
        BY <1>6 DEF CreateDevice
    <2>2. DOMAIN rows = {d} /\ \A e \in {d} : rows[e].current = k /\ rows[e].id = k
        BY DEF SignedIn
    <2> HIDE DEF rows
    <2>3. wrote'[k] = rows /\ \A j \in Call \ {k} : wrote'[j] = wrote[j]
        BY <2>1 DEF Inv, ShapeInv, TypeOK
    <2>4. /\ DOMAIN wrote'[k] \in SUBSET {d}
          /\ \A e \in DOMAIN wrote'[k] : wrote'[k][e].current = k /\ wrote'[k][e].id = k
          /\ \A j \in Call \ {k} : wrote'[j] = wrote[j]
        BY <2>2, <2>3
    <2>5. QED BY <1>4, <2>1, <2>4
<1>7. QED BY <1>3, <1>5, <1>6

LEMMA InvRefresh ==
    ASSUME Inv, ShapeInv', NEW k \in Call,
           LockCurrent(k) \/ ReadAccount(k) \/ Rotate(k) \/ LockPrevious(k)
    PROVE  Inv'
<1>1. /\ pc[k] \in {"current", "account", "rotate"} /\ call[k].op = "refresh"
      /\ call[k].on \in Issued /\ answer[k] = "none" /\ newUser[k] = NoAccount
      /\ k \in Token /\ grants[k].ver <= user.ver /\ seen[k] <= user.ver
      /\ UNCHANGED <<user, sessions, call, row, newUser, answer, before, targets>>
    BY DEF LockCurrent, ReadAccount, Rotate, LockPrevious, Inv, ShapeInv, Shape, RowInv, UserRow,
           TokenInv, Versions, Token
<1>2. user.ver \in Nat
    BY DEF Inv, ShapeInv, TypeOK, Account
<1>3. seen'[k] <= user.ver => UserRow(k)'
    BY <1>1 DEF UserRow, Bumping
<1>4. ASSUME NEW d \in Device, Exists(d), Unlocked(k, {d}),
             wrote' = [wrote EXCEPT ![k] = [e \in {d} |-> sessions[d]]],
             pc[k] = "current", UNCHANGED <<grants, seen>>,
             \/ pc' = [pc EXCEPT ![k] = "account"] /\ sessions[d].current = call[k].on
             \/ pc' = [pc EXCEPT ![k] = "scan"]
      PROVE  Inv'
    <2>1. /\ wrote'[k] = [e \in {d} |-> sessions[d]] /\ DOMAIN wrote'[k] = {d}
          /\ \A j \in Call \ {k} : wrote'[j] = wrote[j]
          /\ pc'[k] \in {"account", "scan"}
          /\ pc'[k] = "account" => sessions[d].current = call[k].on
        BY <1>4 DEF Inv, ShapeInv, TypeOK
    <2>2. Quiet(k)
        BY <1>1, <1>4, <2>1 DEF Quiet, Inv, ShapeInv, TypeOK
    <2>3. Copied(k, d)'
        BY <1>1, <1>4, <2>1 DEF Copied, Exists
    <2>4. Rows(k)'
        BY <1>1, <2>1, <2>3 DEF Rows, Locking
    <2>5. Ending(k)'
        BY <1>1, <2>1 DEF Ending, Covers
    <2>6. {d} \in SUBSET Device
        OBVIOUS
    <2>7. Apart'
        BY <1>1, <1>4, <2>1, <2>6, ApartKept
    <2>8. QED BY <1>1, <1>3, <1>4, <2>2, <2>4, <2>5, <2>7, QuietInv
<1>5. CASE LockCurrent(k)
    <2>1. PICK d \in Device :
              /\ sessions[d].current = call[k].on /\ Unlocked(k, {d})
              /\ sessions[d].state = "active"
              /\ wrote' = [wrote EXCEPT ![k] = [e \in {d} |-> sessions[d]]]
        BY <1>5 DEF LockCurrent, Holds
    <2>2. Exists(d)
        BY <2>1 DEF Exists
    <2>3. /\ pc[k] = "current" /\ pc' = [pc EXCEPT ![k] = "account"] /\ UNCHANGED <<grants, seen>>
        BY <1>5 DEF LockCurrent
    <2>4. QED BY <1>4, <2>1, <2>2, <2>3
<1>6. CASE LockPrevious(k)
    <2>1. PICK d \in Device :
              /\ sessions[d].previous = call[k].on /\ Unlocked(k, {d})
              /\ wrote' = [wrote EXCEPT ![k] = [e \in {d} |-> sessions[d]]]
        BY <1>6 DEF LockPrevious
    <2>2. Exists(d)
        <3>1. sessions[d] \in Row
            BY <1>1, <2>1, IssuedTokens, RowThere DEF Inv, ShapeInv, TypeOK
        <3>2. QED BY <3>1 DEF Exists, Row, States
    <2>3. /\ pc[k] = "current" /\ pc' = [pc EXCEPT ![k] = "scan"] /\ UNCHANGED <<grants, seen>>
        BY <1>6 DEF LockPrevious
    <2>4. QED BY <1>4, <2>1, <2>2, <2>3
<1>7. CASE ReadAccount(k)
    <2>1. /\ pc[k] = "account" /\ pc' = [pc EXCEPT ![k] = "rotate"]
          /\ seen' = [seen EXCEPT ![k] = user.ver] /\ UNCHANGED <<wrote, grants>>
        BY <1>7 DEF ReadAccount
    <2>2. Quiet(k) /\ pc'[k] = "rotate" /\ seen'[k] = user.ver
        BY <1>1, <2>1 DEF Quiet, Inv, ShapeInv, TypeOK
    <2>3. Rows(k)'
        <3>1. \A d : (Copied(k, d) => Copied(k, d)') /\ ~Fresh(k, d)
            BY <1>1, <2>1 DEF Copied, Fresh, Exists
        <3>2. Rows(k)
            BY DEF Inv, RowInv
        <3>3. QED BY <1>1, <2>1, <2>2, <3>1, <3>2 DEF Rows, Locking
    <2>4. Ending(k)'
        BY <1>1, <2>2 DEF Ending, Covers
    <2>5. Apart'
        BY <1>1, <2>1, NothingLocked, ApartKept
    <2>6. QED BY <1>1, <1>2, <1>3, <2>1, <2>2, <2>3, <2>4, <2>5, QuietInv
<1>8. CASE Rotate(k)
    <2>1. /\ pc[k] = "rotate" /\ pc' = [pc EXCEPT ![k] = "commit"] /\ UNCHANGED seen
          /\ wrote' = [wrote EXCEPT ![k] =
                [e \in DOMAIN wrote[k] |->
                   [wrote[k][e] EXCEPT !.current = k, !.previous = call[k].on, !.old = FALSE]]]
        BY <1>8 DEF Rotate
    <2>2. PICK d \in Device :
              /\ DOMAIN wrote[k] = {d} /\ Copied(k, d) /\ sessions[d].current = call[k].on
        BY <2>1 DEF Inv, RowInv, Rows
    <2>3. wrote[k][d] \in Row
        BY <2>2 DEF Inv, ShapeInv, TypeOK
    <2>4. /\ DOMAIN wrote'[k] = {d} /\ \A j \in Call \ {k} : wrote'[j] = wrote[j]
          /\ wrote'[k][d] = [wrote[k][d] EXCEPT !.current = k, !.previous = call[k].on, !.old = FALSE]
        BY <2>1, <2>2 DEF Inv, ShapeInv, TypeOK
    <2>5. wrote'[k][d].current = k /\ wrote'[k][d].id = wrote[k][d].id
        BY <2>3, <2>4 DEF Row
    <2>6. grants' = [grants EXCEPT ![k] = [device |-> d, id |-> wrote[k][d].id, ver |-> seen[k]]]
        BY <1>8, <2>2 DEF Rotate
    <2>7. grants'[k] = [device |-> d, id |-> wrote[k][d].id, ver |-> seen[k]]
        BY <1>1, <2>6 DEF Inv, ShapeInv, TypeOK
    <2>8. Quiet(k) /\ pc'[k] = "commit"
        <3>1. pc'[k] = "commit" /\ \A j \in Call \ {k} : pc'[j] = pc[j]
            BY <2>1 DEF Inv, ShapeInv, TypeOK
        <3>2. \A t \in Token \ {k} : grants'[t] = grants[t]
            BY <2>6 DEF Inv, ShapeInv, TypeOK
        <3>3. \A j \in Call \ {k} : wrote'[j] = wrote[j]
            BY <2>4
        <3>4. seen' = seen
            BY <2>1
        <3>5. QED BY <1>1, <3>1, <3>2, <3>3, <3>4 DEF Quiet
    <2>9. Fresh(k, d)'
        BY <1>1, <2>2, <2>5, <2>7, <2>8 DEF Fresh
    <2>10. Rows(k)'
        BY <2>4, <2>8, <2>9 DEF Rows, Locking
    <2>11. Ending(k)'
        BY <1>1, <2>4, <2>5, <2>8 DEF Ending, Covers, Reused
    <2>12. Apart'
        BY <1>1, <2>2, <2>4, NothingLocked, ApartKept
    <2>13. UserRow(k)' /\ grants'[k].ver <= user.ver
        <3>1. seen' = seen /\ seen[k] <= user.ver
            BY <1>1, <2>1
        <3>2. grants'[k].ver = seen[k]
            BY <2>7
        <3>3. UserRow(k)'
            BY <1>3, <3>1
        <3>4. QED BY <3>1, <3>2, <3>3
    <2>14. QED BY <2>8, <2>10, <2>11, <2>12, <2>13, QuietInv
<1>9. QED BY <1>5, <1>6, <1>7, <1>8

\* The row of a doomed token that works is one that the WHERE clause picks.
LEMMA DoomedEnds ==
    ASSUME Inv, NEW k \in Call, NEW t \in Doomed(k), Refreshable(t)
    PROVE  /\ grants[t].device \in Device
           /\ Ends(call[k].op, call[k].on, sessions[grants[t].device])
<1>1. PICK d \in Device : sessions[d].current = t /\ sessions[d].state = "active"
    BY DEF Refreshable
<1>2. grants[t].device = d /\ grants[t].id = sessions[d].id
    BY <1>1 DEF Inv, TokenInv, Tokens, Exists
<1>3. sessions[d].state \in IF call[k].op \in Suspending THEN {"active"} ELSE States \ {"revoked"}
    BY <1>1 DEF States
<1>4. CASE call[k].op \in {"logout", "logout_session"}
    BY <1>2, <1>3, <1>4 DEF Doomed, Ends
<1>5. CASE call[k].op \in {"logout_others", "change_password"}
    BY <1>2, <1>3, <1>5 DEF Doomed, Ends
<1>6. CASE call[k].op \notin {"logout", "logout_session", "logout_others", "change_password"}
    BY <1>2, <1>3, <1>6 DEF Ends
<1>7. QED BY <1>4, <1>5, <1>6

LEMMA InvEndsSessions ==
    ASSUME Inv, ShapeInv', NEW k \in Call, UpdateUser(k) \/ Scan(k) \/ UpdateSessions(k)
    PROVE  Inv'
<1> DEFINE op == call[k].op
<1>1. /\ pc[k] \in {"user", "scan", "end"} /\ answer[k] = "none"
      /\ grants[k].ver <= user.ver /\ seen[k] <= user.ver
      /\ UNCHANGED <<user, sessions, call, seen, row, grants, answer, before>>
    BY DEF UpdateUser, Scan, UpdateSessions, Inv, ShapeInv, Shape, RowInv, UserRow, TokenInv,
           Versions, Token
<1>2. \A d \in DOMAIN wrote[k] : Copied(k, d)
    BY <1>1 DEF Inv, RowInv, Rows, Fresh
<1>3. ASSUME NEW t \in Doomed(k)', Refreshable(t)'
      PROVE  /\ t \in Doomed(k) /\ grants'[t].device = grants[t].device
             /\ Refreshable(t) /\ grants[t].device \in Device
             /\ Ends(op, call[k].on, sessions[grants[t].device])
    <2>1. t \in Doomed(k) /\ Refreshable(t)
        BY <1>1, <1>3, RefreshableSame DEF Doomed
    <2>2. QED BY <1>1, <2>1, DoomedEnds
<1>4. CASE UpdateUser(k)
    <2> DEFINE new == [state |-> CASE op = "delete" -> "deleted"
                                   [] op = "restore" -> "active"
                                   [] OTHER -> user.state,
                       ver |-> IF Bumped(op) THEN user.ver + 1 ELSE user.ver]
    <2>1. /\ newUser' = [newUser EXCEPT ![k] = new] /\ pc' = [pc EXCEPT ![k] = "scan"]
          /\ pc[k] = "user" /\ UserUnlocked(k) /\ UNCHANGED <<targets, wrote>>
        BY <1>4 DEF UpdateUser
    <2>2. user.ver <= new.ver /\ (op \in Bumping => user.ver < new.ver)
        <3>1. user.ver \in Nat
            BY DEF Inv, ShapeInv, TypeOK, Account
        <3>2. new.ver = IF op \in Bumping THEN user.ver + 1 ELSE user.ver
            BY DEF Bumped
        <3>3. QED BY <3>1, <3>2
    <2>3. new # NoAccount
        <3>1. user.state # "none"
            BY DEF Inv, ShapeInv, TypeOK, Account
        <3>2. new.state # "none"
            BY <3>1
        <3>3. NoAccount.state = "none"
            BY DEF NoAccount
        <3>4. QED BY <3>2, <3>3
    <2> HIDE DEF new
    <2>4. newUser'[k] = new /\ pc'[k] = "scan"
        BY <2>1 DEF Inv, ShapeInv, TypeOK
    <2>5. Quiet(k)
        BY <1>1, <2>1 DEF Quiet, Inv, ShapeInv, TypeOK
    <2>6. UserRow(k)'
        BY <1>1, <2>2, <2>3, <2>4 DEF UserRow
    <2>7. DOMAIN wrote[k] = {}
        BY <2>1 DEF Inv, RowInv, Rows, Locking
    <2>8. Rows(k)'
        BY <2>1, <2>4, <2>7 DEF Rows, Locking
    <2>9. Ending(k)'
        BY <1>1, <2>4 DEF Ending, Covers
    <2>10. Apart'
        BY <2>1, <2>5, <2>7, NothingLocked, ApartKept DEF Quiet
    <2>11. QED BY <1>1, <2>5, <2>6, <2>8, <2>9, <2>10, QuietInv
<1>5. CASE Scan(k)
    <2>1. /\ pc' = [pc EXCEPT ![k] = "end"] /\ pc[k] = "scan" /\ UNCHANGED <<wrote, newUser>>
          /\ targets' = [targets EXCEPT ![k] = {d \in Device : Ends(op, call[k].on, sessions[d])}]
        BY <1>5 DEF Scan
    <2>2. pc'[k] = "end" /\ targets'[k] = {d \in Device : Ends(op, call[k].on, sessions[d])}
        BY <2>1 DEF Inv, ShapeInv, TypeOK
    <2>3. Quiet(k)
        BY <1>1, <2>1 DEF Quiet, Inv, ShapeInv, TypeOK
    <2>4. UserRow(k)'
        BY <1>1, <2>1, <2>2 DEF UserRow, Inv, RowInv
    <2>5. Rows(k)'
        <3>1. \A d \in DOMAIN wrote[k] : Copied(k, d)'
            BY <1>1, <1>2, <2>1 DEF Copied, Exists
        <3>2. QED BY <2>1, <2>2, <3>1 DEF Rows, Locking
    <2>6. \A t \in Doomed(k)' : Refreshable(t)' => grants'[t].device \in targets'[k]
        BY <1>3, <2>2
    <2>7. Ending(k)'
        BY <1>1, <2>2, <2>6 DEF Ending, Covers
    <2>8. Apart'
        BY <2>1, <2>3, NothingLocked, ApartKept DEF Quiet
    <2>9. QED BY <1>1, <2>3, <2>4, <2>5, <2>7, <2>8, QuietInv
<1>6. CASE UpdateSessions(k)
    <2> DEFINE hit == {d \in LockedRows(k) : Ends(op, call[k].on, sessions[d])}
               rows == [d \in DOMAIN wrote[k] \cup hit |->
                            IF d \in hit THEN Ended(op, sessions[d]) ELSE wrote[k][d]]
    <2>1. /\ wrote' = [wrote EXCEPT ![k] = rows] /\ pc' = [pc EXCEPT ![k] = "commit"]
          /\ pc[k] = "end" /\ Unlocked(k, targets[k]) /\ UNCHANGED <<newUser, targets>>
        BY <1>6 DEF UpdateSessions, LockedRows
    <2>2. targets[k] \in SUBSET Device /\ hit \subseteq targets[k]
        BY DEF LockedRows, Inv, ShapeInv, TypeOK
    <2>3. \A d \in hit : sessions[d] \in Row /\ sessions[d].state # "none"
        <3>1. \A d \in hit : sessions[d].state # "none"
            BY DEF Ends, States
        <3>2. \A d \in hit : sessions[d] \in Row \cup {NoRow}
            BY <2>2 DEF Inv, ShapeInv, TypeOK
        <3>3. QED BY <3>1, <3>2, RowThere
    <2>4. \A t \in Doomed(k)' : Refreshable(t)' => grants'[t].device \in hit
        <3>1. \A t \in Doomed(k) : Refreshable(t) => grants[t].device \in targets[k]
            BY <2>1 DEF Inv, CallsInv, Ending
        <3>2. QED BY <1>3, <3>1 DEF LockedRows
    <2> HIDE DEF hit
    <2>5. /\ DOMAIN rows = DOMAIN wrote[k] \cup hit
          /\ \A d \in hit : rows[d] = Ended(op, sessions[d])
          /\ \A d \in DOMAIN wrote[k] : d \notin hit => rows[d] = wrote[k][d]
        OBVIOUS
    <2> HIDE DEF rows
    <2>6. wrote'[k] = rows /\ pc'[k] = "commit" /\ \A j \in Call \ {k} : wrote'[j] = wrote[j]
        BY <2>1 DEF Inv, ShapeInv, TypeOK
    <2>7. Quiet(k)
        BY <1>1, <2>1, <2>6 DEF Quiet, Inv, ShapeInv, TypeOK
    <2>8. UserRow(k)'
        BY <1>1, <2>1, <2>6 DEF UserRow, Inv, RowInv
    <2>9. \A d \in DOMAIN wrote'[k] : Copied(k, d)'
        <3>1. ASSUME NEW d \in hit PROVE Copied(k, d)'
            <4>1. wrote'[k][d] = Ended(op, sessions[d]) /\ sessions' = sessions
                BY <1>1, <2>5, <2>6
            <4>2. QED BY <2>3, <4>1, EndedType DEF Copied, Exists
        <3>2. ASSUME NEW d \in DOMAIN wrote[k], d \notin hit PROVE Copied(k, d)'
            BY <1>1, <1>2, <2>5, <2>6, <3>2 DEF Copied, Exists
        <3>3. QED BY <2>5, <2>6, <3>1, <3>2
    <2>10. Rows(k)'
        BY <2>6, <2>9 DEF Rows, Locking
    <2>11. \A t \in Doomed(k)' : Refreshable(t)' =>
              /\ grants'[t].device \in DOMAIN wrote'[k]
              /\ wrote'[k][grants'[t].device].state # "active"
        <3>1. \A d \in hit : d \in DOMAIN wrote'[k] /\ wrote'[k][d].state # "active"
            BY <2>3, <2>5, <2>6, EndedType
        <3>2. QED BY <2>4, <3>1
    <2>12. Ending(k)'
        BY <1>1, <2>6, <2>11 DEF Ending, Covers
    <2>13. Apart'
        <3>1. DOMAIN wrote'[k] \subseteq DOMAIN wrote[k] \cup targets[k]
            BY <2>2, <2>5, <2>6
        <3>2. QED BY <2>1, <2>2, <2>6, <3>1, ApartKept
    <2>14. QED BY <1>1, <2>7, <2>8, <2>10, <2>12, <2>13, QuietInv
<1>7. QED BY <1>4, <1>5, <1>6

LEMMA InvFail ==
    ASSUME Inv, ShapeInv', NEW k \in Call, Fail(k)
    PROVE  Inv'
<1>1. /\ End(k, "failed") /\ pc[k] \notin {"idle", "done"}
      /\ UNCHANGED <<user, sessions, call, grants, before>>
    BY DEF Fail
<1>2. /\ pc' = [pc EXCEPT ![k] = "done"] /\ answer' = [answer EXCEPT ![k] = "failed"]
      /\ seen' = [seen EXCEPT ![k] = 0] /\ targets' = [targets EXCEPT ![k] = {}]
      /\ wrote' = [wrote EXCEPT ![k] = NoRows] /\ newUser' = [newUser EXCEPT ![k] = NoAccount]
    BY <1>1 DEF End
<1>3. /\ pc'[k] = "done" /\ answer'[k] = "failed" /\ answer[k] = "none"
      /\ seen'[k] = 0 /\ wrote'[k] = NoRows /\ newUser'[k] = NoAccount
    BY <1>1, <1>2 DEF Inv, ShapeInv, Shape, TypeOK
<1>4. DOMAIN wrote'[k] = {}
    BY <1>3 DEF NoRows
<1>5. Quiet(k)
    BY <1>1, <1>2, <1>3 DEF Quiet, Inv, ShapeInv, TypeOK
<1>6. Rows(k)'
    BY <1>3, <1>4 DEF Rows, Locking
<1>7. UserRow(k)' /\ grants'[k].ver <= user.ver
    <2>1. 0 <= user.ver /\ user' = user
        BY <1>1 DEF Inv, ShapeInv, TypeOK, Account
    <2>2. grants[k].ver <= user.ver
        BY DEF Inv, TokenInv, Versions, Token
    <2>3. QED BY <1>1, <1>3, <2>1, <2>2 DEF UserRow
<1>8. Ending(k)'
    BY <1>3 DEF Ending, Covers
<1>9. Apart'
    <2>1. \A j \in Call \ {k} : wrote'[j] = wrote[j] /\ newUser'[j] = newUser[j]
        BY <1>5 DEF Quiet
    <2>2. QED BY <1>3, <1>4, <2>1, NothingLocked, ApartKept
<1>10. QED BY <1>5, <1>6, <1>7, <1>8, <1>9, QuietInv

\* What a commit leaves in a row: a fresh token, or the token that was there, and
\* no session comes back with it.
LEMMA CommittedRow ==
    ASSUME Inv, NEW k \in Call, Commit(k), NEW d \in Device
    PROVE  \/ d \in DOMAIN wrote[k] /\ Fresh(k, d) /\ sessions'[d] = wrote[k][d]
           \/ /\ sessions'[d].id = sessions[d].id
              /\ sessions'[d].current = sessions[d].current
              /\ sessions'[d].state = "active" => sessions[d].state = "active"
              /\ Exists(d)' => Exists(d)
<1>1. sessions'[d] = IF d \in DOMAIN wrote[k] THEN wrote[k][d] ELSE sessions[d]
    BY DEF Commit
<1>2. CASE d \notin DOMAIN wrote[k]
    BY <1>1, <1>2 DEF Exists
<1>3. CASE d \in DOMAIN wrote[k]
    <2>1. Copied(k, d) \/ Fresh(k, d)
        BY <1>3 DEF Inv, RowInv, Rows
    <2>2. QED BY <1>1, <1>3, <2>1 DEF Copied
<1>4. QED BY <1>2, <1>3

LEMMA CommitRevivesNothing ==
    ASSUME Inv, NEW k \in Call, Commit(k), NEW t \in Issued, Refreshable(t)'
    PROVE  Refreshable(t)
<1>1. PICK d \in Device : sessions'[d].current = t /\ sessions'[d].state = "active"
    BY DEF Refreshable
<1>2. k \notin Issued
    BY NotIssued DEF Inv, ShapeInv, Shape, Commit
<1>3. t # k
    BY <1>2
<1>4. QED BY <1>1, <1>3, CommittedRow DEF Fresh, Refreshable

\* A refresh that commits and has found no reuse has replaced its token.
LEMMA RefreshCommits ==
    ASSUME Inv, NEW k \in Call, Commit(k), call[k].op = "refresh", ~Reused(k)
    PROVE  \E d \in Device : sessions[d].current = call[k].on /\ sessions'[d].current = k
<1>1. PICK d \in DOMAIN wrote[k] : wrote[k][d].current = k
    BY DEF Reused
<1>2. d \in Device /\ (Copied(k, d) \/ Fresh(k, d))
    BY DEF Inv, ShapeInv, TypeOK, RowInv, Rows
<1>3. sessions'[d].current = k
    BY <1>1, <1>2 DEF Commit
<1>4. k \notin Issued
    BY NotIssued DEF Inv, ShapeInv, Shape, Commit
<1>5. ~Copied(k, d)
    BY <1>1, <1>2, <1>4 DEF Copied, Inv, TokenInv, Tokens
<1>6. QED BY <1>2, <1>3, <1>5 DEF Fresh

LEMMA InvCommit ==
    ASSUME Inv, ShapeInv', Issued \subseteq Issued', NEW k \in Call, Commit(k)
    PROVE  Inv'
<1> DEFINE told == IF Reused(k) THEN "reuse" ELSE "ok"
<1>1. /\ End(k, told) /\ pc[k] = "commit" /\ UNCHANGED <<call, grants, before>>
      /\ user' = IF newUser[k] = NoAccount THEN user ELSE newUser[k]
    BY DEF Commit
<1>2. /\ pc' = [pc EXCEPT ![k] = "done"] /\ answer' = [answer EXCEPT ![k] = told]
      /\ seen' = [seen EXCEPT ![k] = 0] /\ targets' = [targets EXCEPT ![k] = {}]
      /\ wrote' = [wrote EXCEPT ![k] = NoRows] /\ newUser' = [newUser EXCEPT ![k] = NoAccount]
    BY <1>1 DEF End
<1>3. /\ told \in {"ok", "reuse"} /\ (told = "ok" <=> ~Reused(k)) /\ DOMAIN NoRows = {}
      /\ Reused(k) => call[k].op = "refresh"
    BY DEF NoRows, Reused
<1> HIDE DEF told
<1>4. /\ pc'[k] = "done" /\ answer'[k] = told /\ answer[k] = "none"
      /\ seen'[k] = 0 /\ DOMAIN wrote'[k] = {} /\ newUser'[k] = NoAccount
    BY <1>1, <1>2, <1>3 DEF Inv, ShapeInv, Shape, TypeOK
<1>5. \A j \in Call \ {k} :
         /\ pc'[j] = pc[j] /\ call'[j] = call[j] /\ seen'[j] = seen[j]
         /\ targets'[j] = targets[j] /\ wrote'[j] = wrote[j] /\ newUser'[j] = newUser[j]
         /\ grants' = grants /\ answer'[j] = answer[j] /\ before'[j] = before[j]
    BY <1>1, <1>2 DEF Inv, ShapeInv, TypeOK
<1>6. k \notin Issued /\ k \in Token
    BY <1>4, NotIssued DEF Inv, Token
<1>7. /\ user.ver \in Nat /\ user'.ver \in Nat /\ user.ver <= user'.ver
      /\ call[k].op \in Bumping => user.ver < user'.ver
    <2>1. user.ver \in Nat /\ user'.ver \in Nat
        BY DEF Inv, ShapeInv, TypeOK, Account
    <2>2. QED BY <1>1, <2>1 DEF Inv, RowInv, UserRow
<1>8. \A t \in Issued : Refreshable(t)' => Refreshable(t)
    BY CommitRevivesNothing
<1>9. ASSUME NEW j \in Call \ {k} PROVE Rows(j)' /\ UserRow(j)' /\ Ending(j)'
    <2>1. DOMAIN wrote[j] \cap DOMAIN wrote[k] = {} /\ (newUser[j] = NoAccount \/ newUser[k] = NoAccount)
        BY DEF Inv, RowInv, Apart
    <2>2. \A d \in DOMAIN wrote[j] : d \in Device
        BY DEF Inv, ShapeInv, TypeOK
    <2>3. \A d \in DOMAIN wrote[j] : sessions'[d] = sessions[d]
        BY <2>1, <2>2 DEF Commit
    <2>4. newUser[j] # NoAccount => user' = user
        BY <1>1, <2>1
    <2>5. QED BY <1>1, <1>5, <1>7, <1>8, <2>3, <2>4, CallKept
<1>10. Rows(k)'
    BY <1>4 DEF Rows, Locking
<1>11. UserRow(k)'
    BY <1>4, <1>7 DEF UserRow
<1>12. Apart'
    <2>1. \A j \in Call \ {k} : wrote'[j] = wrote[j] /\ newUser'[j] = newUser[j]
        BY <1>5
    <2>2. QED BY <1>4, <2>1, NothingLocked, ApartKept
<1>13. Tokens'
    <2>1. ASSUME NEW d \in Device, Exists(d)'
          PROVE  /\ sessions'[d].current \in Issued'
                 /\ grants[sessions'[d].current].device = d
                 /\ grants[sessions'[d].current].id = sessions'[d].id
        <3>1. CASE d \in DOMAIN wrote[k] /\ Fresh(k, d) /\ sessions'[d] = wrote[k][d]
            <4>1. told = "ok" /\ call[k].op \in {"login", "refresh"}
                BY <1>3, <3>1 DEF Fresh, Reused
            <4>2. k \in Issued'
                BY <1>1, <1>4, <4>1 DEF Issued
            <4>3. QED BY <3>1, <4>2 DEF Fresh
        <3>2. CASE /\ sessions'[d].id = sessions[d].id
                   /\ sessions'[d].current = sessions[d].current
                   /\ Exists(d)
            BY <3>2 DEF Inv, TokenInv, Tokens
        <3>3. QED BY <2>1, <3>1, <3>2, CommittedRow
    <2>2. QED BY <1>1, <2>1 DEF Tokens
<1>14. Versions'
    <2>1. \A t \in Token : grants[t].ver \in Nat
        BY DEF Inv, ShapeInv, TypeOK, Grant, NoGrant
    <2>2. QED BY <1>1, <1>7, <2>1 DEF Inv, TokenInv, Versions
<1>15. ASSUME NEW j \in Call \ {k} PROVE Spent(j)'
    <2>1. call[j].op = "refresh" => call[j].on # k
        BY <1>6 DEF Inv, ShapeInv, Shape
    <2>2. \A d \in Device : sessions'[d].current \in {sessions[d].current, k}
        BY CommittedRow DEF Fresh
    <2>3. Spent(j)
        BY DEF Inv, CallsInv
    <2>4. QED BY <1>1, <1>5, <2>1, <2>2, <2>3 DEF Spent
<1>16. Spent(k)'
    <2>1. SUFFICES ASSUME call[k].op = "refresh", told = "ok", NEW d \in Device,
                          sessions'[d].current = call[k].on
                   PROVE  FALSE
        BY <1>1, <1>4 DEF Spent
    <2>2. PICK e \in Device : sessions[e].current = call[k].on /\ sessions'[e].current = k
        BY <1>3, <2>1, RefreshCommits
    <2>3. call[k].on # k /\ call[k].on \in Token
        BY <1>6, <2>1, IssuedTokens DEF Inv, ShapeInv, Shape
    <2>4. sessions[d].current = call[k].on /\ d # e
        BY <2>1, <2>2, <2>3, CommittedRow DEF Fresh
    <2>5. \A c \in {d, e} : sessions[c] \in Row /\ Exists(c)
        <3>1. \A c \in {d, e} : sessions[c] \in Row
            BY <2>2, <2>3, <2>4, RowThere DEF Inv, ShapeInv, TypeOK
        <3>2. QED BY <3>1 DEF Exists, Row, States
    <2>6. QED BY <2>2, <2>4, <2>5 DEF Inv, TokenInv, Tokens
<1>17. TokensSpentOnce'
    <2>1. ASSUME NEW j \in Call \ {k}, call[j].op = "refresh", answer[j] = "ok",
                 call[k].op = "refresh", told = "ok", call[j].on = call[k].on
          PROVE  FALSE
        <3>1. Spent(j)
            BY DEF Inv, CallsInv
        <3>2. QED BY <1>3, <2>1, <3>1, RefreshCommits DEF Spent
    <2>2. QED BY <1>1, <1>4, <1>5, <2>1 DEF TokensSpentOnce, Inv, CallsInv
<1>18. Ending(k)'
    <2>1. ASSUME NEW t \in before[k], Covers(k, t)', Refreshable(t)' PROVE FALSE
        <3>1. t \in Doomed(k) /\ (call[k].op = "refresh" => Reused(k))
            BY <1>1, <1>3, <1>4, <2>1 DEF Covers, Doomed
        <3>2. t \in Issued
            BY DEF Inv, ShapeInv, Shape
        <3>3. PICK d \in Device : sessions'[d].current = t /\ sessions'[d].state = "active"
            BY <2>1 DEF Refreshable
        <3>4. grants[t].device = d
            BY <1>1, <1>13, <3>3 DEF Tokens, Exists
        <3>5. d \in DOMAIN wrote[k] /\ wrote[k][d].state # "active"
            BY <1>1, <1>8, <2>1, <3>1, <3>2, <3>4 DEF Inv, CallsInv, Ending
        <3>6. QED BY <3>3, <3>5 DEF Commit
    <2>2. ASSUME NEW t \in before[k], call[k].op \in Bumping PROVE grants[t].ver < user'.ver
        <3>1. t \in Token
            BY IssuedTokens DEF Inv, ShapeInv, Shape
        <3>2. grants[t].ver \in Nat
            BY <3>1 DEF Inv, ShapeInv, TypeOK, Grant, NoGrant
        <3>3. grants[t].ver <= user.ver
            BY <3>1 DEF Inv, TokenInv, Versions
        <3>4. QED BY <1>7, <2>2, <3>2, <3>3
    <2>3. QED BY <1>1, <1>4, <2>1, <2>2 DEF Ending
<1>19. ASSUME NEW j \in Call PROVE Rows(j)' /\ UserRow(j)' /\ Spent(j)' /\ Ending(j)'
    BY <1>9, <1>10, <1>11, <1>15, <1>16, <1>18
<1>20. QED
    BY <1>12, <1>13, <1>14, <1>17, <1>19 DEF Inv, RowInv, TokenInv, CallsInv

\* What a sweep leaves in a row, which no call has locked.
LEMMA SweptRow ==
    ASSUME Inv, NEW d \in Device, Age(d) \/ ExpireIdle(d) \/ Purge(d)
    PROVE  /\ \A e \in Device \ {d} : sessions'[e] = sessions[e]
           /\ \/ /\ sessions'[d].id = sessions[d].id
                 /\ sessions'[d].current = sessions[d].current
                 /\ sessions'[d].state = "active" => sessions[d].state = "active"
                 /\ Exists(d)
              \/ sessions'[d] = NoRow
           /\ \A k \in Call : d \notin DOMAIN wrote[k]
<1>1. sessions \in [Device -> Row \cup {NoRow}]
    BY DEF Inv, ShapeInv, TypeOK
<1>2. CASE Age(d)
    <2>1. \A k \in Call : DOMAIN wrote[k] = {}
        BY <1>2 DEF Age, Inv, RowInv, Rows, Locking
    <2>2. sessions[d] \in Row /\ Exists(d) /\ sessions' = [sessions EXCEPT ![d].old = TRUE]
        BY <1>1, <1>2, RowThere DEF Age, Exists
    <2>3. QED BY <1>1, <2>1, <2>2 DEF Row
<1>3. CASE ExpireIdle(d)
    <2>1. /\ sessions[d] \in Row /\ Exists(d)
          /\ sessions' = [sessions EXCEPT ![d].state = "expired", ![d].old = FALSE]
        BY <1>1, <1>3, RowThere DEF ExpireIdle, Exists
    <2>2. \A k \in Call : d \notin DOMAIN wrote[k]
        BY <1>3 DEF ExpireIdle
    <2>3. QED BY <1>1, <2>1, <2>2 DEF Row
<1>4. CASE Purge(d)
    BY <1>1, <1>4 DEF Purge
<1>5. QED BY <1>2, <1>3, <1>4

LEMMA SweepRevivesNothing ==
    ASSUME Inv, NEW d \in Device, Age(d) \/ ExpireIdle(d) \/ Purge(d),
           NEW t, Refreshable(t)'
    PROVE  Refreshable(t)
<1>1. PICK e \in Device : sessions'[e].current = t /\ sessions'[e].state = "active"
    BY DEF Refreshable
<1>2. CASE e = d
    BY <1>1, <1>2, SweptRow DEF Refreshable, NoRow
<1>3. CASE e # d
    BY <1>1, <1>3, SweptRow DEF Refreshable
<1>4. QED BY <1>2, <1>3

LEMMA InvSweep ==
    ASSUME Inv, ShapeInv', Issued' = Issued, NEW d \in Device,
           Age(d) \/ ExpireIdle(d) \/ Purge(d)
    PROVE  Inv'
<1>1. /\ UNCHANGED <<user, pc, call, seen, targets, wrote, newUser, grants, answer, before>>
      /\ user.ver \in Nat
    BY DEF Age, ExpireIdle, Purge, Inv, ShapeInv, TypeOK, Account
<1>2. ASSUME NEW k \in Call PROVE Rows(k)' /\ UserRow(k)' /\ Ending(k)'
    <2>1. \A e \in DOMAIN wrote[k] : e \in Device /\ e # d
        BY SweptRow DEF Inv, ShapeInv, TypeOK
    <2>2. \A e \in DOMAIN wrote[k] : sessions'[e] = sessions[e]
        BY <2>1, SweptRow
    <2>3. \A t \in Issued : Refreshable(t)' => Refreshable(t)
        BY SweepRevivesNothing
    <2>4. QED BY <1>1, <2>2, <2>3, CallKept
<1>3. ASSUME NEW e \in Device
      PROVE  \/ /\ sessions'[e].id = sessions[e].id
                /\ sessions'[e].current = sessions[e].current
                /\ Exists(e)' => Exists(e)
             \/ sessions'[e] = NoRow
    BY <1>3, SweptRow DEF Exists
<1>4. Tokens'
    <2>1. ASSUME NEW e \in Device, Exists(e)'
          PROVE  /\ sessions'[e].current \in Issued
                 /\ grants[sessions'[e].current].device = e
                 /\ grants[sessions'[e].current].id = sessions'[e].id
        <3>1. sessions'[e] # NoRow
            BY <2>1 DEF Exists, NoRow
        <3>2. QED BY <1>3, <2>1, <3>1 DEF Inv, TokenInv, Tokens
    <2>2. QED BY <1>1, <2>1 DEF Tokens
<1>5. ASSUME NEW k \in Call PROVE Spent(k)'
    <2>1. call[k].op = "refresh" => call[k].on # None
        BY IssuedTokens, Absent DEF Inv, ShapeInv, Shape
    <2>2. \A e \in Device : sessions'[e].current \in {sessions[e].current, None}
        BY <1>3 DEF NoRow
    <2>3. Spent(k)
        BY DEF Inv, CallsInv
    <2>4. QED BY <1>1, <2>1, <2>2, <2>3 DEF Spent
<1>6. Apart' /\ Versions' /\ TokensSpentOnce'
    BY <1>1 DEF Apart, Versions, TokensSpentOnce, Inv, RowInv, TokenInv, CallsInv
<1>7. QED BY <1>2, <1>4, <1>5, <1>6 DEF Inv, RowInv, TokenInv, CallsInv

-----------------------------------------------------------------------------
LEMMA InvInit == ASSUME Init PROVE Inv
<1>1. ShapeInv
    BY ShapeInit
<1>2. DOMAIN NoRows = {}
    BY DEF NoRows
<1>3. ASSUME NEW k \in Call PROVE Rows(k) /\ UserRow(k) /\ Spent(k) /\ Ending(k)
    BY <1>2 DEF Init, Rows, UserRow, Locking, Bumping, Nothing, Spent, Ending
<1>4. Apart /\ TokensSpentOnce
    BY <1>2 DEF Init, Apart, TokensSpentOnce
<1>5. Tokens
    BY DevicesAssumption DEF Init, Tokens, Exists, Issued, Token, NoRow
<1>6. Versions
    BY DEF Init, Versions, NoGrant
<1>7. QED BY <1>1, <1>3, <1>4, <1>5, <1>6 DEF Inv, RowInv, TokenInv, CallsInv

LEMMA InvStep == ASSUME Inv, [Next]_vars PROVE Inv'
<1>1. ShapeInv'
    BY ShapeStep DEF Inv
<1>2. CASE UNCHANGED vars
    <2>1. \A k \in Call : Rows(k)' /\ UserRow(k)' /\ Spent(k)' /\ Ending(k)'
        <3>1. \A k \in Call : Rows(k) /\ UserRow(k) /\ Spent(k) /\ Ending(k)
            BY DEF Inv, RowInv, CallsInv
        <3>2. QED BY <1>2, <3>1 DEF vars, Rows, Copied, Fresh, Exists, UserRow, Spent, Ending,
                  Doomed, Covers, Refreshable, Reused
    <2>2. Apart' /\ Tokens' /\ Versions' /\ TokensSpentOnce'
        BY <1>2 DEF vars, Apart, Tokens, Versions, TokensSpentOnce, Exists, Issued,
           Inv, RowInv, TokenInv, CallsInv
    <2>3. QED BY <1>1, <2>1, <2>2 DEF Inv, RowInv, TokenInv, CallsInv
<1>3. ASSUME NEW k \in Call, Commit(k) PROVE Inv'
    BY <1>1, <1>3, ShapeCommit, InvCommit DEF Inv
<1>4. ASSUME NEW d \in Device, Age(d) \/ ExpireIdle(d) \/ Purge(d) PROVE Inv'
    BY <1>1, <1>4, ShapeSweep, InvSweep DEF Inv
<1>5. QED
    BY <1>1, <1>2, <1>3, <1>4, InvBegins, InvLogin, InvRefresh, InvEndsSessions, InvFail DEF Next

LEMMA InvHolds == Spec => []Inv
<1>1. Init => Inv
    BY InvInit
<1>2. Inv /\ [Next]_vars => Inv'
    BY InvStep
<1>3. QED BY <1>1, <1>2, PTL DEF Spec

\* Of the refreshes that were given the same token at most one succeeds, however
\* they race with each other and with logins and revocations: TokensSpentOnce, of
\* RefreshService.Refresh's FindByHash FOR UPDATE and Rotate.
THEOREM SessionsTokensSpentOnce == Spec => []TokensSpentOnce
<1>1. Inv => TokensSpentOnce
    BY DEF Inv, CallsInv
<1>2. QED BY <1>1, InvHolds, PTL

\* What a logout, a reuse, a password change or reset, a deletion or a restoration
\* has ended stays ended: EndedTokensAreDead, of RevokeAll, SuspendAll and the
\* version bumped in the same transaction.
THEOREM SessionsEndedTokensAreDead == Spec => []EndedTokensAreDead
<1>1. ASSUME Inv, NEW k \in Call, NEW t \in before[k]
      PROVE  /\ Covers(k, t) => ~Refreshable(t)
             /\ answer[k] = "ok" /\ call[k].op \in Bumping => ~Authenticates(t)
    <2>1. /\ Covers(k, t) => ~Refreshable(t)
          /\ answer[k] = "ok" /\ call[k].op \in Bumping => grants[t].ver < user.ver
        BY <1>1 DEF Inv, CallsInv, Ending
    <2>2. user.ver \in Nat
        BY <1>1 DEF Inv, ShapeInv, TypeOK, Account
    <2>3. Authenticates(t) => grants[t].ver = user.ver
        BY DEF Authenticates
    <2>4. QED BY <2>1, <2>2, <2>3
<1>2. Inv => EndedTokensAreDead
    BY <1>1 DEF EndedTokensAreDead
<1>3. QED BY <1>2, InvHolds, PTL

\* A refresh token that has stopped working never works again: DeadTokensStayDead,
\* of the rows that login, refresh and the revocations write back when they commit.
THEOREM SessionsDeadTokensStayDead == Spec => DeadTokensStayDead
<1>1. ASSUME Inv, [Next]_vars, NEW t \in Issued, Refreshable(t)' PROVE Refreshable(t)
    <2>1. CASE sessions' = sessions
        BY <1>1, <2>1, RefreshableSame
    <2>2. CASE \E k \in Call : Commit(k)
        BY <1>1, <2>2, CommitRevivesNothing
    <2>3. CASE \E d \in Device : Age(d) \/ ExpireIdle(d) \/ Purge(d)
        BY <1>1, <2>3, SweepRevivesNothing
    <2>4. ASSUME NEW k \in Call,
                 BeginLogin(k) \/ BeginRefresh(k) \/ BeginSignedIn(k) \/ BeginRecovery(k)
          PROVE  sessions' = sessions
        BY <2>4 DEF BeginLogin, BeginRefresh, BeginSignedIn, BeginRecovery, Begin
    <2>5. ASSUME NEW k \in Call,
                 \/ FindDevice(k) \/ UpdateDevice(k) \/ CreateDevice(k)
                 \/ LockCurrent(k) \/ ReadAccount(k) \/ Rotate(k) \/ LockPrevious(k)
                 \/ UpdateUser(k) \/ Scan(k) \/ UpdateSessions(k) \/ Fail(k)
          PROVE  sessions' = sessions
        BY <2>5 DEF FindDevice, UpdateDevice, CreateDevice, LockCurrent, ReadAccount, Rotate,
               LockPrevious, UpdateUser, Scan, UpdateSessions, Fail
    <2>6. CASE UNCHANGED vars
        BY <2>1, <2>6 DEF vars
    <2>7. QED BY <1>1, <2>1, <2>2, <2>3, <2>4, <2>5, <2>6 DEF Next
<1>2. Inv /\ [Next]_vars => [\A t \in Issued : ~Refreshable(t) => ~Refreshable(t)']_vars
    BY <1>1
<1>3. QED BY <1>2, InvHolds, PTL DEF Spec, DeadTokensStayDead
=============================================================================
