--------------------------- MODULE SessionProofs ----------------------------
(***************************************************************************)
(* Sessions end when they should, refresh tokens have one successor and a  *)
(* prompt repeat signs nobody out: for any number of devices, calls and    *)
(* tokens, any family limit and every interleaving of the row locks.       *)
(***************************************************************************)
EXTENDS Sessions, FiniteSetTheorems, TLAPS

(***************************************************************************)
(* Types of the rows.                                                      *)
(***************************************************************************)
AccountStates == {"absent", "pending", "active", "disabled"}
Accounts == [status: AccountStates, password: Nat]
DeviceStates == {"none", "active", "revoked"}
Invitations == [issued: Nat, status: {"none", "open", "used", "expired", "revoked"}]
TokenRows == [family: Nat, parent: Nat, device: Devices \cup {None}, used: BOOLEAN,
              revoked: BOOLEAN, fresh: BOOLEAN, grace: BOOLEAN, cred: Nat, late: BOOLEAN]
Ops == {"none", "invite", "activate", "login", "refresh", "logout", "webLogout",
        "revokeDevice", "password", "disable", "access"}
Places == {"idle", "inviting", "activating", "checked", "rotating", "touching",
           "changing", "revoking", "updating"}
CallRows == [op: Ops, pc: Places, token: Nat, device: Devices \cup {None}, cred: Nat,
             grace: BOOLEAN, lock: {"none", "update", "noKey"}, holdsDevice: BOOLEAN,
             rows: SUBSET Tokens, todo: SUBSET Tokens]

TablesTyped ==
    /\ account \in Accounts
    /\ device \in [Devices -> DeviceStates]
    /\ token \in [Tokens -> TokenRows]
    /\ \A t \in Tokens : Exists(t) => token[t].device \in Devices
    /\ invitation \in Invitations
    /\ calm \in BOOLEAN

(***************************************************************************)
(* Which locks a call has at which place of its transaction.               *)
(***************************************************************************)
Revoking == {"revoking", "updating"}

Shape(r) ==
    /\ r.pc = "idle" => r = Idle
    /\ r.op = "none" => r.pc = "idle"
    /\ r.pc = "activating" <=> r.op = "activate"
    /\ r.pc = "inviting" => r.op = "invite"
    /\ r.pc = "checked" => r.op = "login"
    /\ r.pc = "rotating" => r.op = "refresh"
    /\ r.pc = "changing" => r.op = "password"
    /\ r.op = "login" => r.pc \in {"checked", "touching"}
    /\ r.op = "refresh" => /\ r.pc \in {"rotating", "touching"} \cup Revoking
                           /\ r.token \in Tokens
                           /\ r.token \in r.rows
    /\ r.op \in {"login", "activate", "refresh", "access", "revokeDevice"} => r.device \in Devices
    /\ r.op = "access" => r.pc = "touching"
    /\ r.pc = "touching" => r.op \in {"login", "refresh", "access"} /\ r.lock = "update"
    /\ r.op \in {"disable", "revokeDevice", "logout", "webLogout"} => r.pc \in Revoking
    /\ r.op = "disable" => r.lock = "update"
    /\ r.op = "password" /\ r.pc \in Revoking => r.lock = "noKey"
    /\ r.op = "revokeDevice" => r.holdsDevice

CallsTyped == call \in [Calls -> CallRows] /\ \A c \in Calls : Shape(call[c])

-----------------------------------------------------------------------------
(***************************************************************************)
(* How a call may move: it takes the user row only when no other call has  *)
(* it, and a token row only when it is free.                               *)
(***************************************************************************)
Moves(c, r) ==
    /\ call' = [call EXCEPT ![c] = r]
    /\ r \in CallRows
    /\ Shape(r)
    /\ r.lock # "none" /\ r.lock # call[c].lock => UserFree(c)
    /\ \A t \in r.rows \ call[c].rows : TokenFree(c, t)

LEMMA IdleTyped == Idle \in CallRows /\ Shape(Idle) /\ Idle.lock = "none" /\ Idle.rows = {}
BY SMT DEF Idle, CallRows, Ops, Places, Shape

LEMMA EndsMoves ==
    ASSUME CallsTyped, NEW c \in Calls, Ends(c)
    PROVE  Moves(c, Idle)
BY IdleTyped DEF Ends, Moves, CallsTyped

LEMMA BeginMoves ==
    ASSUME TablesTyped, CallsTyped, NEW c \in Calls, Begin(c)
    PROVE  \E r \in CallRows : Moves(c, r)
<1>1. At(c, "idle") /\ call[c] = Idle
  BY DEF Begin, CheckInvitee, LockInvitation, CheckPassword, LogOut, LogOutByToken, RevokeDevice,
         LockAccess, LockToken, CheckOldPassword, DisableAccount, At, CallsTyped, Shape
<1>2. CASE CheckInvitee(c)
  <2> DEFINE r == [Idle EXCEPT !.op = "invite", !.pc = "inviting"]
  <2>1. r \in CallRows /\ Shape(r) /\ r.lock = "none" /\ r.rows = {}
    BY DEF Idle, CallRows, Ops, Places, Shape, Revoking
  <2>2. call' = [call EXCEPT ![c] = r]
    BY <1>2 DEF CheckInvitee, Begins
  <2> QED
    BY <2>1, <2>2 DEF Moves
<1>3. ASSUME NEW v \in 1 .. MaxInvitations, NEW d \in Devices, LockInvitation(c, v, d)
      PROVE  \E r \in CallRows : Moves(c, r)
  <2> DEFINE r == [Idle EXCEPT !.op = "activate", !.pc = "activating", !.device = d, !.cred = v]
  <2>1. v \in Nat
    BY SessionAssumption
  <2>2. r \in CallRows /\ Shape(r) /\ r.lock = "none" /\ r.rows = {}
    BY <2>1 DEF Idle, CallRows, Ops, Places, Shape, Revoking
  <2>3. call' = [call EXCEPT ![c] = r]
    BY <1>3 DEF LockInvitation
  <2> QED
    BY <2>2, <2>3 DEF Moves
<1>4. ASSUME NEW d \in Devices, CheckPassword(c, d)
      PROVE  \E r \in CallRows : Moves(c, r)
  <2> DEFINE r == [Idle EXCEPT !.op = "login", !.pc = "checked", !.device = d,
                               !.cred = account.password]
  <2>1. account.password \in Nat
    BY DEF TablesTyped, Accounts
  <2>2. r \in CallRows /\ Shape(r) /\ r.lock = "none" /\ r.rows = {}
    BY <2>1 DEF Idle, CallRows, Ops, Places, Shape, Revoking
  <2>3. call' = [call EXCEPT ![c] = r]
    BY <1>4 DEF CheckPassword
  <2> QED
    BY <2>2, <2>3 DEF Moves
<1>5. ASSUME NEW d \in Devices, LogOut(c, d) \/ LogOutByToken(c, d)
      PROVE  \E r \in CallRows : Moves(c, r)
  <2>1. PICK op \in {"logout", "webLogout"}, todo \in SUBSET Tokens :
          call' = [call EXCEPT ![c] = [Idle EXCEPT !.op = op, !.pc = "updating",
                                                   !.device = d, !.todo = todo]]
    BY <1>5 DEF LogOut, LogOutByToken
  <2> DEFINE r == [Idle EXCEPT !.op = op, !.pc = "updating", !.device = d, !.todo = todo]
  <2>2. r \in CallRows /\ Shape(r) /\ r.lock = "none" /\ r.rows = {}
    BY DEF Idle, CallRows, Ops, Places, Shape, Revoking
  <2> QED
    BY <2>1, <2>2 DEF Moves
<1>6. ASSUME NEW d \in Devices, RevokeDevice(c, d)
      PROVE  \E r \in CallRows : Moves(c, r)
  <2> DEFINE r == [Idle EXCEPT !.op = "revokeDevice", !.pc = "revoking", !.device = d,
                               !.holdsDevice = TRUE]
  <2>1. r \in CallRows /\ Shape(r) /\ r.lock = "none" /\ r.rows = {}
    BY DEF Idle, CallRows, Ops, Places, Shape, Revoking
  <2>2. call' = [call EXCEPT ![c] = r]
    BY <1>6 DEF RevokeDevice
  <2> QED
    BY <2>1, <2>2 DEF Moves
<1>7. ASSUME NEW d \in Devices, LockAccess(c, d)
      PROVE  \E r \in CallRows : Moves(c, r)
  <2> DEFINE r == [Idle EXCEPT !.op = "access", !.pc = "touching", !.device = d, !.lock = "update"]
  <2>1. r \in CallRows /\ Shape(r) /\ r.rows = {}
    BY DEF Idle, CallRows, Ops, Places, Shape, Revoking
  <2>2. call' = [call EXCEPT ![c] = r] /\ UserFree(c)
    BY <1>7 DEF LockAccess
  <2> QED
    BY <2>1, <2>2 DEF Moves
<1>8. ASSUME NEW t \in Tokens, LockToken(c, t)
      PROVE  \E r \in CallRows : Moves(c, r)
  <2> DEFINE pc == IF Rotates(t) THEN "rotating" ELSE "revoking"
             r == [Idle EXCEPT !.op = "refresh", !.token = t, !.device = token[t].device,
                               !.rows = {t}, !.grace = Spent(t), !.pc = pc]
  <2>1. call' = [call EXCEPT ![c] = r] /\ TokenFree(c, t) /\ Exists(t)
    BY <1>8 DEF LockToken
  <2>2. pc \in {"rotating", "revoking"} /\ t \in Nat
    BY SessionAssumption DEF Tokens
  <2>3. Spent(t) \in BOOLEAN /\ token[t].device \in Devices
    BY <2>1 DEF Spent, TablesTyped, TokenRows
  <2>4. r.op = "refresh" /\ r.pc = pc /\ r.token = t /\ r.device = token[t].device
        /\ r.rows = {t} /\ r.lock = "none" /\ r \in CallRows
    <3> HIDE DEF pc
    <3> QED
      BY <2>2, <2>3 DEF Idle, CallRows, Ops, Places
  <2>5. Shape(r)
    <3> HIDE DEF r, pc
    <3> QED
      BY <2>2, <2>3, <2>4 DEF Shape, Revoking
  <2> HIDE DEF r
  <2> QED
    BY <2>1, <2>4, <2>5 DEF Moves
<1>9. CASE CheckOldPassword(c)
  <2> DEFINE r == [Idle EXCEPT !.op = "password", !.pc = "changing"]
  <2>1. r \in CallRows /\ Shape(r) /\ r.lock = "none" /\ r.rows = {}
    BY DEF Idle, CallRows, Ops, Places, Shape, Revoking
  <2>2. call' = [call EXCEPT ![c] = r]
    BY <1>9 DEF CheckOldPassword, Begins
  <2> QED
    BY <2>1, <2>2 DEF Moves
<1>10. CASE DisableAccount(c)
  <2> DEFINE r == [Idle EXCEPT !.op = "disable", !.pc = "revoking", !.lock = "update"]
  <2>1. r \in CallRows /\ Shape(r) /\ r.rows = {}
    BY DEF Idle, CallRows, Ops, Places, Shape, Revoking
  <2>2. call' = [call EXCEPT ![c] = r] /\ UserFree(c)
    BY <1>10 DEF DisableAccount
  <2> QED
    BY <2>1, <2>2 DEF Moves
<1> QED
  BY <1>2, <1>3, <1>4, <1>5, <1>6, <1>7, <1>8, <1>9, <1>10 DEF Begin

LEMMA ContinueMoves ==
    ASSUME CallsTyped, NEW c \in Calls, Continue(c)
    PROVE  \E r \in CallRows : Moves(c, r)
<1> DEFINE old == call[c]
<1>1. old \in CallRows /\ Shape(old)
  BY DEF CallsTyped
<1>2. CASE Ends(c)
  BY <1>2, EndsMoves, IdleTyped
<1>3. CASE LockLogin(c) \/ LockUser(c)
  <2> DEFINE r == [old EXCEPT !.pc = "touching", !.lock = "update"]
  <2>1. CASE call' = [call EXCEPT ![c] = r]
    <3>1. old.pc = "checked" \/ old.pc = "rotating"
      BY <1>3 DEF LockLogin, LockUser, At
    <3>2. r \in CallRows /\ Shape(r) /\ r.rows = old.rows
      BY <1>1, <3>1 DEF CallRows, Ops, Places, Shape, Revoking, Idle
    <3>3. UserFree(c)
      BY <1>3 DEF LockLogin, LockUser
    <3> HIDE DEF r
    <3> QED
      BY <2>1, <3>2, <3>3 DEF Moves
  <2>2. CASE Ends(c)
    BY <2>2, <1>2
  <2>3. Ends(c) \/ call' = [call EXCEPT ![c].pc = "touching", ![c].lock = "update"]
    BY <1>3 DEF LockLogin, LockUser
  <2> QED
    BY <2>1, <2>2, <2>3 DEF CallsTyped
<1>4. CASE UpdatePassword(c)
  <2> DEFINE r == [old EXCEPT !.pc = "revoking", !.lock = "noKey"]
  <2>1. call' = [call EXCEPT ![c] = r] /\ UserFree(c) /\ old.pc = "changing"
    BY <1>4 DEF UpdatePassword, At, CallsTyped
  <2>2. r \in CallRows /\ Shape(r) /\ r.rows = old.rows
    BY <1>1, <2>1 DEF CallRows, Ops, Places, Shape, Revoking, Idle
  <2> HIDE DEF r
  <2> QED
    BY <2>1, <2>2 DEF Moves
<1>5. CASE BeginUpdate(c)
  <2> DEFINE todo == Scope(c) \ call[c].rows
             r == [old EXCEPT !.pc = "updating", !.todo = todo]
  <2>1. call' = [call EXCEPT ![c] = r] /\ old.pc = "revoking"
    BY <1>5 DEF BeginUpdate, At, CallsTyped
  <2>2. todo \in SUBSET Tokens
    BY DEF Scope
  <2> HIDE DEF todo
  <2>3. r \in CallRows /\ Shape(r) /\ r.rows = old.rows /\ r.lock = old.lock
    BY <1>1, <2>1, <2>2 DEF CallRows, Ops, Places, Shape, Revoking, Idle
  <2> HIDE DEF r
  <2> QED
    BY <2>1, <2>3 DEF Moves
<1>6. CASE UpdateRow(c)
  <2>1. PICK t \in old.todo :
            /\ TokenFree(c, t)
            /\ \E rows \in {old.rows, old.rows \cup {t}} :
                 call' = [call EXCEPT ![c].todo = old.todo \ {t}, ![c].rows = rows]
    BY <1>6 DEF UpdateRow
  <2>2. PICK rows \in {old.rows, old.rows \cup {t}} :
            call' = [call EXCEPT ![c].todo = old.todo \ {t}, ![c].rows = rows]
    BY <2>1
  <2> DEFINE todo == old.todo \ {t}
             r == [old EXCEPT !.todo = todo, !.rows = rows]
  <2>3. old.pc = "updating"
    BY <1>6 DEF UpdateRow, At
  <2>4. todo \in SUBSET Tokens /\ rows \in SUBSET Tokens /\ old.rows \subseteq rows
    BY <1>1, <2>2 DEF CallRows
  <2>5. call' = [call EXCEPT ![c] = r]
    BY <2>2 DEF CallsTyped
  <2> HIDE DEF todo
  <2>6. r \in CallRows /\ Shape(r) /\ r.rows = rows /\ r.lock = old.lock
    BY <1>1, <2>3, <2>4 DEF CallRows, Ops, Places, Shape, Revoking, Idle
  <2> HIDE DEF r
  <2> QED
    BY <2>1, <2>2, <2>5, <2>6 DEF Moves
<1> QED
  BY <1>2, <1>3, <1>4, <1>5, <1>6
  DEF Continue, WriteInvitation, Activate, CommitLogin, CommitRotation, CommitLogOut,
      CommitPassword, CommitDisable, CommitReuse, CommitAccess

LEMMA StepMoves ==
    ASSUME TablesTyped, CallsTyped, [Next]_vars
    PROVE  UNCHANGED call \/ \E c \in Calls, r \in CallRows : Moves(c, r)
<1>1. ASSUME NEW c \in Calls, Ends(c) PROVE \E r \in CallRows : Moves(c, r)
  BY <1>1, EndsMoves, IdleTyped
<1>2. CASE \/ CreateAccount \/ RevokeInvitation \/ ResendInvitation \/ InvitationExpires
           \/ EnableAccount \/ (\E t \in Tokens : GraceEnds(t)) \/ UNCHANGED vars
  BY <1>2 DEF CreateAccount, RevokeInvitation, ResendInvitation, InvitationExpires,
              EnableAccount, GraceEnds, vars
<1>3. CASE DeadlockBroken
  BY <1>1, <1>3 DEF DeadlockBroken, RolledBack
<1>4. CASE \E c \in Calls : Fails(c)
  BY <1>1, <1>4 DEF Fails, RolledBack
<1> QED
  BY <1>2, <1>3, <1>4, BeginMoves, ContinueMoves DEF Next

-----------------------------------------------------------------------------
(***************************************************************************)
(* Row locks exclude each other.                                           *)
(***************************************************************************)
LEMMA CallsStep ==
    ASSUME TablesTyped, CallsTyped, LocksAreExclusive, [Next]_vars
    PROVE  CallsTyped' /\ LocksAreExclusive'
<1>1. CASE UNCHANGED call
  BY <1>1 DEF CallsTyped, LocksAreExclusive
<1>2. ASSUME NEW c \in Calls, NEW r \in CallRows, Moves(c, r)
      PROVE  CallsTyped' /\ LocksAreExclusive'
  <2>1. call'[c] = r /\ \A b \in Calls \ {c} : call'[b] = call[b]
    BY <1>2 DEF Moves, CallsTyped
  <2>2. CallsTyped'
    BY <1>2, <2>1 DEF Moves, CallsTyped
  <2>3. ASSUME NEW b \in Calls, b # c
        PROVE  /\ call[b].lock = "none" \/ r.lock = "none"
               /\ call[b].rows \cap r.rows = {}
    BY <1>2, <2>3 DEF Moves, LocksAreExclusive, UserFree, TokenFree, Others
  <2> QED
    BY <2>1, <2>2, <2>3 DEF LocksAreExclusive
<1> QED
  BY <1>1, <1>2, StepMoves

-----------------------------------------------------------------------------
(***************************************************************************)
(* The invariant.  Tokens are issued in order, and a family shares the     *)
(* password it was signed in with; a first-use child has a used parent; an *)
(* account that was never active has nothing yet.                          *)
(***************************************************************************)
ParentsUsed ==
    \A t \in Tokens : Exists(t) /\ ~token[t].grace /\ token[t].parent # 0 =>
        \E p \in Tokens : p = token[t].parent /\ Exists(p) /\ token[p].used

TokensHeld ==
    /\ \A t \in Tokens : Exists(t) => token[t].family \in 1 .. t
    /\ \A t, u \in Tokens : Exists(t) /\ u < t => Exists(u)
    /\ \A t, u \in Tokens : Exists(t) /\ u \in FamilyOf(t) =>
            token[u].cred = token[t].cred /\ token[u].late = token[t].late
    /\ ParentsUsed

NeverActive == account.status \in {"absent", "pending"}
NewAccountIsEmpty == NeverActive => /\ \A t \in Tokens : ~Exists(t)
                                    /\ \A d \in Devices : device[d] = "none"

Sessionless ==
    /\ RevokedDeviceHasNoSession
    /\ DisabledAccountHasNoSession
    /\ OldPasswordHasNoSession

(***************************************************************************)
(* What a call knows while it holds its locks.  The row of the token a     *)
(* refresh presented stays as it was judged; a bulk update has, or will    *)
(* have, every row that must end with it.                                  *)
(***************************************************************************)
RefreshHeld(c) ==
    LET t == call[c].token IN
    /\ Exists(t)
    /\ token[t].device = call[c].device
    /\ call[c].pc \in {"rotating", "touching"} =>
           /\ ~call[c].grace => ~Spent(t)
           /\ token[t].cred = account.password \/ token[t].late

Reached(c) == call[c].rows \cup call[c].todo
Covers(c, t) ==
    \/ call[c].op \in {"disable", "password"}
    \/ call[c].op = "revokeDevice" /\ token[t].device = call[c].device

CallHeld(c) ==
    /\ call[c].lock = "update" => account.status = "active"
    /\ call[c].pc = "touching" => /\ device[call[c].device] # "revoked"
                                  /\ call[c].op # "login" => device[call[c].device] = "active"
    /\ call[c].op = "revokeDevice" => device[call[c].device] # "none"
    /\ call[c].op = "refresh" => RefreshHeld(c)
    /\ call[c].pc = "updating" => \A t \in Tokens : Exists(t) /\ Covers(c, t) => t \in Reached(c)
    /\ call[c].pc = "activating" => /\ invitation.issued = call[c].cred
                                    /\ invitation.status \in {"open", "expired"}

OneActivation == \A b, c \in Calls : At(b, "activating") /\ At(c, "activating") => b = c

(***************************************************************************)
(* While clients only log in and repeat refreshes promptly, every family   *)
(* has a token that was not used, and only a full one is revoked.          *)
(***************************************************************************)
NotUsed(t) == {u \in FamilyOf(t) : ~token[u].used}
Full(t) == Cardinality(NotUsed(t)) >= Limit

CalmTokens ==
    \A t \in Tokens : Exists(t) =>
        /\ token[t].used => token[t].fresh
        /\ NotUsed(t) # {}
        /\ token[t].revoked /\ ~token[t].used => Full(t)

CalmOps == {"none", "invite", "activate", "login", "refresh", "access"}
CalmCall(c) ==
    /\ call[c].op \in CalmOps
    /\ call[c].op = "refresh" /\ call[c].pc \in Revoking =>
            Full(call[c].token) /\ Reached(c) \subseteq FamilyOf(call[c].token)

CalmHeld == calm => CalmTokens /\ \A c \in Calls : CalmCall(c)

SessionInvariant ==
    /\ TablesTyped
    /\ CallsTyped
    /\ LocksAreExclusive
    /\ TokensHeld
    /\ NewAccountIsEmpty
    /\ OneSuccessor
    /\ Sessionless
    /\ \A c \in Calls : CallHeld(c)
    /\ OneActivation
    /\ CalmHeld

-----------------------------------------------------------------------------
(***************************************************************************)
(* What changes the tables.                                                *)
(***************************************************************************)
Writes ==
    \/ CreateAccount
    \/ EnableAccount
    \/ \E c \in Calls : \/ WriteInvitation(c) \/ Activate(c) \/ CommitLogin(c)
                        \/ CommitRotation(c) \/ CommitLogOut(c) \/ CommitPassword(c)
                        \/ CommitDisable(c) \/ CommitReuse(c)
    \/ \E t \in Tokens : GraceEnds(t)

LEMMA StepWrites ==
    ASSUME [Next]_vars
    PROVE  UNCHANGED <<account, device, token>> \/ Writes
<1>1. ASSUME NEW c \in Calls, Begin(c) PROVE UNCHANGED <<account, device, token>>
  BY <1>1 DEF Begin, CheckInvitee, LockInvitation, CheckPassword, LogOut, LogOutByToken,
              RevokeDevice, LockAccess, LockToken, CheckOldPassword, DisableAccount
<1>2. ASSUME NEW c \in Calls, Continue(c) PROVE UNCHANGED <<account, device, token>> \/ Writes
  BY <1>2 DEF Continue, Writes, LockLogin, LockUser, UpdatePassword, BeginUpdate, UpdateRow,
              CommitAccess
<1>3. CASE RevokeInvitation \/ ResendInvitation \/ InvitationExpires \/ UNCHANGED vars
  BY <1>3 DEF RevokeInvitation, ResendInvitation, InvitationExpires, vars
<1>4. CASE DeadlockBroken \/ \E c \in Calls : Fails(c)
  BY <1>4 DEF DeadlockBroken, Fails, RolledBack
<1> QED
  BY <1>1, <1>2, <1>3, <1>4 DEF Next, Writes

(***************************************************************************)
(* New tokens.  The next one comes after all the others.                   *)
(***************************************************************************)
LEMMA NextTokenIsLast ==
    ASSUME TokensHeld, NEW t \in Tokens, NextToken(t)
    PROVE  /\ ~Exists(t) /\ t \in Nat \ {0}
           /\ \A u \in Tokens : Exists(u) <=> u < t
           /\ \A u \in Tokens : Exists(u) => token[u].family \in 1 .. t - 1
<1>1. \A u \in Tokens : u \in Nat \ {0}
  BY SessionAssumption DEF Tokens
<1>2. \A u \in Tokens : Exists(u) <=> u < t
  BY <1>1 DEF NextToken, TokensHeld
<1> QED
  BY <1>1, <1>2 DEF NextToken, TokensHeld
Signed(t, d, cred, late) ==
    \E row \in TokenRows :
        /\ token' = [token EXCEPT ![t] = row]
        /\ row.family = t /\ row.parent = 0 /\ row.device = d
        /\ row.cred = cred /\ row.late = late
        /\ ~row.used /\ ~row.revoked /\ ~row.fresh /\ ~row.grace

LEMMA SignedRow ==
    ASSUME NEW c \in Calls, NEW t \in Nat, NEW cred \in Nat, NEW late \in BOOLEAN,
           call[c].device \in Devices
    PROVE  /\ token' = [token EXCEPT ![t] = Issued(c, t, cred)]
                 => Signed(t, call[c].device, cred, FALSE)
           /\ token' = [token EXCEPT ![t] = [Issued(c, t, cred) EXCEPT !.late = late]]
                 => Signed(t, call[c].device, cred, late)
<1> DEFINE first == Issued(c, t, cred)
           row == [first EXCEPT !.late = late]
<1>1. /\ first \in TokenRows
      /\ first.family = t /\ first.parent = 0 /\ first.device = call[c].device
      /\ first.cred = cred /\ first.late = FALSE
      /\ ~first.used /\ ~first.revoked /\ ~first.fresh /\ ~first.grace
  BY DEF Issued, NoToken, TokenRows
<1> HIDE DEF first
<1>2. /\ row \in TokenRows
      /\ row.family = t /\ row.parent = 0 /\ row.device = call[c].device
      /\ row.cred = cred /\ row.late = late
      /\ ~row.used /\ ~row.revoked /\ ~row.fresh /\ ~row.grace
  BY <1>1 DEF TokenRows
<1> HIDE DEF row
<1>3. ASSUME token' = [token EXCEPT ![t] = first] PROVE Signed(t, call[c].device, cred, FALSE)
  BY <1>1, <1>3 DEF Signed
<1>4. ASSUME token' = [token EXCEPT ![t] = row] PROVE Signed(t, call[c].device, cred, late)
  BY <1>2, <1>4 DEF Signed
<1> QED
  BY <1>3, <1>4 DEF row, first

LEMMA ActivateSigns ==
    ASSUME TablesTyped, CallsTyped, NEW c \in Calls, Activate(c)
    PROVE  \/ UNCHANGED <<account, device, token, invitation>>
           \/ /\ account.status = "pending"
              /\ UserFree(c)
              /\ call[c].pc = "activating"
              /\ call[c].device \in Devices
              /\ account' = [status |-> "active", password |-> account.password + 1]
              /\ device' = [device EXCEPT ![call[c].device] = "active"]
              /\ invitation' = [invitation EXCEPT !.status = "used"]
              /\ \E t \in Tokens : /\ NextToken(t)
                                   /\ Signed(t, call[c].device, account'.password, FALSE)
<1>1. call[c].pc = "activating" /\ call[c].device \in Devices
  BY DEF Activate, At, CallsTyped, CallRows, Places, Shape
<1>2. account.password + 1 \in Nat /\ FALSE \in BOOLEAN
  BY DEF TablesTyped, Accounts
<1>3. \A t \in Tokens : t \in Nat
  BY SessionAssumption DEF Tokens
<1>4. ASSUME account' = [status |-> "active", password |-> account.password + 1]
      PROVE  account'.password = account.password + 1
  BY <1>4
<1>5. ASSUME NEW t \in Tokens, account'.password = account.password + 1,
             token' = [token EXCEPT ![t] = Issued(c, t, account'.password)]
      PROVE  Signed(t, call[c].device, account'.password, FALSE)
  BY <1>1, <1>2, <1>3, <1>5, SignedRow
<1> QED
  BY <1>1, <1>4, <1>5 DEF Activate

LEMMA LoginSigns ==
    ASSUME CallsTyped, NEW c \in Calls, CommitLogin(c)
    PROVE  /\ call[c].pc = "touching" /\ call[c].lock = "update" /\ call[c].op = "login"
           /\ call[c].device \in Devices
           /\ DeviceFree(c)
           /\ device' = [device EXCEPT ![call[c].device] = IF @ = "none" THEN "active" ELSE @]
           /\ UNCHANGED <<account, invitation>>
           /\ \E t \in Tokens : /\ NextToken(t)
                                /\ Signed(t, call[c].device, call[c].cred,
                                          call[c].cred # account.password)
<1>1. /\ call[c].pc = "touching" /\ call[c].lock = "update" /\ call[c].op = "login"
      /\ call[c].device \in Devices /\ call[c].cred \in Nat
  BY DEF CommitLogin, At, CallsTyped, CallRows, Shape
<1>2. \A t \in Tokens : t \in Nat
  BY SessionAssumption DEF Tokens
<1> DEFINE late == call[c].cred # account.password
<1>3. PICK t \in Tokens :
          /\ NextToken(t)
          /\ token' = [token EXCEPT ![t] = [Issued(c, t, call[c].cred) EXCEPT !.late = late]]
  BY DEF CommitLogin
<1>4. late \in BOOLEAN
  OBVIOUS
<1>5. Signed(t, call[c].device, call[c].cred, late)
  <2> HIDE DEF late
  <2> QED
    BY <1>1, <1>2, <1>3, <1>4, SignedRow
<1> QED
  BY <1>1, <1>3, <1>5 DEF CommitLogin

(***************************************************************************)
(* A rotation: the new row is the old one's, unused, and the old one is    *)
(* used unless this is a repeat.                                           *)
(***************************************************************************)
Cut(c, t) ==
    LET old == call[c].token IN
    /\ token' \in [Tokens -> TokenRows]
    /\ \A u \in Tokens \ {t, old} : token'[u] = token[u]
    /\ token'[t].family = token[old].family /\ token'[t].device = token[old].device
    /\ token'[t].cred = token[old].cred /\ token'[t].late = token[old].late
    /\ token'[t].parent = old /\ token'[t].grace = call[c].grace
    /\ ~token'[t].used /\ ~token'[t].revoked /\ ~token'[t].fresh
    /\ call[c].grace => token'[old] = token[old]
    /\ ~call[c].grace => /\ token'[old] = [token[old] EXCEPT !.used = TRUE, !.revoked = TRUE,
                                                             !.fresh = TRUE]
                         /\ token'[old].used /\ token'[old].revoked /\ token'[old].fresh
    /\ token'[old].family = token[old].family /\ token'[old].device = token[old].device
    /\ token'[old].cred = token[old].cred /\ token'[old].late = token[old].late
    /\ token'[old].parent = token[old].parent /\ token'[old].grace = token[old].grace

LEMMA RotationCuts ==
    ASSUME TablesTyped, CallsTyped, NEW c \in Calls, CommitRotation(c), CallHeld(c)
    PROVE  /\ call[c].pc = "touching" /\ call[c].lock = "update"
           /\ call[c].token \in Tokens /\ Exists(call[c].token)
           /\ call[c].token \in call[c].rows
           /\ call[c].device \in Devices /\ token[call[c].token].device = call[c].device
           /\ DeviceFree(c)
           /\ UNCHANGED <<account, device, invitation>>
           /\ \E t \in Tokens : NextToken(t) /\ t # call[c].token /\ Cut(c, t)
<1>1. /\ call[c].pc = "touching" /\ call[c].lock = "update" /\ call[c].op = "refresh"
      /\ call[c].token \in Tokens /\ call[c].token \in call[c].rows
      /\ call[c].device \in Devices /\ call[c].token \in Nat /\ call[c].grace \in BOOLEAN
  BY DEF CommitRotation, At, CallsTyped, CallRows, Shape
<1>2. RefreshHeld(c)
  BY <1>1 DEF CallHeld
<1> DEFINE old == call[c].token
<1>3. PICK t \in Tokens : NextToken(t) /\ token' = Rotated(c, t)
  BY DEF CommitRotation
<1>4. t # old
  BY <1>2, <1>3 DEF NextToken, RefreshHeld
<1>5. token[old] \in TokenRows
  BY <1>1 DEF TablesTyped
<1> DEFINE new == [token[old] EXCEPT !.parent = old, !.used = FALSE, !.revoked = FALSE,
                                     !.fresh = FALSE, !.grace = call[c].grace]
           spent == [token[old] EXCEPT !.used = TRUE, !.revoked = TRUE, !.fresh = TRUE]
<1>6. /\ new \in TokenRows
      /\ new.family = token[old].family /\ new.device = token[old].device
      /\ new.cred = token[old].cred /\ new.late = token[old].late
      /\ new.parent = old /\ new.grace = call[c].grace
      /\ ~new.used /\ ~new.revoked /\ ~new.fresh
  BY <1>1, <1>5 DEF TokenRows
<1>7. /\ spent \in TokenRows
      /\ spent.family = token[old].family /\ spent.device = token[old].device
      /\ spent.cred = token[old].cred /\ spent.late = token[old].late
      /\ spent.parent = token[old].parent /\ spent.grace = token[old].grace
      /\ spent.used /\ spent.revoked /\ spent.fresh
  BY <1>5 DEF TokenRows
<1>8. /\ token'[t] = new
      /\ token'[old] = IF call[c].grace THEN token[old] ELSE spent
      /\ \A u \in Tokens \ {t, old} : token'[u] = token[u]
      /\ DOMAIN token' = Tokens /\ token' = [u \in Tokens |-> token'[u]]
  BY <1>1, <1>3, <1>4 DEF Rotated
<1> HIDE DEF new
<1>9. token' \in [Tokens -> TokenRows]
  <2>1. \A u \in Tokens : token'[u] \in TokenRows
    BY <1>5, <1>6, <1>7, <1>8 DEF TablesTyped
  <2> QED
    BY <1>8, <2>1
<1>10. Cut(c, t)
  BY <1>1, <1>6, <1>7, <1>8, <1>9 DEF Cut
<1> QED
  BY <1>1, <1>2, <1>3, <1>4, <1>10 DEF RefreshHeld, CommitRotation

(***************************************************************************)
(* A bulk update or the end of a grace window changes no more than flags.  *)
(***************************************************************************)
Flagged ==
    /\ token' \in [Tokens -> TokenRows]
    /\ \A t \in Tokens :
        /\ token'[t].family = token[t].family /\ token'[t].parent = token[t].parent
        /\ token'[t].device = token[t].device /\ token'[t].grace = token[t].grace
        /\ token'[t].cred = token[t].cred /\ token'[t].late = token[t].late
        /\ token'[t].used = token[t].used
        /\ token[t].revoked => token'[t].revoked

LEMMA RevokedFlags ==
    ASSUME TablesTyped, NEW c \in Calls, token' = RowsRevoked(c)
    PROVE  /\ Flagged
           /\ \A t \in Tokens : token'[t].fresh = token[t].fresh
           /\ \A t \in call[c].rows \cap Tokens : token'[t].revoked
           /\ \A t \in Tokens \ call[c].rows : token'[t] = token[t]
<1>1. token \in [Tokens -> TokenRows]
  BY DEF TablesTyped
<1>2. /\ DOMAIN token' = Tokens /\ token' = [t \in Tokens |-> token'[t]]
      /\ \A t \in Tokens : token'[t] = IF t \in call[c].rows THEN [token[t] EXCEPT !.revoked = TRUE]
                                                             ELSE token[t]
  BY DEF RowsRevoked
<1>3. \A t \in Tokens :
          /\ token'[t] \in TokenRows
          /\ token'[t].family = token[t].family /\ token'[t].parent = token[t].parent
          /\ token'[t].device = token[t].device /\ token'[t].grace = token[t].grace
          /\ token'[t].cred = token[t].cred /\ token'[t].late = token[t].late
          /\ token'[t].used = token[t].used /\ token'[t].fresh = token[t].fresh
          /\ token[t].revoked => token'[t].revoked
          /\ t \in call[c].rows => token'[t].revoked
          /\ t \notin call[c].rows => token'[t] = token[t]
  <2> TAKE t \in Tokens
  <2>1. token[t] \in TokenRows
    BY <1>1
  <2>2. CASE t \in call[c].rows
    <3> DEFINE r == [token[t] EXCEPT !.revoked = TRUE]
    <3>1. token'[t] = r
      BY <1>2, <2>2
    <3>2. /\ r \in TokenRows /\ r.revoked
          /\ r.family = token[t].family /\ r.parent = token[t].parent
          /\ r.device = token[t].device /\ r.grace = token[t].grace
          /\ r.cred = token[t].cred /\ r.late = token[t].late
          /\ r.used = token[t].used /\ r.fresh = token[t].fresh
      BY <2>1 DEF TokenRows
    <3> HIDE DEF r
    <3> QED
      BY <2>2, <3>1, <3>2
  <2>3. CASE t \notin call[c].rows
    BY <1>2, <2>1, <2>3
  <2> QED
    BY <2>2, <2>3
<1> QED
  BY <1>2, <1>3 DEF Flagged

LEMMA GraceFlags ==
    ASSUME TablesTyped, NEW t \in Tokens, GraceEnds(t)
    PROVE  /\ Flagged
           /\ \A u \in Tokens : token'[u].revoked = token[u].revoked
BY DEF TablesTyped, GraceEnds, Flagged, TokenRows

LEMMA TokenChanges ==
    ASSUME TablesTyped, CallsTyped, \A c \in Calls : CallHeld(c), [Next]_vars
    PROVE  \/ UNCHANGED token
           \/ Flagged
           \/ \E t \in Tokens, d \in Devices, cred \in Nat, late \in BOOLEAN :
                  NextToken(t) /\ Signed(t, d, cred, late)
           \/ \E c \in Calls, t \in Tokens : /\ CommitRotation(c)
                                             /\ NextToken(t) /\ t # call[c].token
                                             /\ Cut(c, t)
<1> DEFINE Fresh == \E t \in Tokens, d \in Devices, cred \in Nat, late \in BOOLEAN :
                        NextToken(t) /\ Signed(t, d, cred, late)
<1>1. CASE UNCHANGED token
  BY <1>1
<1>2. ASSUME NEW c \in Calls, Activate(c) PROVE UNCHANGED token \/ Fresh
  <2>1. account.password + 1 \in Nat /\ FALSE \in BOOLEAN
    BY DEF TablesTyped, Accounts
  <2>2. CASE UNCHANGED token
    BY <2>2
  <2>3. ASSUME account' = [status |-> "active", password |-> account.password + 1],
               NEW t \in Tokens, NextToken(t), call[c].device \in Devices,
               Signed(t, call[c].device, account'.password, FALSE)
        PROVE  Fresh
    BY <2>1, <2>3
  <2> QED
    BY <1>2, <2>2, <2>3, ActivateSigns
<1>3. ASSUME NEW c \in Calls, CommitLogin(c) PROVE Fresh
  <2>1. call[c].cred \in Nat /\ call[c].device \in Devices
    BY <1>3, LoginSigns DEF CallsTyped, CallRows
  <2> DEFINE late == call[c].cred # account.password
  <2>2. PICK t \in Tokens : NextToken(t) /\ Signed(t, call[c].device, call[c].cred, late)
    BY <1>3, LoginSigns
  <2>3. late \in BOOLEAN
    OBVIOUS
  <2> HIDE DEF late
  <2> QED
    BY <2>1, <2>2, <2>3
<1>4. ASSUME NEW c \in Calls,
             CommitLogOut(c) \/ CommitPassword(c) \/ CommitDisable(c) \/ CommitReuse(c)
      PROVE  Flagged
  BY <1>4, RevokedFlags DEF CommitLogOut, CommitPassword, CommitDisable, CommitReuse
<1>5. CASE CreateAccount \/ EnableAccount \/ \E c \in Calls : WriteInvitation(c)
  BY <1>5 DEF CreateAccount, EnableAccount, WriteInvitation
<1>6. CASE Writes
  BY <1>2, <1>3, <1>4, <1>5, <1>6, RotationCuts, GraceFlags DEF Writes
<1> QED
  BY <1>1, <1>6, StepWrites

LEMMA SignedKeepsTokens ==
    ASSUME TablesTyped, TokensHeld, OneSuccessor,
           NEW t \in Tokens, NEW d \in Devices, NEW cred \in Nat, NEW late \in BOOLEAN,
           NextToken(t), Signed(t, d, cred, late)
    PROVE  /\ token' \in [Tokens -> TokenRows]
           /\ \A u \in Tokens : Exists(u)' => token'[u].device \in Devices
           /\ TokensHeld' /\ OneSuccessor'
<1>1. /\ ~Exists(t) /\ t \in Nat \ {0}
      /\ \A u \in Tokens : Exists(u) <=> u < t
      /\ \A u \in Tokens : Exists(u) => token[u].family \in 1 .. t - 1
  BY NextTokenIsLast
<1>2. token' \in [Tokens -> TokenRows]
  BY DEF TablesTyped, Signed
<1>3. \A u \in Tokens \ {t} : token'[u] = token[u]
  BY DEF TablesTyped, Signed
<1>4. /\ token'[t].family = t /\ token'[t].parent = 0 /\ token'[t].device = d
      /\ token'[t].cred = cred /\ token'[t].late = late
  BY DEF TablesTyped, Signed
<1>5. Exists(t)' /\ \A u \in Tokens \ {t} : Exists(u)' <=> Exists(u)
  BY <1>1, <1>3, <1>4 DEF Exists
<1>6. \A u \in Tokens : Exists(u)' => token'[u].device \in Devices
  BY <1>3, <1>4, <1>5 DEF TablesTyped
<1>7. \A u \in Tokens : u \in Nat
  BY SessionAssumption DEF Tokens
<1>8. \A u \in Tokens : Exists(u)' => token'[u].family \in 1 .. u
  <2>1. token'[t].family \in 1 .. t
    BY <1>1, <1>4
  <2> QED
    BY <1>3, <1>5, <2>1 DEF TokensHeld
<1>9. \A u, v \in Tokens : Exists(u)' /\ v < u => Exists(v)'
  BY <1>1, <1>5, <1>7
<1>10. \A u, v \in Tokens : Exists(u)' /\ v \in FamilyOf(u)' =>
          token'[v].cred = token'[u].cred /\ token'[v].late = token'[u].late
  BY <1>1, <1>3, <1>4, <1>5, <1>7 DEF TokensHeld, FamilyOf
<1>11. ParentsUsed'
  BY <1>1, <1>3, <1>4, <1>5 DEF TokensHeld, ParentsUsed
<1>12. OneSuccessor'
  BY <1>3, <1>4, <1>5 DEF OneSuccessor
<1> QED
  BY <1>2, <1>6, <1>8, <1>9, <1>10, <1>11, <1>12 DEF TokensHeld

LEMMA CutKeepsTokens ==
    ASSUME TablesTyped, CallsTyped, TokensHeld, OneSuccessor,
           NEW c \in Calls, NEW t \in Tokens, CommitRotation(c), CallHeld(c),
           NextToken(t), t # call[c].token, Cut(c, t)
    PROVE  /\ token' \in [Tokens -> TokenRows]
           /\ \A u \in Tokens : Exists(u)' => token'[u].device \in Devices
           /\ TokensHeld' /\ OneSuccessor'
<1> DEFINE old == call[c].token
<1>1. /\ ~Exists(t) /\ t \in Nat \ {0}
      /\ \A u \in Tokens : Exists(u) <=> u < t
  BY NextTokenIsLast
<1>2. /\ old \in Tokens /\ Exists(old) /\ (~call[c].grace => ~token[old].used)
      /\ call[c].grace \in BOOLEAN
  <2>1. call[c].op = "refresh" /\ call[c].pc = "touching"
    BY DEF CommitRotation, At
  <2>2. RefreshHeld(c) /\ old \in Tokens /\ call[c].grace \in BOOLEAN
    BY <2>1 DEF CallHeld, CallsTyped, CallRows, Shape
  <2> QED
    BY <2>1, <2>2 DEF RefreshHeld, Spent
<1>3. \A u \in Tokens : u \in Nat
  BY SessionAssumption DEF Tokens
<1>4. /\ token' \in [Tokens -> TokenRows]
      /\ \A u \in Tokens \ {t, old} : token'[u] = token[u]
      /\ token'[t].family = token[old].family /\ token'[t].device = token[old].device
      /\ token'[t].cred = token[old].cred /\ token'[t].late = token[old].late
      /\ token'[t].parent = old /\ token'[t].grace = call[c].grace
      /\ call[c].grace => token'[old] = token[old]
      /\ ~call[c].grace => token'[old].used
      /\ token'[old].family = token[old].family /\ token'[old].device = token[old].device
      /\ token'[old].cred = token[old].cred /\ token'[old].late = token[old].late
      /\ token'[old].parent = token[old].parent /\ token'[old].grace = token[old].grace
  BY DEF Cut
<1> HIDE DEF old
<1>5. Exists(t)' /\ \A u \in Tokens \ {t} : Exists(u)' <=> Exists(u)
  BY <1>2, <1>4 DEF Exists
<1>6. /\ \A u \in Tokens : Exists(u)' => token'[u].device \in Devices
      /\ \A u \in Tokens \ {t} : /\ token'[u].family = token[u].family
                                 /\ token'[u].cred = token[u].cred
                                 /\ token'[u].late = token[u].late
                                 /\ token'[u].parent = token[u].parent
                                 /\ token'[u].grace = token[u].grace
                                 /\ token[u].used => token'[u].used
  BY <1>2, <1>4, <1>5 DEF TablesTyped
<1>7. \A u \in Tokens : Exists(u)' => token'[u].family \in 1 .. u
  <2>1. token[old].family \in 1 .. old /\ old < t
    BY <1>1, <1>2 DEF TokensHeld
  <2>2. token'[t].family \in 1 .. t
    BY <1>2, <1>3, <1>4, <2>1
  <2> QED
    BY <1>5, <1>6, <2>2 DEF TokensHeld
<1>8. \A u, v \in Tokens : Exists(u)' /\ v < u => Exists(v)'
  BY <1>1, <1>3, <1>5
<1>9. \A u, v \in Tokens : Exists(u)' /\ v \in FamilyOf(u)' =>
          token'[v].cred = token'[u].cred /\ token'[v].late = token'[u].late
  <2> SUFFICES ASSUME NEW u \in Tokens, NEW v \in Tokens, Exists(u)', v \in FamilyOf(u)'
               PROVE  token'[v].cred = token'[u].cred /\ token'[v].late = token'[u].late
    OBVIOUS
  <2> DEFINE source(w) == IF w = t THEN old ELSE w
  <2>1. \A w \in {u, v} : /\ source(w) \in Tokens /\ Exists(source(w))
                          /\ token[source(w)].family = token'[w].family
                          /\ token[source(w)].cred = token'[w].cred
                          /\ token[source(w)].late = token'[w].late
    BY <1>2, <1>4, <1>5, <1>6 DEF FamilyOf
  <2>2. source(v) \in FamilyOf(source(u))
    BY <2>1 DEF FamilyOf
  <2> HIDE DEF source
  <2> QED
    BY <2>1, <2>2 DEF TokensHeld
<1>10. ParentsUsed'
  <2> SUFFICES ASSUME NEW u \in Tokens, Exists(u)', ~token'[u].grace, token'[u].parent # 0
               PROVE  \E p \in Tokens : p = token'[u].parent /\ Exists(p)' /\ token'[p].used
    BY DEF ParentsUsed
  <2>1. CASE u = t
    BY <1>1, <1>2, <1>4, <1>5, <2>1
  <2>2. CASE u # t
    <3>1. PICK p \in Tokens : p = token[u].parent /\ Exists(p) /\ token[p].used
      BY <1>5, <1>6, <2>2 DEF TokensHeld, ParentsUsed
    <3>2. p # t
      BY <1>1, <3>1
    <3> QED
      BY <1>5, <1>6, <2>2, <3>1, <3>2
  <2> QED
    BY <2>1, <2>2
<1>11. ASSUME NEW u \in Tokens, u # t, Exists(u)', ~token'[u].grace, token'[u].parent = old,
              ~token'[t].grace
       PROVE  FALSE
  BY <1>2, <1>3, <1>4, <1>5, <1>6, <1>11, SessionAssumption DEF TokensHeld, ParentsUsed, Tokens
<1>12. OneSuccessor'
  BY <1>4, <1>5, <1>6, <1>11 DEF OneSuccessor
<1> QED
  BY <1>4, <1>6, <1>7, <1>8, <1>9, <1>10, <1>12 DEF TokensHeld

LEMMA FlaggedKeepsTokens ==
    ASSUME TablesTyped, TokensHeld, OneSuccessor, Flagged
    PROVE  /\ token' \in [Tokens -> TokenRows]
           /\ \A u \in Tokens : Exists(u)' => token'[u].device \in Devices
           /\ TokensHeld' /\ OneSuccessor'
<1>1. \A u \in Tokens : Exists(u)' <=> Exists(u)
  BY DEF Flagged, Exists
<1>2. \A u, v \in Tokens : v \in FamilyOf(u)' <=> v \in FamilyOf(u)
  BY <1>1 DEF Flagged, FamilyOf
<1>3. TokensHeld'
  BY <1>1, <1>2 DEF Flagged, TokensHeld, ParentsUsed
<1>4. OneSuccessor'
  BY <1>1 DEF Flagged, OneSuccessor
<1> QED
  BY <1>1, <1>3, <1>4 DEF Flagged, TablesTyped

LEMMA TokensStep ==
    ASSUME TablesTyped, CallsTyped, TokensHeld, OneSuccessor, \A c \in Calls : CallHeld(c),
           [Next]_vars
    PROVE  /\ token' \in [Tokens -> TokenRows]
           /\ \A u \in Tokens : Exists(u)' => token'[u].device \in Devices
           /\ TokensHeld' /\ OneSuccessor'
<1>1. CASE UNCHANGED token
  BY <1>1 DEF TablesTyped, TokensHeld, ParentsUsed, OneSuccessor, Exists, FamilyOf
<1> QED
  BY <1>1, TokenChanges, SignedKeepsTokens, CutKeepsTokens, FlaggedKeepsTokens

-----------------------------------------------------------------------------
(***************************************************************************)
(* What a call knows stays true while the others go on, because of the     *)
(* locks it holds.                                                         *)
(***************************************************************************)
LEMMA OthersAreFree ==
    ASSUME CallsTyped, LocksAreExclusive, NEW b \in Calls, NEW c \in Calls, b # c
    PROVE  /\ call[b].lock # "none" => call[c].lock = "none"
           /\ UserFree(c) => call[b].lock = "none"
           /\ UserReferable(c) => call[b].lock # "update"
           /\ call[b].lock = "none" => /\ call[b].pc # "touching" /\ call[b].op # "disable"
                                       /\ call[b].op = "password" => call[b].pc \notin Revoking
           /\ call[b].lock # "update" => call[b].pc # "touching" /\ call[b].op # "disable"
           /\ \A t \in call[b].rows : t \notin call[c].rows
BY DEF LocksAreExclusive, UserFree, UserReferable, Others, CallsTyped, Shape

LEMMA HeldBySameTables ==
    ASSUME NEW b \in Calls, CallHeld(b), call'[b] = call[b],
           UNCHANGED <<account, device, token>>,
           call[b].pc = "activating" => invitation' = invitation \/
               invitation' = [invitation EXCEPT !.status = "expired"],
           invitation \in Invitations
    PROVE  CallHeld(b)'
BY DEF CallHeld, RefreshHeld, Covers, Reached, Exists, OfDevice, Spent, Invitations

(***************************************************************************)
(* Facts that depend on one table each.                                    *)
(***************************************************************************)
LEMMA HeldByParts ==
    ASSUME NEW b \in Calls, CallHeld(b), call'[b] = call[b], Shape(call[b]),
           call[b].lock = "update" => account'.status = "active",
           call[b].pc = "touching" => UNCHANGED device,
           call[b].op = "revokeDevice" => device'[call[b].device] # "none",
           call[b].op = "refresh" =>
               LET t == call[b].token IN
               /\ Exists(t)' /\ token'[t].device = token[t].device
               /\ Spent(t) <=> Spent(t)'
               /\ token'[t].cred = token[t].cred /\ token'[t].late = token[t].late
               /\ call[b].pc \in {"rotating", "touching"} => account'.password = account.password,
           call[b].pc = "updating" =>
               \A t \in Tokens : Exists(t)' /\ Covers(b, t)' => Exists(t) /\ Covers(b, t),
           call[b].pc = "activating" => UNCHANGED invitation
    PROVE  CallHeld(b)'
<1>1. call[b].op = "refresh" => RefreshHeld(b)'
  BY DEF CallHeld, RefreshHeld
<1>2. Reached(b)' = Reached(b)
  BY DEF Reached
<1> QED
  BY <1>1, <1>2 DEF CallHeld

LEMMA EndsElsewhere ==
    ASSUME CallsTyped, NEW b \in Calls, NEW c \in Calls, Ends(c), ~At(c, "idle"),
           call'[b] = call[b]
    PROVE  b # c
BY DEF Ends, CallsTyped, At, Idle

LEMMA SignedElsewhere ==
    ASSUME TablesTyped, TokensHeld, NEW b \in Calls, CallHeld(b), call'[b] = call[b],
           Shape(call[b]), call[b].lock = "none",
           NEW t \in Tokens, NEW d \in Devices, NEW cred \in Nat, NEW late \in BOOLEAN,
           NextToken(t), Signed(t, d, cred, late),
           call[b].op = "revokeDevice" => call[b].device # d /\ device'[call[b].device] # "none",
           call[b].op = "refresh" /\ call[b].pc = "rotating" =>
                account'.password = account.password,
           call[b].pc = "activating" => UNCHANGED invitation
    PROVE  CallHeld(b)'
<1>1. ~Exists(t)
  BY NextTokenIsLast
<1>2. \A u \in Tokens \ {t} : token'[u] = token[u]
  BY DEF TablesTyped, Signed
<1>3. token'[t].device = d
  BY DEF TablesTyped, Signed
<1>4. \A u \in Tokens \ {t} : Exists(u)' <=> Exists(u)
  BY <1>2 DEF Exists
<1>5. call[b].pc # "touching"
  BY DEF Shape
<1>6. ASSUME call[b].op = "refresh"
      PROVE  LET u == call[b].token IN
             /\ Exists(u)' /\ token'[u].device = token[u].device
             /\ Spent(u) <=> Spent(u)'
             /\ token'[u].cred = token[u].cred /\ token'[u].late = token[u].late
             /\ call[b].pc \in {"rotating", "touching"} => account'.password = account.password
  <2>1. call[b].token \in Tokens /\ Exists(call[b].token)
    BY <1>6 DEF CallHeld, RefreshHeld, Shape
  <2>2. token'[call[b].token] = token[call[b].token]
    BY <1>1, <1>2, <2>1
  <2> QED
    BY <1>5, <1>6, <2>1, <2>2 DEF Exists, Spent
<1>7. ASSUME call[b].pc = "updating", NEW u \in Tokens, Exists(u)', Covers(b, u)'
      PROVE  Exists(u) /\ Covers(b, u)
  <2>1. call[b].op \notin {"disable", "password"}
    BY <1>7 DEF Shape, Revoking
  <2>2. call[b].op = "revokeDevice" /\ token'[u].device = call[b].device
    BY <1>7, <2>1 DEF Covers
  <2>3. u # t
    BY <1>3, <2>2
  <2> QED
    BY <1>2, <1>4, <1>7, <2>2, <2>3 DEF Covers
<1> QED
  BY <1>5, <1>6, <1>7, HeldByParts

LEMMA LoginElsewhere ==
    ASSUME TablesTyped, CallsTyped, LocksAreExclusive, TokensHeld, NEW b \in Calls, CallHeld(b),
           call'[b] = call[b], NEW c \in Calls, CommitLogin(c)
    PROVE  CallHeld(b)'
<1>1. b # c
  BY EndsElsewhere DEF CommitLogin, At
<1>2. /\ call[c].lock = "update" /\ call[c].device \in Devices /\ call[c].cred \in Nat
      /\ DeviceFree(c)
      /\ device' = [device EXCEPT ![call[c].device] = IF @ = "none" THEN "active" ELSE @]
      /\ UNCHANGED <<account, invitation>>
  BY LoginSigns DEF CallsTyped, CallRows
<1> DEFINE late == call[c].cred # account.password
<1>3. PICK t \in Tokens : NextToken(t) /\ Signed(t, call[c].device, call[c].cred, late)
  BY LoginSigns
<1>4. late \in BOOLEAN
  OBVIOUS
<1> HIDE DEF late
<1>5. call[b].lock = "none" /\ Shape(call[b])
  BY <1>1, <1>2, OthersAreFree DEF CallsTyped
<1>6. call[b].op = "revokeDevice" =>
          call[b].device # call[c].device /\ device'[call[b].device] # "none"
  BY <1>1, <1>2, <1>5 DEF DeviceFree, Others, CallHeld, Shape, TablesTyped
<1> QED
  BY <1>2, <1>3, <1>4, <1>5, <1>6, SignedElsewhere

LEMMA ActivateElsewhere ==
    ASSUME TablesTyped, CallsTyped, LocksAreExclusive, TokensHeld, NewAccountIsEmpty,
           OneActivation, NEW b \in Calls, CallHeld(b),
           call'[b] = call[b], NEW c \in Calls, Activate(c)
    PROVE  CallHeld(b)'
<1>1. b # c
  BY EndsElsewhere DEF Activate, At
<1>2. CASE UNCHANGED <<account, device, token, invitation>>
  BY <1>2, HeldBySameTables DEF TablesTyped
<1>3. CASE /\ account.status = "pending"
           /\ UserFree(c)
           /\ call[c].pc = "activating"
           /\ call[c].device \in Devices
           /\ account' = [status |-> "active", password |-> account.password + 1]
           /\ device' = [device EXCEPT ![call[c].device] = "active"]
           /\ invitation' = [invitation EXCEPT !.status = "used"]
           /\ \E t \in Tokens : NextToken(t) /\ Signed(t, call[c].device, account'.password, FALSE)
  <2>1. call[b].lock = "none" /\ Shape(call[b])
    BY <1>1, <1>3, OthersAreFree DEF CallsTyped
  <2>2. \A t \in Tokens : ~Exists(t)
    BY <1>3 DEF NewAccountIsEmpty, NeverActive
  <2>3. call[b].op # "refresh" /\ call[b].op # "revokeDevice"
    BY <1>3, <2>1, <2>2 DEF CallHeld, RefreshHeld, Shape, NewAccountIsEmpty, NeverActive
  <2>4. call[b].pc # "activating"
    BY <1>1, <1>3 DEF OneActivation, At
  <2>5. account'.password \in Nat /\ FALSE \in BOOLEAN
    BY <1>3 DEF TablesTyped, Accounts
  <2> QED
    BY <1>3, <2>1, <2>3, <2>4, <2>5, SignedElsewhere
<1> QED
  BY <1>2, <1>3, ActivateSigns

LEMMA RotationElsewhere ==
    ASSUME TablesTyped, CallsTyped, LocksAreExclusive, TokensHeld, NEW b \in Calls, CallHeld(b),
           call'[b] = call[b], NEW c \in Calls, CommitRotation(c), CallHeld(c)
    PROVE  CallHeld(b)'
<1>1. b # c
  BY EndsElsewhere DEF CommitRotation, At
<1> DEFINE old == call[c].token
<1>2. /\ call[c].lock = "update" /\ call[c].device \in Devices
      /\ old \in Tokens /\ Exists(old) /\ old \in call[c].rows
      /\ token[old].device = call[c].device
      /\ DeviceFree(c)
      /\ UNCHANGED <<account, device, invitation>>
  BY RotationCuts
<1>3. PICK t \in Tokens : NextToken(t) /\ t # old /\ Cut(c, t)
  BY RotationCuts
<1>4. ~Exists(t)
  BY <1>3, NextTokenIsLast
<1>5. /\ \A u \in Tokens \ {t, old} : token'[u] = token[u]
      /\ token'[t].device = call[c].device
      /\ token'[old].device = call[c].device /\ token'[old].family = token[old].family
  BY <1>2, <1>3 DEF Cut
<1>6. call[b].lock = "none" /\ Shape(call[b])
  BY <1>1, <1>2, OthersAreFree DEF CallsTyped
<1>7. call[b].pc # "touching"
  BY <1>6 DEF Shape
<1>8. ASSUME call[b].op = "refresh"
      PROVE  LET u == call[b].token IN
             /\ Exists(u)' /\ token'[u].device = token[u].device
             /\ Spent(u) <=> Spent(u)'
             /\ token'[u].cred = token[u].cred /\ token'[u].late = token[u].late
             /\ call[b].pc \in {"rotating", "touching"} => account'.password = account.password
  <2>1. call[b].token \in Tokens /\ Exists(call[b].token) /\ call[b].token \in call[b].rows
    BY <1>6, <1>8 DEF CallHeld, RefreshHeld, Shape
  <2>2. call[b].token # old /\ call[b].token # t
    BY <1>1, <1>2, <1>4, <2>1, OthersAreFree
  <2>3. token'[call[b].token] = token[call[b].token]
    BY <1>5, <2>1, <2>2
  <2> QED
    BY <1>2, <1>8, <2>1, <2>3 DEF Exists, Spent
<1>9. ASSUME call[b].pc = "updating", NEW u \in Tokens, Exists(u)', Covers(b, u)'
      PROVE  Exists(u) /\ Covers(b, u)
  <2>1. call[b].op \notin {"disable", "password"}
    BY <1>6, <1>9 DEF Shape, Revoking
  <2>2. call[b].op = "revokeDevice" /\ token'[u].device = call[b].device
    BY <1>9, <2>1 DEF Covers
  <2>3. call[b].device # call[c].device
    BY <1>1, <1>2, <1>6, <2>2 DEF DeviceFree, Others, Shape
  <2>4. u # t /\ u # old
    BY <1>5, <2>2, <2>3
  <2>5. token'[u] = token[u]
    BY <1>5, <2>4
  <2> QED
    BY <1>9, <2>2, <2>5 DEF Covers, Exists
<1> QED
  BY <1>2, <1>6, <1>7, <1>8, <1>9, HeldByParts DEF CallHeld

LEMMA RevocationElsewhere ==
    ASSUME TablesTyped, CallsTyped, LocksAreExclusive, NEW b \in Calls, CallHeld(b),
           call'[b] = call[b], NEW c \in Calls, CallHeld(c),
           CommitLogOut(c) \/ CommitPassword(c) \/ CommitDisable(c) \/ CommitReuse(c)
    PROVE  CallHeld(b)'
<1>1. /\ b # c /\ token' = RowsRevoked(c) /\ UNCHANGED invitation
      /\ call[c].pc = "updating" /\ call[c].todo = {} /\ Shape(call[b]) /\ Shape(call[c])
  BY EndsElsewhere DEF CommitLogOut, CommitPassword, CommitDisable, CommitReuse, Updated, At,
     CallsTyped
<1>2. Flagged /\ \A t \in Tokens \ call[c].rows : token'[t] = token[t]
  BY <1>1, RevokedFlags
<1>3. \A t \in Tokens : Exists(t)' <=> Exists(t)
  BY <1>2 DEF Flagged, Exists
<1>4. call[b].lock = "update" => account'.status = "active"
  <2>1. ASSUME call[b].lock = "update" PROVE call[c].lock = "none"
    BY <1>1, <2>1, OthersAreFree
  <2>2. CASE CommitDisable(c)
    BY <1>1, <2>1, <2>2 DEF CommitDisable, Shape
  <2>3. CASE CommitPassword(c)
    BY <1>1, <2>1, <2>3 DEF CommitPassword, Shape, Revoking
  <2>4. CASE CommitLogOut(c) \/ CommitReuse(c)
    BY <2>4 DEF CommitLogOut, CommitReuse, CallHeld
  <2> QED
    BY <2>2, <2>3, <2>4
<1>5. call[b].pc = "touching" => UNCHANGED device
  <2>1. CASE CommitLogOut(c) /\ call[c].op = "revokeDevice"
    <3>1. UserReferable(c)
      BY <2>1 DEF CommitLogOut, Auditable
    <3> QED
      BY <1>1, <3>1, OthersAreFree
  <2>2. CASE ~(CommitLogOut(c) /\ call[c].op = "revokeDevice")
    BY <2>2 DEF CommitLogOut, CommitPassword, CommitDisable, CommitReuse
  <2> QED
    BY <2>1, <2>2
<1>6. call[b].op = "revokeDevice" => device'[call[b].device] # "none"
  <2>1. \A d \in Devices : device[d] # "none" => device'[d] # "none"
    BY DEF CommitLogOut, CommitPassword, CommitDisable, CommitReuse, TablesTyped
  <2> QED
    BY <1>1, <2>1 DEF CallHeld, Shape
<1>7. ASSUME call[b].op = "refresh"
      PROVE  LET u == call[b].token IN
             /\ Exists(u)' /\ token'[u].device = token[u].device
             /\ Spent(u) <=> Spent(u)'
             /\ token'[u].cred = token[u].cred /\ token'[u].late = token[u].late
             /\ call[b].pc \in {"rotating", "touching"} => account'.password = account.password
  <2>1. call[b].token \in Tokens /\ Exists(call[b].token) /\ call[b].token \in call[b].rows
    BY <1>1, <1>7 DEF CallHeld, RefreshHeld, Shape
  <2>2. call[b].token \notin call[c].rows
    BY <1>1, <2>1, OthersAreFree
  <2>3. token'[call[b].token] = token[call[b].token]
    BY <1>2, <2>1, <2>2
  <2>4. account'.password = account.password
    <3>1. CASE CommitPassword(c)
      BY <1>1, <2>1, <2>2, <3>1 DEF CommitPassword, CallHeld, Covers, Reached
    <3>2. CASE ~CommitPassword(c)
      BY <3>2 DEF CommitLogOut, CommitDisable, CommitReuse, TablesTyped, Accounts
    <3> QED
      BY <3>1, <3>2
  <2> QED
    BY <1>3, <1>7, <2>1, <2>3, <2>4 DEF Exists, Spent
<1>8. ASSUME call[b].pc = "updating", NEW u \in Tokens, Exists(u)', Covers(b, u)'
      PROVE  Exists(u) /\ Covers(b, u)
  BY <1>2, <1>3, <1>8 DEF Covers, Flagged
<1> QED
  BY <1>1, <1>4, <1>5, <1>6, <1>7, <1>8, HeldByParts

LEMMA AccountElsewhere ==
    ASSUME TablesTyped, CallsTyped, NewAccountIsEmpty, NEW b \in Calls, CallHeld(b),
           call'[b] = call[b],
           CreateAccount \/ EnableAccount \/ \E c \in Calls : WriteInvitation(c)
    PROVE  CallHeld(b)'
<1>1. UNCHANGED <<device, token>> /\ Shape(call[b])
  BY DEF CreateAccount, EnableAccount, WriteInvitation, CallsTyped
<1>2. call[b].lock = "update" => account'.status = "active"
  BY DEF CreateAccount, EnableAccount, WriteInvitation, CallHeld, TablesTyped, Accounts
<1>3. call[b].op = "refresh" => account'.password = account.password
  <2>1. call[b].op = "refresh" => ~NeverActive
    BY <1>1 DEF NewAccountIsEmpty, CallHeld, RefreshHeld, Shape
  <2> QED
    BY <2>1 DEF CreateAccount, EnableAccount, WriteInvitation, NeverActive, TablesTyped, Accounts
<1>4. call[b].pc = "activating" => UNCHANGED invitation
  BY DEF CreateAccount, EnableAccount, WriteInvitation, InvitationFree, At
<1> QED
  BY <1>1, <1>2, <1>3, <1>4, HeldByParts DEF CallHeld, RefreshHeld, Exists, Spent, Covers

LEMMA GraceElsewhere ==
    ASSUME TablesTyped, CallsTyped, NEW b \in Calls, CallHeld(b),
           NEW t \in Tokens, GraceEnds(t)
    PROVE  CallHeld(b)'
<1>1. /\ Flagged /\ \A u \in Tokens : token'[u].revoked = token[u].revoked
      /\ UNCHANGED <<account, device, invitation, call>>
  BY GraceFlags DEF GraceEnds
<1>2. \A u \in Tokens : Exists(u)' <=> Exists(u)
  BY <1>1 DEF Flagged, Exists
<1>3. Shape(call[b]) /\ call'[b] = call[b]
  BY <1>1 DEF CallsTyped
<1>4. ASSUME call[b].op = "refresh"
      PROVE  LET u == call[b].token IN
             /\ Exists(u)' /\ token'[u].device = token[u].device
             /\ Spent(u) <=> Spent(u)'
             /\ token'[u].cred = token[u].cred /\ token'[u].late = token[u].late
             /\ call[b].pc \in {"rotating", "touching"} => account'.password = account.password
  <2>1. call[b].token \in Tokens /\ Exists(call[b].token)
    BY <1>3, <1>4 DEF CallHeld, RefreshHeld, Shape
  <2> QED
    BY <1>1, <1>3, <2>1 DEF Exists, Spent, Flagged
<1>5. ASSUME call[b].pc = "updating", NEW u \in Tokens, Exists(u)', Covers(b, u)'
      PROVE  Exists(u) /\ Covers(b, u)
  BY <1>1, <1>2, <1>5 DEF Covers, Flagged
<1> QED
  BY <1>1, <1>3, <1>4, <1>5, HeldByParts DEF CallHeld

LEMMA InvitationElsewhere ==
    ASSUME [Next]_vars, UNCHANGED <<account, device, token>>, OneActivation, CallsTyped,
           NEW b \in Calls, call[b].pc = "activating", call'[b] = call[b], TablesTyped
    PROVE  invitation' = invitation \/ invitation' = [invitation EXCEPT !.status = "expired"]
<1>1. ASSUME NEW c \in Calls, Begin(c) PROVE UNCHANGED invitation
  BY <1>1 DEF Begin, CheckInvitee, LockInvitation, CheckPassword, LogOut, LogOutByToken,
              RevokeDevice, LockAccess, LockToken, CheckOldPassword, DisableAccount
<1>2. ASSUME NEW c \in Calls, Activate(c) PROVE UNCHANGED invitation
  <2>1. b # c
    BY <1>2, EndsElsewhere DEF Activate, At
  <2>2. call[c].pc # "activating"
    BY <2>1 DEF OneActivation, At
  <2> QED
    BY <1>2, <2>2, ActivateSigns
<1>3. ASSUME NEW c \in Calls, Continue(c) PROVE UNCHANGED invitation
  BY <1>2, <1>3 DEF Continue, WriteInvitation, InvitationFree, At, LockLogin, CommitLogin,
     LockUser, CommitRotation, UpdatePassword, BeginUpdate, UpdateRow, CommitLogOut,
     CommitPassword, CommitDisable, CommitReuse, CommitAccess
<1>4. CASE RevokeInvitation \/ ResendInvitation \/ InvitationExpires
  BY <1>4 DEF RevokeInvitation, ResendInvitation, InvitationExpires, InvitationFree, At
<1>5. CASE \/ CreateAccount \/ EnableAccount \/ DeadlockBroken \/ (\E c \in Calls : Fails(c))
           \/ (\E t \in Tokens : GraceEnds(t)) \/ UNCHANGED vars
  BY <1>5 DEF CreateAccount, EnableAccount, DeadlockBroken, Fails, RolledBack, GraceEnds, vars
<1> QED
  BY <1>1, <1>3, <1>4, <1>5 DEF Next

LEMMA HeldElsewhere ==
    ASSUME TablesTyped, CallsTyped, LocksAreExclusive, TokensHeld, NewAccountIsEmpty,
           OneActivation, \A c \in Calls : CallHeld(c), [Next]_vars,
           NEW b \in Calls, call'[b] = call[b]
    PROVE  CallHeld(b)'
<1>1. CASE UNCHANGED <<account, device, token>>
  BY <1>1, InvitationElsewhere, HeldBySameTables DEF TablesTyped
<1>2. CASE Writes
  <2>1. ASSUME NEW c \in Calls,
               \/ WriteInvitation(c) \/ Activate(c) \/ CommitLogin(c) \/ CommitRotation(c)
               \/ CommitLogOut(c) \/ CommitPassword(c) \/ CommitDisable(c) \/ CommitReuse(c)
        PROVE  CallHeld(b)'
    BY <2>1, AccountElsewhere, ActivateElsewhere, LoginElsewhere, RotationElsewhere,
       RevocationElsewhere
  <2> QED
    BY <1>2, <2>1, AccountElsewhere, GraceElsewhere DEF Writes
<1> QED
  BY <1>1, <1>2, StepWrites

(***************************************************************************)
(* What a call learns by its own step.                                     *)
(***************************************************************************)
LEMMA IdleHeld ==
    ASSUME NEW c \in Calls, CallsTyped, Ends(c)
    PROVE  CallHeld(c)'
BY DEF CallHeld, Ends, CallsTyped, Idle

LEMMA BeginHeld ==
    ASSUME TablesTyped, CallsTyped, TokensHeld, Sessionless, NEW c \in Calls, Begin(c)
    PROVE  CallHeld(c)'
<1>1. CASE CheckInvitee(c) \/ CheckOldPassword(c) \/ \E d \in Devices : CheckPassword(c, d)
  <2>1. CASE CheckInvitee(c) \/ CheckOldPassword(c)
    <3>1. /\ call'[c].op \in {"invite", "password"} /\ call'[c].lock = "none"
          /\ call'[c].pc \in {"inviting", "changing"}
      BY <2>1 DEF CheckInvitee, CheckOldPassword, Begins, CallsTyped, Idle
    <3> QED
      BY <3>1 DEF CallHeld
  <2>2. ASSUME NEW d \in Devices, CheckPassword(c, d) PROVE CallHeld(c)'
    <3>1. /\ call'[c].op = "login" /\ call'[c].pc = "checked"
          /\ call'[c].lock = "none" /\ call'[c].rows = {}
      BY <2>2 DEF CheckPassword, CallsTyped, Idle
    <3> QED
      BY <3>1 DEF CallHeld
  <2> QED
    BY <1>1, <2>1, <2>2
<1>2. CASE DisableAccount(c)
  BY <1>2 DEF DisableAccount, CallHeld, CallsTyped, Idle
<1>3. ASSUME NEW d \in Devices, LogOut(c, d) \/ LogOutByToken(c, d) PROVE CallHeld(c)'
  <2>1. /\ call'[c].op \in {"logout", "webLogout"} /\ call'[c].pc = "updating"
        /\ call'[c].lock = "none"
    BY <1>3 DEF LogOut, LogOutByToken, CallsTyped, Idle
  <2> QED
    BY <2>1 DEF CallHeld, Covers
<1>4. ASSUME NEW d \in Devices, RevokeDevice(c, d) \/ LockAccess(c, d) PROVE CallHeld(c)'
  <2>1. CASE RevokeDevice(c, d)
    <3>1. /\ call'[c].op = "revokeDevice" /\ call'[c].pc = "revoking"
          /\ call'[c].device = d /\ call'[c].lock = "none"
      BY <2>1 DEF RevokeDevice, CallsTyped, Idle
    <3> QED
      BY <2>1, <3>1 DEF RevokeDevice, CallHeld
  <2>2. CASE LockAccess(c, d)
    <3>1. call'[c].op = "access" /\ call'[c].pc = "touching" /\ call'[c].device = d
      BY <2>2 DEF LockAccess, CallsTyped, Idle
    <3> QED
      BY <2>2, <3>1 DEF LockAccess, CallHeld
  <2> QED
    BY <1>4, <2>1, <2>2
<1>5. ASSUME NEW v \in 1 .. MaxInvitations, NEW d \in Devices, LockInvitation(c, v, d)
      PROVE  CallHeld(c)'
  BY <1>5 DEF LockInvitation, Redeemable, CallHeld, CallsTyped, Idle
<1>6. ASSUME NEW t \in Tokens, LockToken(c, t) PROVE CallHeld(c)'
  <2> DEFINE pc == IF Rotates(t) THEN "rotating" ELSE "revoking"
             r == [Idle EXCEPT !.op = "refresh", !.token = t, !.device = token[t].device,
                               !.rows = {t}, !.grace = Spent(t), !.pc = pc]
  <2>1. call'[c] = r /\ Exists(t) /\ UNCHANGED <<account, device, token>>
    BY <1>6 DEF LockToken, CallsTyped
  <2>2. /\ r.op = "refresh" /\ r.pc = pc /\ r.token = t /\ r.device = token[t].device
        /\ r.grace = Spent(t) /\ r.lock = "none"
    BY DEF Idle
  <2>3. pc = "rotating" => token[t].cred = account.password \/ token[t].late
    <3> SUFFICES ASSUME Rotates(t) PROVE token[t].cred = account.password \/ token[t].late
      OBVIOUS
    <3>1. CASE ~Spent(t)
      BY <2>1, <3>1 DEF Spent, Live, Sessionless, OldPasswordHasNoSession
    <3>2. CASE Spent(t)
      <4>1. Cardinality({u \in FamilyOf(t) : Live(u)}) # 0
        BY <3>2 DEF Rotates, Healthy
      <4>2. PICK u \in FamilyOf(t) : Live(u)
        BY <4>1, FS_EmptySet
      <4>3. token[u].cred = account.password \/ token[u].late
        BY <4>2 DEF FamilyOf, Sessionless, OldPasswordHasNoSession
      <4> QED
        BY <2>1, <4>2, <4>3 DEF TokensHeld, FamilyOf
    <3> QED
      BY <3>1, <3>2
  <2>4. pc \in {"rotating", "revoking"}
    OBVIOUS
  <2> HIDE DEF pc, r
  <2>5. RefreshHeld(c)'
    BY <2>1, <2>2, <2>3, <2>4 DEF RefreshHeld, Exists, Spent
  <2> QED
    BY <2>1, <2>2, <2>4, <2>5 DEF CallHeld
<1> QED
  BY <1>1, <1>2, <1>3, <1>4, <1>5, <1>6 DEF Begin

LEMMA ContinueHeld ==
    ASSUME TablesTyped, CallsTyped, NEW c \in Calls, CallHeld(c), Continue(c)
    PROVE  CallHeld(c)'
<1> DEFINE old == call[c]
<1>1. Shape(old) /\ old \in CallRows
  BY DEF CallsTyped
<1>2. CASE Ends(c)
  BY <1>2, IdleHeld
<1>3. CASE ~Ends(c) /\ (LockLogin(c) \/ LockUser(c))
  <2>1. /\ call'[c] = [old EXCEPT !.pc = "touching", !.lock = "update"]
        /\ old.pc \in {"checked", "rotating"}
        /\ account.status = "active" /\ device[old.device] # "revoked"
        /\ old.pc = "rotating" => device[old.device] = "active"
        /\ UNCHANGED <<account, device, token, invitation>>
    BY <1>3 DEF LockLogin, LockUser, At, CallsTyped
  <2> QED
    BY <1>1, <2>1 DEF CallHeld, RefreshHeld, Exists, Spent, Shape, CallRows
<1>4. CASE UpdatePassword(c)
  <2>1. /\ call'[c] = [old EXCEPT !.pc = "revoking", !.lock = "noKey"] /\ old.pc = "changing"
        /\ UNCHANGED <<account, device, token, invitation>>
    BY <1>4 DEF UpdatePassword, At, CallsTyped
  <2> QED
    BY <1>1, <2>1 DEF CallHeld, RefreshHeld, Exists, Spent, Shape, CallRows
<1>5. CASE BeginUpdate(c)
  <2>1. /\ call'[c] = [old EXCEPT !.pc = "updating", !.todo = Scope(c) \ old.rows]
        /\ old.pc = "revoking"
        /\ UNCHANGED <<account, device, token, invitation>>
    BY <1>5 DEF BeginUpdate, At, CallsTyped
  <2>2. \A t \in Tokens : Exists(t) /\ Covers(c, t) => t \in Scope(c)
    BY DEF Scope, Covers, OfDevice
  <2> QED
    BY <1>1, <2>1, <2>2 DEF CallHeld, RefreshHeld, Exists, Spent, Covers, Reached, CallRows
<1>6. CASE UpdateRow(c)
  <2> DEFINE RowsWith(t) == IF old.op = "webLogout" /\ token[t].revoked THEN old.rows
                                                                         ELSE old.rows \cup {t}
  <2>1. PICK t \in old.todo :
            call'[c] = [old EXCEPT !.todo = old.todo \ {t}, !.rows = RowsWith(t)]
    BY <1>6 DEF UpdateRow, CallsTyped
  <2>2. old.pc = "updating" /\ UNCHANGED <<account, device, token, invitation>>
    BY <1>6 DEF UpdateRow, At
  <2> QED
    BY <1>1, <2>1, <2>2 DEF CallHeld, RefreshHeld, Exists, Spent, Covers, Reached, CallRows
<1> QED
  BY <1>2, <1>3, <1>4, <1>5, <1>6
  DEF Continue, WriteInvitation, Activate, CommitLogin, CommitRotation, CommitLogOut,
      CommitPassword, CommitDisable, CommitReuse, CommitAccess

LEMMA StepIsOfACall ==
    ASSUME [Next]_vars
    PROVE  UNCHANGED call \/ \E c \in Calls : Begin(c) \/ Continue(c) \/ Ends(c)
BY DEF Next, CreateAccount, RevokeInvitation, ResendInvitation, InvitationExpires,
       EnableAccount, Fails, DeadlockBroken, RolledBack, GraceEnds, vars

LEMMA HeldStep ==
    ASSUME TablesTyped, CallsTyped, LocksAreExclusive, TokensHeld, NewAccountIsEmpty,
           OneActivation, Sessionless, \A c \in Calls : CallHeld(c), [Next]_vars
    PROVE  \A c \in Calls : CallHeld(c)'
<1>1. CASE UNCHANGED call
  BY <1>1, HeldElsewhere
<1>2. ASSUME NEW c \in Calls, NEW r \in CallRows, Moves(c, r), NEW b \in Calls, b # c
      PROVE  CallHeld(b)'
  <2>1. call'[b] = call[b]
    BY <1>2 DEF Moves, CallsTyped
  <2> QED
    BY <2>1, HeldElsewhere
<1>3. ASSUME NEW c \in Calls, Begin(c) \/ Continue(c) \/ Ends(c) PROVE CallHeld(c)'
  BY <1>3, BeginHeld, ContinueHeld, IdleHeld
<1>4. ASSUME NEW c \in Calls, Begin(c) \/ Continue(c) \/ Ends(c) PROVE \A b \in Calls : CallHeld(b)'
  <2>1. \E r \in CallRows : Moves(c, r)
    BY <1>4, BeginMoves, ContinueMoves, EndsMoves, IdleTyped
  <2> QED
    BY <1>2, <1>3, <1>4, <2>1
<1> QED
  BY <1>1, <1>4, StepIsOfACall

(***************************************************************************)
(* Where a step can bring the call that takes it.                          *)
(***************************************************************************)
LEMMA BeginPlace ==
    ASSUME CallsTyped, NEW c \in Calls, Begin(c)
    PROVE  /\ \A b \in Calls \ {c} : call'[b] = call[b]
           /\ call'[c].pc = "activating" => InvitationFree
<1>1. \A b \in Calls \ {c} : call'[b] = call[b]
  BY DEF Begin, CheckInvitee, LockInvitation, CheckPassword, LogOut, LogOutByToken,
     RevokeDevice, LockAccess, LockToken, CheckOldPassword, DisableAccount, Begins, CallsTyped
<1>2. CASE \E v \in 1 .. MaxInvitations, d \in Devices : LockInvitation(c, v, d)
  BY <1>2 DEF LockInvitation
<1>3. ASSUME NEW t \in Tokens, LockToken(c, t) PROVE call'[c].pc # "activating"
  <2> DEFINE pc == IF Rotates(t) THEN "rotating" ELSE "revoking"
  <2>1. call' = [call EXCEPT ![c] = [Idle EXCEPT !.op = "refresh", !.token = t,
                    !.device = token[t].device, !.rows = {t}, !.grace = Spent(t), !.pc = pc]]
    BY <1>3 DEF LockToken
  <2>2. pc # "activating"
    OBVIOUS
  <2> HIDE DEF pc
  <2> QED
    BY <2>1, <2>2 DEF Idle, CallsTyped
<1>4. ASSUME NEW d \in Devices,
             CheckPassword(c, d) \/ LogOut(c, d) \/ LogOutByToken(c, d) \/ RevokeDevice(c, d)
             \/ LockAccess(c, d)
      PROVE  call'[c].pc # "activating"
  <2>1. CASE CheckPassword(c, d)
    BY <2>1 DEF CheckPassword, CallsTyped, Idle
  <2>2. CASE LogOut(c, d) \/ LogOutByToken(c, d)
    BY <2>2 DEF LogOut, LogOutByToken, CallsTyped, Idle
  <2>3. CASE RevokeDevice(c, d)
    BY <2>3 DEF RevokeDevice, CallsTyped, Idle
  <2>4. CASE LockAccess(c, d)
    BY <2>4 DEF LockAccess, CallsTyped, Idle
  <2> QED
    BY <1>4, <2>1, <2>2, <2>3, <2>4
<1>5. CASE CheckInvitee(c) \/ CheckOldPassword(c) \/ DisableAccount(c)
  BY <1>5 DEF CheckInvitee, CheckOldPassword, DisableAccount, Begins, CallsTyped, Idle
<1> QED
  BY <1>1, <1>2, <1>3, <1>4, <1>5 DEF Begin

LEMMA ContinuePlace ==
    ASSUME CallsTyped, NEW c \in Calls, Continue(c) \/ Ends(c)
    PROVE  /\ \A b \in Calls \ {c} : call'[b] = call[b]
           /\ call'[c].pc \in {"idle", "touching"} \cup Revoking
           /\ ~Ends(c) => call'[c].op = call[c].op /\ call'[c].token = call[c].token
<1>1. CASE Ends(c)
  <2>1. call'[c].pc = "idle" /\ \A b \in Calls \ {c} : call'[b] = call[b]
    BY <1>1 DEF Ends, CallsTyped, Idle
  <2> QED
    BY <1>1, <2>1
<1>2. CASE ~Ends(c) /\ (LockLogin(c) \/ LockUser(c) \/ UpdatePassword(c) \/ BeginUpdate(c))
  BY <1>2 DEF LockLogin, LockUser, UpdatePassword, BeginUpdate, CallsTyped, CallRows, Revoking
<1>3. CASE UpdateRow(c)
  <2> DEFINE RowsWith(t) == IF call[c].op = "webLogout" /\ token[t].revoked
                            THEN call[c].rows ELSE call[c].rows \cup {t}
  <2>1. PICK t \in call[c].todo :
            call' = [call EXCEPT ![c] = [call[c] EXCEPT !.todo = @ \ {t}, !.rows = RowsWith(t)]]
    BY <1>3 DEF UpdateRow, CallsTyped
  <2>2. call[c].pc = "updating"
    BY <1>3 DEF UpdateRow, At
  <2> HIDE DEF RowsWith
  <2> QED
    BY <2>1, <2>2 DEF CallsTyped, CallRows, Revoking
<1> QED
  BY <1>1, <1>2, <1>3
  DEF Continue, WriteInvitation, Activate, CommitLogin, CommitRotation, CommitLogOut,
      CommitPassword, CommitDisable, CommitReuse, CommitAccess

LEMMA ActivationStep ==
    ASSUME CallsTyped, OneActivation, [Next]_vars
    PROVE  OneActivation'
<1>1. CASE UNCHANGED call
  BY <1>1 DEF OneActivation, At
<1>2. ASSUME NEW c \in Calls, Begin(c) PROVE OneActivation'
  BY <1>2, BeginPlace DEF OneActivation, At, InvitationFree
<1>3. ASSUME NEW c \in Calls, Continue(c) \/ Ends(c) PROVE OneActivation'
  BY <1>3, ContinuePlace DEF OneActivation, At, Revoking
<1> QED
  BY <1>1, <1>2, <1>3, StepIsOfACall

-----------------------------------------------------------------------------
(***************************************************************************)
(* The promises about sessions.                                            *)
(***************************************************************************)
LEMMA FlaggedLives ==
    ASSUME Flagged
    PROVE  \A t \in Tokens : /\ Exists(t)' <=> Exists(t)
                             /\ Live(t)' => Live(t) /\ token'[t].device = token[t].device
                                                    /\ token'[t].cred = token[t].cred
                                                    /\ token'[t].late = token[t].late
BY DEF Flagged, Exists, Live

Revokes(c) ==
    CommitLogOut(c) \/ CommitPassword(c) \/ CommitDisable(c) \/ CommitReuse(c)

LEMMA RevocationReaches ==
    ASSUME TablesTyped, NEW c \in Calls, CallHeld(c), Revokes(c)
    PROVE  /\ Flagged
           /\ \A t \in Tokens : Exists(t) /\ Covers(c, t) => ~Live(t)'
<1>1. token' = RowsRevoked(c) /\ call[c].pc = "updating" /\ call[c].todo = {}
  BY DEF Revokes, CommitLogOut, CommitPassword, CommitDisable, CommitReuse, Updated, At
<1>2. Flagged /\ \A t \in call[c].rows \cap Tokens : token'[t].revoked
  BY <1>1, RevokedFlags
<1>3. \A t \in Tokens : Exists(t) /\ Covers(c, t) => t \in call[c].rows
  BY <1>1 DEF CallHeld, Reached
<1> QED
  BY <1>2, <1>3 DEF Live

LEMMA NewAccountStep ==
    ASSUME TablesTyped, CallsTyped, NewAccountIsEmpty, \A c \in Calls : CallHeld(c), [Next]_vars
    PROVE  NewAccountIsEmpty'
<1>1. CASE UNCHANGED <<account, device, token>>
  BY <1>1 DEF NewAccountIsEmpty, NeverActive, Exists
<1>2. CASE CreateAccount \/ EnableAccount \/ \E c \in Calls : WriteInvitation(c)
  <2>1. UNCHANGED <<device, token>> /\ (NeverActive' => NeverActive)
    BY <1>2 DEF CreateAccount, EnableAccount, WriteInvitation, NeverActive, TablesTyped, Accounts
  <2> QED
    BY <2>1 DEF NewAccountIsEmpty, Exists
<1>3. ASSUME NEW c \in Calls, Activate(c) PROVE NewAccountIsEmpty'
  <2>1. UNCHANGED <<account, device, token>> \/ account' = [status |-> "active",
                                                            password |-> account.password + 1]
    BY <1>3, ActivateSigns
  <2> QED
    BY <1>1, <2>1 DEF NewAccountIsEmpty, NeverActive
<1>4. ASSUME NEW c \in Calls, CommitLogin(c) \/ CommitRotation(c) PROVE NewAccountIsEmpty'
  <2>1. account.status = "active" /\ account' = account
    BY <1>4 DEF CommitLogin, CommitRotation, At, CallHeld, CallsTyped, Shape
  <2> QED
    BY <2>1 DEF NewAccountIsEmpty, NeverActive
<1>5. ASSUME NEW c \in Calls, Revokes(c) PROVE NewAccountIsEmpty'
  <2> SUFFICES ASSUME NeverActive'
               PROVE  /\ \A t \in Tokens : ~Exists(t)'
                      /\ \A d \in Devices : device'[d] = "none"
    BY DEF NewAccountIsEmpty
  <2>1. NeverActive
    BY <1>5 DEF Revokes, CommitLogOut, CommitPassword, CommitDisable, CommitReuse, NeverActive,
       TablesTyped, Accounts
  <2>2. call[c].op # "revokeDevice"
    BY <2>1 DEF NewAccountIsEmpty, CallHeld, CallsTyped, Shape
  <2>3. device' = device
    BY <1>5, <2>2 DEF Revokes, CommitLogOut, CommitPassword, CommitDisable, CommitReuse
  <2> QED
    BY <1>5, <2>1, <2>3, RevocationReaches, FlaggedLives DEF NewAccountIsEmpty
<1>6. ASSUME NEW t \in Tokens, GraceEnds(t) PROVE NewAccountIsEmpty'
  BY <1>6, GraceFlags, FlaggedLives DEF GraceEnds, NewAccountIsEmpty, NeverActive
<1> QED
  BY <1>1, <1>2, <1>3, <1>4, <1>5, <1>6, StepWrites DEF Writes, Revokes

LEMMA SignedSessions ==
    ASSUME TablesTyped, TokensHeld, Sessionless, account'.status = "active",
           NEW t \in Tokens, NEW d \in Devices, NEW cred \in Nat, NEW late \in BOOLEAN,
           NextToken(t), Signed(t, d, cred, late),
           device[d] # "revoked",
           \A e \in Devices : device'[e] = "revoked" => device[e] = "revoked",
           cred = account'.password \/ late,
           UNCHANGED account \/ \A u \in Tokens : ~Exists(u)
    PROVE  Sessionless'
<1>1. /\ \A u \in Tokens \ {t} : token'[u] = token[u]
      /\ token'[t].device = d /\ token'[t].cred = cred /\ token'[t].late = late
  BY DEF TablesTyped, Signed
<1>2. \A u \in Tokens \ {t} : Live(u)' => Live(u) /\ token[u].device \in Devices
  BY <1>1 DEF Live, Exists, TablesTyped
<1>3. RevokedDeviceHasNoSession'
  BY <1>1, <1>2 DEF Sessionless, RevokedDeviceHasNoSession
<1>4. OldPasswordHasNoSession'
  BY <1>1, <1>2 DEF Sessionless, OldPasswordHasNoSession, Live
<1> QED
  BY <1>3, <1>4 DEF Sessionless, DisabledAccountHasNoSession

LEMMA CutSessions ==
    ASSUME TablesTyped, CallsTyped, Sessionless,
           NEW c \in Calls, CommitRotation(c), CallHeld(c)
    PROVE  Sessionless'
<1> DEFINE old == call[c].token
<1>1. /\ old \in Tokens /\ Exists(old) /\ UNCHANGED <<account, device, invitation>>
      /\ token[old].device = call[c].device
  BY RotationCuts
<1>2. PICK t \in Tokens : NextToken(t) /\ t # old /\ Cut(c, t)
  BY RotationCuts
<1>3. /\ account.status = "active" /\ device[call[c].device] = "active"
      /\ token[old].cred = account.password \/ token[old].late
  BY DEF CommitRotation, At, CallsTyped, Shape, CallHeld, RefreshHeld
<1>4. /\ \A u \in Tokens \ {t, old} : token'[u] = token[u]
      /\ token'[t].device = token[old].device
      /\ token'[t].cred = token[old].cred /\ token'[t].late = token[old].late
      /\ token'[old] = token[old] \/ token'[old].revoked
  BY <1>2, CallsTyped DEF Cut
<1>5. \A u \in Tokens \ {t} : Live(u)' => Live(u) /\ token'[u] = token[u]
  BY <1>4 DEF Live, Exists
<1>6. RevokedDeviceHasNoSession'
  BY <1>1, <1>3, <1>4, <1>5 DEF Sessionless, RevokedDeviceHasNoSession
<1>7. OldPasswordHasNoSession'
  BY <1>1, <1>3, <1>4, <1>5 DEF Sessionless, OldPasswordHasNoSession
<1> QED
  BY <1>1, <1>3, <1>6, <1>7 DEF Sessionless, DisabledAccountHasNoSession

LEMMA RevocationSessions ==
    ASSUME TablesTyped, CallsTyped, Sessionless, NEW c \in Calls, CallHeld(c), Revokes(c)
    PROVE  Sessionless'
<1>1. \A t \in Tokens : /\ Live(t)' => /\ Live(t) /\ ~Covers(c, t)
                                       /\ token'[t].device = token[t].device
                                       /\ token'[t].cred = token[t].cred
                                       /\ token'[t].late = token[t].late
                                       /\ token[t].device \in Devices
  BY RevocationReaches, FlaggedLives DEF Live, TablesTyped
<1>2. RevokedDeviceHasNoSession'
  <2> SUFFICES ASSUME NEW t \in Tokens, Live(t)' PROVE device'[token'[t].device] # "revoked"
    BY DEF RevokedDeviceHasNoSession
  <2>1. device[token[t].device] # "revoked"
    BY <1>1 DEF Sessionless, RevokedDeviceHasNoSession
  <2>2. call[c].op = "revokeDevice" => token[t].device # call[c].device
    BY <1>1 DEF Covers
  <2> QED
    BY <1>1, <2>1, <2>2 DEF Revokes, CommitLogOut, CommitPassword, CommitDisable, CommitReuse,
       TablesTyped
<1>3. DisabledAccountHasNoSession'
  <2>1. CASE CommitDisable(c)
    BY <1>1, <2>1 DEF CommitDisable, Covers, DisabledAccountHasNoSession
  <2>2. CASE ~CommitDisable(c)
    <3>1. account'.status = account.status
      BY <2>2 DEF Revokes, CommitLogOut, CommitPassword, CommitReuse, TablesTyped, Accounts
    <3> QED
      BY <1>1, <3>1 DEF Sessionless, DisabledAccountHasNoSession
  <2> QED
    BY <2>1, <2>2
<1>4. OldPasswordHasNoSession'
  <2>1. CASE CommitPassword(c)
    BY <1>1, <2>1 DEF CommitPassword, Covers, OldPasswordHasNoSession
  <2>2. CASE ~CommitPassword(c)
    <3>1. account'.password = account.password
      BY <2>2 DEF Revokes, CommitLogOut, CommitDisable, CommitReuse, TablesTyped, Accounts
    <3> QED
      BY <1>1, <3>1 DEF Sessionless, OldPasswordHasNoSession
  <2> QED
    BY <2>1, <2>2
<1> QED
  BY <1>2, <1>3, <1>4 DEF Sessionless

LEMMA SessionsStep ==
    ASSUME TablesTyped, CallsTyped, TokensHeld, NewAccountIsEmpty, Sessionless,
           \A c \in Calls : CallHeld(c), [Next]_vars
    PROVE  Sessionless'
<1>1. CASE UNCHANGED <<account, device, token>>
  BY <1>1 DEF Sessionless, RevokedDeviceHasNoSession, DisabledAccountHasNoSession,
              OldPasswordHasNoSession, Live, Exists
<1>2. CASE CreateAccount \/ EnableAccount \/ \E c \in Calls : WriteInvitation(c)
  <2>1. /\ UNCHANGED <<device, token>>
        /\ account'.status # "active" => account.status # "active"
        /\ account'.password = account.password \/ NeverActive
    BY <1>2 DEF CreateAccount, EnableAccount, WriteInvitation, NeverActive, TablesTyped, Accounts
  <2>2. NeverActive => \A t \in Tokens : ~Live(t)
    BY DEF NewAccountIsEmpty, Live
  <2> QED
    BY <2>1, <2>2 DEF Sessionless, RevokedDeviceHasNoSession, DisabledAccountHasNoSession,
                      OldPasswordHasNoSession, Live, Exists
<1>3. ASSUME NEW c \in Calls, Activate(c) PROVE Sessionless'
  <2> SUFFICES ASSUME account.status = "pending", call[c].device \in Devices,
                      account' = [status |-> "active", password |-> account.password + 1],
                      device' = [device EXCEPT ![call[c].device] = "active"],
                      NEW t \in Tokens, NextToken(t),
                      Signed(t, call[c].device, account'.password, FALSE)
               PROVE  Sessionless'
    BY <1>1, <1>3, ActivateSigns
  <2>1. /\ \A u \in Tokens : ~Exists(u)
        /\ device[call[c].device] # "revoked"
    BY DEF NewAccountIsEmpty, NeverActive
  <2>2. account'.password \in Nat /\ account'.status = "active" /\ FALSE \in BOOLEAN
    BY DEF TablesTyped, Accounts
  <2>3. \A e \in Devices : device'[e] = "revoked" => device[e] = "revoked"
    BY DEF TablesTyped
  <2> QED
    BY <2>1, <2>2, <2>3, SignedSessions
<1>4. ASSUME NEW c \in Calls, CommitLogin(c) PROVE Sessionless'
  <2>1. /\ call[c].device \in Devices /\ call[c].cred \in Nat /\ UNCHANGED account
        /\ call[c].lock = "update" /\ call[c].pc = "touching"
        /\ device' = [device EXCEPT ![call[c].device] = IF @ = "none" THEN "active" ELSE @]
    BY <1>4, LoginSigns DEF CallsTyped, CallRows
  <2> DEFINE late == call[c].cred # account.password
  <2>2. PICK t \in Tokens : NextToken(t) /\ Signed(t, call[c].device, call[c].cred, late)
    BY <1>4, LoginSigns
  <2>3. late \in BOOLEAN /\ (call[c].cred = account'.password \/ late)
    BY <2>1
  <2>4. account'.status = "active" /\ device[call[c].device] # "revoked"
    BY <2>1 DEF CallHeld
  <2>5. \A e \in Devices : device'[e] = "revoked" => device[e] = "revoked"
    BY <2>1 DEF TablesTyped
  <2> HIDE DEF late
  <2> QED
    BY <2>1, <2>2, <2>3, <2>4, <2>5, SignedSessions
<1>5. ASSUME NEW t \in Tokens, GraceEnds(t) PROVE Sessionless'
  BY <1>5, GraceFlags, FlaggedLives
  DEF GraceEnds, Sessionless, RevokedDeviceHasNoSession, DisabledAccountHasNoSession,
      OldPasswordHasNoSession
<1>6. CASE Writes
  BY <1>2, <1>3, <1>4, <1>5, <1>6, CutSessions, RevocationSessions DEF Writes, Revokes
<1> QED
  BY <1>1, <1>6, StepWrites

-----------------------------------------------------------------------------
(***************************************************************************)
(* Calm clients.  A family keeps its count of unused tokens: a first use   *)
(* replaces one by another, a repeat adds one.                             *)
(***************************************************************************)
LEMMA NotUsedFinite ==
    ASSUME NEW t \in Tokens
    PROVE  IsFiniteSet(NotUsed(t)) /\ IsFiniteSet({u \in FamilyOf(t) : Live(u)})
<1>1. IsFiniteSet(Tokens)
  BY SessionAssumption, FS_Interval DEF Tokens
<1>2. NotUsed(t) \subseteq Tokens /\ {u \in FamilyOf(t) : Live(u)} \subseteq Tokens
  BY DEF NotUsed, FamilyOf
<1> QED
  BY <1>1, <1>2, FS_Subset

FamiliesLast ==
    \A t \in Tokens : Exists(t) =>
        /\ Exists(t)'
        /\ FamilyOf(t) \subseteq FamilyOf(t)'
        /\ NotUsed(t) # {} => NotUsed(t)' # {}
        /\ Full(t) => Full(t)'

LEMMA SameFamilies ==
    ASSUME TablesTyped, \/ UNCHANGED token
                        \/ \A t \in Tokens : /\ token'[t].family = token[t].family
                                             /\ token'[t].used = token[t].used
    PROVE  FamiliesLast /\ \A t \in Tokens : NotUsed(t)' = NotUsed(t)
<1>1. \A t \in Tokens : token'[t].family = token[t].family /\ token'[t].used = token[t].used
  OBVIOUS
<1>2. \A t \in Tokens : Exists(t)' = Exists(t)
  BY <1>1 DEF Exists
<1>3. \A t \in Tokens : FamilyOf(t)' = FamilyOf(t)
  BY <1>1, <1>2 DEF FamilyOf
<1>4. \A t \in Tokens : NotUsed(t)' = NotUsed(t)
  <2> SUFFICES ASSUME NEW t \in Tokens PROVE NotUsed(t)' = NotUsed(t)
    OBVIOUS
  <2>1. FamilyOf(t) \subseteq Tokens
    BY DEF FamilyOf
  <2> QED
    BY <1>1, <1>3, <2>1 DEF NotUsed
<1> QED
  BY <1>2, <1>3, <1>4 DEF FamiliesLast, Full

LEMMA SignedFamilies ==
    ASSUME TablesTyped, TokensHeld,
           NEW t \in Tokens, NEW d \in Devices, NEW cred \in Nat, NEW late \in BOOLEAN,
           NextToken(t), Signed(t, d, cred, late)
    PROVE  FamiliesLast /\ NotUsed(t)' # {}
<1>1. /\ ~Exists(t)
      /\ \A u \in Tokens : Exists(u) => token[u].family \in 1 .. t - 1 /\ token[u].family # t
  BY NextTokenIsLast
<1>2. /\ \A u \in Tokens \ {t} : token'[u] = token[u]
      /\ token'[t].family = t /\ ~token'[t].used
  BY DEF TablesTyped, Signed
<1>3. t # 0
  BY NextTokenIsLast
<1>4. \A u \in Tokens : Exists(u) => Exists(u)' /\ u # t
  BY <1>1, <1>2 DEF Exists
<1>5. ASSUME NEW u \in Tokens, Exists(u)
      PROVE  FamilyOf(u)' = FamilyOf(u) /\ NotUsed(u)' = NotUsed(u)
  <2>1. u # t /\ token[u].family # t
    BY <1>1, <1>5
  <2>2. \A v \in Tokens : v \in FamilyOf(u)' <=> v \in FamilyOf(u)
    BY <1>1, <1>2, <2>1 DEF FamilyOf, Exists
  <2>3. FamilyOf(u)' = FamilyOf(u)
    BY <2>2 DEF FamilyOf
  <2>4. t \notin FamilyOf(u) /\ FamilyOf(u) \subseteq Tokens
    BY <1>1 DEF FamilyOf
  <2> QED
    BY <1>2, <2>3, <2>4 DEF NotUsed
<1>6. t \in NotUsed(t)'
  BY <1>2, <1>3 DEF NotUsed, FamilyOf, Exists
<1> QED
  BY <1>4, <1>5, <1>6 DEF FamiliesLast, Full

LEMMA CutFamilies ==
    ASSUME TablesTyped, CallsTyped, TokensHeld,
           NEW c \in Calls, CommitRotation(c), CallHeld(c),
           NEW t \in Tokens, NextToken(t), t # call[c].token, Cut(c, t)
    PROVE  FamiliesLast /\ NotUsed(t)' # {}
<1> DEFINE old == call[c].token
<1>1. ~Exists(t)
  BY NextTokenIsLast
<1>2. /\ old \in Tokens /\ Exists(old) /\ call[c].grace \in BOOLEAN
      /\ ~call[c].grace => ~token[old].used
  BY RotationCuts DEF CommitRotation, At, CallsTyped, CallRows, CallHeld, RefreshHeld, Spent
<1>3. /\ \A u \in Tokens \ {t, old} : token'[u] = token[u]
      /\ token'[t].family = token[old].family /\ ~token'[t].used
      /\ token'[old].family = token[old].family
      /\ call[c].grace => token'[old].used = token[old].used
      /\ ~call[c].grace => token'[old].used
  BY <1>2 DEF Cut
<1> HIDE DEF old
<1>4. Exists(t)' /\ \A u \in Tokens \ {t} : Exists(u)' <=> Exists(u)
  BY <1>2, <1>3 DEF Exists
<1>5. \A u \in Tokens \ {t} : token'[u].family = token[u].family
  BY <1>2, <1>3
<1>6. t \in NotUsed(t)'
  BY <1>3, <1>4 DEF NotUsed, FamilyOf
<1>7. ASSUME NEW u \in Tokens, Exists(u), token[u].family # token[old].family
      PROVE  FamilyOf(u)' = FamilyOf(u) /\ NotUsed(u)' = NotUsed(u)
  <2>1. u # t /\ token'[u].family = token[u].family
    BY <1>1, <1>5, <1>7
  <2>2. \A v \in Tokens : v \in FamilyOf(u)' <=> v \in FamilyOf(u)
    BY <1>1, <1>3, <1>4, <1>5, <1>7, <2>1 DEF FamilyOf
  <2>3. FamilyOf(u)' = FamilyOf(u)
    BY <2>2 DEF FamilyOf
  <2>4. t \notin FamilyOf(u) /\ old \notin FamilyOf(u) /\ FamilyOf(u) \subseteq Tokens
    BY <1>1, <1>7 DEF FamilyOf
  <2> QED
    BY <1>3, <2>3, <2>4 DEF NotUsed
<1>8. ASSUME NEW u \in Tokens, Exists(u), token[u].family = token[old].family
      PROVE  /\ FamilyOf(u)' = FamilyOf(u) \cup {t}
             /\ NotUsed(u)' # {}
             /\ Full(u) => Full(u)'
  <2>1. u # t /\ token'[u].family = token[u].family
    BY <1>1, <1>5, <1>8
  <2>2. \A v \in Tokens : v \in FamilyOf(u)' <=> v \in FamilyOf(u) \/ v = t
    BY <1>1, <1>3, <1>4, <1>5, <1>8, <2>1 DEF FamilyOf
  <2>3. FamilyOf(u)' = FamilyOf(u) \cup {t}
    BY <2>2 DEF FamilyOf
  <2>4. t \notin FamilyOf(u) /\ old \in FamilyOf(u) /\ FamilyOf(u) \subseteq Tokens
    BY <1>1, <1>2, <1>8 DEF FamilyOf
  <2>5. IsFiniteSet(NotUsed(u)) /\ t \notin NotUsed(u)
    BY <2>4, NotUsedFinite DEF NotUsed
  <2>6. CASE call[c].grace
    <3>1. NotUsed(u)' = NotUsed(u) \cup {t}
      BY <1>2, <1>3, <2>3, <2>4, <2>6 DEF NotUsed
    <3>2. Cardinality(NotUsed(u) \cup {t}) = Cardinality(NotUsed(u)) + 1
          /\ Cardinality(NotUsed(u)) \in Nat
      BY <2>5, FS_AddElement, FS_CardinalityType
    <3>3. Full(u) => Full(u)'
      BY <3>1, <3>2, SessionAssumption DEF Full
    <3> QED
      BY <2>3, <3>1, <3>3
  <2>7. CASE ~call[c].grace
    <3> DEFINE rest == NotUsed(u) \ {old}
    <3>1. NotUsed(u)' = rest \cup {t} /\ old \in NotUsed(u)
      BY <1>2, <1>3, <2>3, <2>4, <2>7 DEF NotUsed
    <3>2. /\ IsFiniteSet(rest) /\ Cardinality(rest) = Cardinality(NotUsed(u)) - 1
          /\ Cardinality(NotUsed(u)) \in Nat
      BY <2>5, <3>1, FS_RemoveElement, FS_CardinalityType
    <3>3. t \notin rest
      BY <2>5
    <3> HIDE DEF rest
    <3>4. Cardinality(rest \cup {t}) = Cardinality(rest) + 1
      BY <3>2, <3>3, FS_AddElement
    <3>5. Cardinality(rest \cup {t}) = Cardinality(NotUsed(u))
      BY <3>2, <3>4
    <3>6. Full(u) => Full(u)'
      BY <3>1, <3>5 DEF Full
    <3> QED
      BY <2>3, <3>1, <3>6
  <2> QED
    BY <1>2, <2>6, <2>7
<1>9. \A u \in Tokens : Exists(u) => Exists(u)'
  BY <1>1, <1>4
<1> QED
  BY <1>6, <1>7, <1>8, <1>9 DEF FamiliesLast, Full

LEMMA CalmTokensStep ==
    ASSUME TablesTyped, CallsTyped, TokensHeld, \A c \in Calls : CallHeld(c) /\ CalmCall(c),
           CalmTokens, [Next]_vars, calm, calm'
    PROVE  CalmTokens' /\ FamiliesLast
<1>1. CASE UNCHANGED token
  <2>1. FamiliesLast /\ \A t \in Tokens : NotUsed(t)' = NotUsed(t)
    BY <1>1, SameFamilies
  <2> QED
    BY <1>1, <2>1 DEF CalmTokens, Full, Exists
<1>2. ASSUME NEW t \in Tokens, NEW d \in Devices, NEW cred \in Nat, NEW late \in BOOLEAN,
             NextToken(t), Signed(t, d, cred, late)
      PROVE  CalmTokens' /\ FamiliesLast
  <2>1. FamiliesLast /\ NotUsed(t)' # {}
    BY <1>2, SignedFamilies
  <2>2. /\ \A u \in Tokens \ {t} : token'[u] = token[u]
        /\ ~token'[t].used /\ ~token'[t].revoked
    BY <1>2 DEF TablesTyped, Signed
  <2> QED
    BY <2>1, <2>2 DEF CalmTokens, FamiliesLast, Exists
<1>3. ASSUME NEW c \in Calls, CommitRotation(c), NEW t \in Tokens, NextToken(t),
             t # call[c].token, Cut(c, t)
      PROVE  CalmTokens' /\ FamiliesLast
  <2>1. FamiliesLast /\ NotUsed(t)' # {}
    BY <1>3, CutFamilies
  <2> DEFINE old == call[c].token
  <2>2. /\ \A u \in Tokens \ {t, old} : token'[u] = token[u]
        /\ ~token'[t].used /\ ~token'[t].revoked
        /\ token'[old] = token[old] \/ (token'[old].used /\ token'[old].fresh)
        /\ token'[old].family = token[old].family
    BY <1>3 DEF Cut, CallsTyped, CallRows
  <2> HIDE DEF old
  <2> QED
    BY <2>1, <2>2 DEF CalmTokens, FamiliesLast, Exists
<1>4. ASSUME NEW c \in Calls, CommitReuse(c) PROVE CalmTokens' /\ FamiliesLast
  <2>1. /\ call[c].op = "refresh" /\ call[c].pc = "updating" /\ call[c].todo = {}
        /\ token' = RowsRevoked(c)
    BY <1>4 DEF CommitReuse, Updated, At
  <2>2. /\ Flagged
        /\ \A t \in Tokens : token'[t].fresh = token[t].fresh
        /\ \A t \in Tokens \ call[c].rows : token'[t] = token[t]
    BY <2>1, RevokedFlags
  <2>3. FamiliesLast /\ \A t \in Tokens : NotUsed(t)' = NotUsed(t)
    BY <2>2, SameFamilies DEF Flagged
  <2>4. Full(call[c].token) /\ call[c].rows \subseteq FamilyOf(call[c].token)
    BY <2>1 DEF CalmCall, Revoking, Reached
  <2>5. \A t \in FamilyOf(call[c].token) : NotUsed(t) = NotUsed(call[c].token)
    BY DEF NotUsed, FamilyOf
  <2>6. \A t \in call[c].rows : Full(t)
    BY <2>4, <2>5 DEF Full
  <2>7. \A t \in Tokens : Full(t)' <=> Full(t)
    BY <2>3 DEF Full
  <2>8. \A t \in Tokens : Exists(t)' <=> Exists(t)
    BY <2>2 DEF Flagged, Exists
  <2> QED
    BY <2>2, <2>3, <2>6, <2>7, <2>8 DEF CalmTokens, Flagged
<1>5. ASSUME NEW c \in Calls, CommitLogOut(c) \/ CommitPassword(c) \/ CommitDisable(c)
      PROVE  FALSE
  BY <1>5 DEF CommitLogOut, CommitPassword, CommitDisable, CalmCall, CalmOps
<1>6. ASSUME NEW t \in Tokens, GraceEnds(t) PROVE FALSE
  BY <1>6 DEF GraceEnds
<1>7. ASSUME NEW c \in Calls, Activate(c) \/ CommitLogin(c) PROVE CalmTokens' /\ FamiliesLast
  <2>1. ASSUME UNCHANGED account \/ account' = [status |-> "active",
                                                password |-> account.password + 1]
        PROVE  account'.password \in Nat
    BY <2>1 DEF TablesTyped, Accounts
  <2>2. CASE Activate(c)
    BY <1>1, <1>2, <2>1, <2>2, ActivateSigns
  <2>3. CASE CommitLogin(c)
    <3> DEFINE late == call[c].cred # account.password
    <3>1. PICK t \in Tokens : NextToken(t) /\ Signed(t, call[c].device, call[c].cred, late)
      BY <2>3, LoginSigns
    <3>2. call[c].device \in Devices /\ call[c].cred \in Nat /\ late \in BOOLEAN
      BY <2>3, LoginSigns DEF CallsTyped, CallRows
    <3> HIDE DEF late
    <3> QED
      BY <1>2, <3>1, <3>2
  <2> QED
    BY <1>7, <2>2, <2>3
<1>8. CASE CreateAccount \/ EnableAccount \/ \E c \in Calls : WriteInvitation(c)
  BY <1>1, <1>8 DEF CreateAccount, EnableAccount, WriteInvitation
<1> QED
  BY <1>1, <1>3, <1>4, <1>5, <1>6, <1>7, <1>8, RotationCuts, StepWrites DEF Writes

(***************************************************************************)
(* A refresh judged as reuse in calm times belongs to a full family.       *)
(***************************************************************************)
LEMMA ReuseIsFull ==
    ASSUME TablesTyped, CalmTokens, NEW t \in Tokens, Exists(t), ~Rotates(t)
    PROVE  Full(t)
<1>1. token[t].used \/ (token[t].revoked /\ ~token[t].used)
  BY DEF Rotates, Spent
<1>2. CASE token[t].revoked /\ ~token[t].used
  BY <1>2 DEF CalmTokens
<1>3. CASE token[t].used
  <2>1. ~Healthy(t)
    BY <1>3 DEF Rotates, Spent, CalmTokens
  <2>2. CASE \E u \in NotUsed(t) : token[u].revoked
    <3>1. PICK u \in NotUsed(t) : token[u].revoked
      BY <2>2
    <3>2. u \in Tokens /\ Exists(u) /\ ~token[u].used /\ NotUsed(u) = NotUsed(t)
      BY <3>1 DEF NotUsed, FamilyOf
    <3> QED
      BY <3>1, <3>2 DEF CalmTokens, Full
  <2>3. CASE \A u \in NotUsed(t) : ~token[u].revoked
    <3>1. {u \in FamilyOf(t) : Live(u)} = NotUsed(t)
      BY <2>3 DEF NotUsed, Live, FamilyOf
    <3>2. Cardinality(NotUsed(t)) \in Nat
      BY NotUsedFinite, FS_CardinalityType
    <3>3. Cardinality(NotUsed(t)) # 0
      BY NotUsedFinite, FS_EmptySet DEF CalmTokens
    <3>4. Cardinality(NotUsed(t)) \notin 1 .. Limit - 1
      BY <2>1, <3>1 DEF Healthy
    <3> QED
      BY <3>2, <3>3, <3>4, SessionAssumption DEF Full
  <2> QED
    BY <2>2, <2>3
<1> QED
  BY <1>1, <1>2, <1>3

LEMMA CalmElsewhere ==
    ASSUME CallsTyped, FamiliesLast, NEW b \in Calls, CalmCall(b), CallHeld(b), call'[b] = call[b]
    PROVE  CalmCall(b)'
<1>1. call[b].op = "refresh" => call[b].token \in Tokens /\ Exists(call[b].token)
  BY DEF CallsTyped, Shape, CallHeld, RefreshHeld
<1> QED
  BY <1>1 DEF CalmCall, Reached, FamiliesLast

LEMMA CalmBegins ==
    ASSUME TablesTyped, CallsTyped, CalmTokens, FamiliesLast, calm', NEW c \in Calls, Begin(c)
    PROVE  CalmCall(c)'
<1>1. CASE CheckInvitee(c) \/ \E d \in Devices : CheckPassword(c, d) \/ LockAccess(c, d)
  <2>1. call'[c].op \in {"invite", "login", "access"}
    <3>1. CASE CheckInvitee(c)
      BY <3>1 DEF CheckInvitee, Begins, CallsTyped, Idle
    <3>2. ASSUME NEW d \in Devices, CheckPassword(c, d) PROVE call'[c].op = "login"
      BY <3>2 DEF CheckPassword, CallsTyped, Idle
    <3>3. ASSUME NEW d \in Devices, LockAccess(c, d) PROVE call'[c].op = "access"
      BY <3>3 DEF LockAccess, CallsTyped, Idle
    <3> QED
      BY <1>1, <3>1, <3>2, <3>3
  <2> QED
    BY <2>1 DEF CalmCall, CalmOps
<1>2. ASSUME NEW v \in 1 .. MaxInvitations, NEW d \in Devices, LockInvitation(c, v, d)
      PROVE  CalmCall(c)'
  BY <1>2 DEF LockInvitation, CallsTyped, Idle, CalmCall, CalmOps
<1>3. ASSUME NEW t \in Tokens, LockToken(c, t) PROVE CalmCall(c)'
  <2> DEFINE pc == IF Rotates(t) THEN "rotating" ELSE "revoking"
             r == [Idle EXCEPT !.op = "refresh", !.token = t, !.device = token[t].device,
                               !.rows = {t}, !.grace = Spent(t), !.pc = pc]
  <2>1. call'[c] = r /\ Exists(t)
    BY <1>3 DEF LockToken, CallsTyped
  <2>2. r.op = "refresh" /\ r.token = t /\ r.pc = pc /\ r.rows = {t} /\ r.todo = {}
    BY DEF Idle
  <2>3. pc \in Revoking => ~Rotates(t)
    BY DEF Revoking
  <2>4. ~Rotates(t) => Full(t)'
    BY <2>1, ReuseIsFull DEF FamiliesLast
  <2>5. t \in FamilyOf(t)'
    BY <2>1 DEF FamiliesLast, FamilyOf
  <2> HIDE DEF pc, r
  <2> QED
    BY <2>1, <2>2, <2>3, <2>4, <2>5 DEF CalmCall, CalmOps, Reached
<1>4. ~(\E d \in Devices : LogOut(c, d) \/ LogOutByToken(c, d) \/ RevokeDevice(c, d))
      /\ ~CheckOldPassword(c) /\ ~DisableAccount(c)
  BY DEF LogOut, LogOutByToken, RevokeDevice, CheckOldPassword, DisableAccount
<1> QED
  BY <1>1, <1>2, <1>3, <1>4 DEF Begin

LEMMA CalmContinues ==
    ASSUME CallsTyped, FamiliesLast, NEW c \in Calls, CalmCall(c), CallHeld(c),
           Continue(c) \/ Ends(c)
    PROVE  CalmCall(c)'
<1> DEFINE old == call[c]
<1>1. old.op = "refresh" => old.token \in Tokens /\ Exists(old.token)
  BY DEF CallsTyped, Shape, CallHeld, RefreshHeld
<1>2. CASE Ends(c)
  BY <1>2 DEF Ends, CallsTyped, Idle, CalmCall, CalmOps
<1>3. CASE LockLogin(c) \/ LockUser(c)
  <2>1. CASE call' = [call EXCEPT ![c].pc = "touching", ![c].lock = "update"]
    <3>1. call'[c].op = old.op /\ call'[c].pc = "touching"
      BY <2>1 DEF CallsTyped, CallRows
    <3> QED
      BY <3>1 DEF CalmCall, Revoking
  <2> QED
    BY <1>2, <1>3, <2>1 DEF LockLogin, LockUser
<1>4. CASE UpdatePassword(c)
  BY <1>4 DEF UpdatePassword, At, CallsTyped, Shape, CalmCall, CalmOps
<1>5. CASE BeginUpdate(c)
  <2> DEFINE todo == Scope(c) \ old.rows
  <2>1. /\ call' = [call EXCEPT ![c].pc = "updating", ![c].todo = todo] /\ old.pc = "revoking"
    BY <1>5 DEF BeginUpdate, At
  <2>2. old.op = "refresh" => todo \subseteq FamilyOf(old.token)
    BY DEF Scope
  <2> HIDE DEF todo
  <2>3. /\ call'[c].op = old.op /\ call'[c].token = old.token /\ call'[c].rows = old.rows
        /\ call'[c].todo = todo
    BY <2>1 DEF CallsTyped, CallRows
  <2> QED
    BY <1>1, <2>1, <2>2, <2>3 DEF CalmCall, Revoking, Reached, FamiliesLast
<1>6. CASE UpdateRow(c)
  <2> DEFINE RowsWith(t) == IF old.op = "webLogout" /\ token[t].revoked
                            THEN old.rows ELSE old.rows \cup {t}
  <2>1. PICK t \in old.todo :
            call' = [call EXCEPT ![c] = [old EXCEPT !.todo = @ \ {t}, !.rows = RowsWith(t)]]
    BY <1>6 DEF UpdateRow, CallsTyped
  <2>2. old.pc = "updating"
    BY <1>6 DEF UpdateRow, At
  <2>3. RowsWith(t) \subseteq Reached(c)
    BY DEF Reached
  <2> HIDE DEF RowsWith
  <2>4. /\ call'[c].op = old.op /\ call'[c].token = old.token
        /\ call'[c].rows = RowsWith(t) /\ call'[c].todo = old.todo \ {t}
    BY <2>1 DEF CallsTyped, CallRows
  <2>5. Reached(c)' \subseteq Reached(c)
    BY <2>3, <2>4 DEF Reached
  <2> QED
    BY <1>1, <2>2, <2>4, <2>5 DEF CalmCall, Revoking, FamiliesLast
<1> QED
  BY <1>2, <1>3, <1>4, <1>5, <1>6
  DEF Continue, WriteInvitation, Activate, CommitLogin, CommitRotation, CommitLogOut,
      CommitPassword, CommitDisable, CommitReuse, CommitAccess

\* Calm times end, and do not come back.
LEMMA CalmChanges ==
    ASSUME [Next]_vars
    PROVE  calm' = calm \/ calm' = FALSE
<1>1. ASSUME NEW c \in Calls, Begin(c) PROVE calm' = calm \/ calm' = FALSE
  <2>1. CASE \/ CheckInvitee(c)
             \/ \E v \in 1 .. MaxInvitations, d \in Devices : LockInvitation(c, v, d)
    BY <2>1 DEF CheckInvitee, LockInvitation
  <2>2. CASE \E d \in Devices : CheckPassword(c, d) \/ LogOut(c, d) \/ LogOutByToken(c, d)
                                \/ RevokeDevice(c, d) \/ LockAccess(c, d)
    BY <2>2 DEF CheckPassword, LogOut, LogOutByToken, RevokeDevice, LockAccess
  <2>3. CASE (\E t \in Tokens : LockToken(c, t)) \/ CheckOldPassword(c) \/ DisableAccount(c)
    BY <2>3 DEF LockToken, CheckOldPassword, DisableAccount
  <2> QED
    BY <1>1, <2>1, <2>2, <2>3 DEF Begin
<1>2. ASSUME NEW c \in Calls, Continue(c) PROVE calm' = calm \/ calm' = FALSE
  <2>1. CASE WriteInvitation(c) \/ Activate(c) \/ LockLogin(c) \/ CommitLogin(c)
    BY <2>1 DEF WriteInvitation, Activate, LockLogin, CommitLogin
  <2>2. CASE LockUser(c) \/ CommitRotation(c) \/ UpdatePassword(c) \/ BeginUpdate(c)
    BY <2>2 DEF LockUser, CommitRotation, UpdatePassword, BeginUpdate
  <2>3. CASE UpdateRow(c) \/ CommitLogOut(c) \/ CommitPassword(c)
    BY <2>3 DEF UpdateRow, CommitLogOut, CommitPassword
  <2>4. CASE CommitDisable(c) \/ CommitReuse(c) \/ CommitAccess(c)
    BY <2>4 DEF CommitDisable, CommitReuse, CommitAccess
  <2> QED
    BY <1>2, <2>1, <2>2, <2>3, <2>4 DEF Continue
<1>3. ASSUME NEW c \in Calls, RolledBack(c) PROVE calm' = calm
  BY <1>3 DEF RolledBack
<1>4. CASE CreateAccount \/ EnableAccount \/ \E t \in Tokens : GraceEnds(t)
  BY <1>4 DEF CreateAccount, EnableAccount, GraceEnds
<1>5. CASE RevokeInvitation \/ ResendInvitation \/ InvitationExpires
  BY <1>5 DEF RevokeInvitation, ResendInvitation, InvitationExpires
<1>6. CASE DeadlockBroken
  BY <1>3, <1>6 DEF DeadlockBroken
<1>7. CASE UNCHANGED vars
  BY <1>7 DEF vars
<1> QED
  BY <1>1, <1>2, <1>3, <1>4, <1>5, <1>6, <1>7 DEF Next, Fails

LEMMA CalmStep ==
    ASSUME TablesTyped, CallsTyped, TokensHeld, \A c \in Calls : CallHeld(c), CalmHeld,
           [Next]_vars
    PROVE  CalmHeld'
<1>1. calm' => calm
  BY CalmChanges
<1> SUFFICES ASSUME calm, calm' PROVE CalmTokens' /\ \A c \in Calls : CalmCall(c)'
  BY <1>1 DEF CalmHeld
<1>2. CalmTokens /\ \A c \in Calls : CalmCall(c)
  BY DEF CalmHeld
<1>3. CalmTokens' /\ FamiliesLast
  BY <1>2, CalmTokensStep
<1>4. CASE UNCHANGED call
  BY <1>2, <1>3, <1>4, CalmElsewhere
<1>5. ASSUME NEW c \in Calls, Begin(c) PROVE \A b \in Calls : CalmCall(b)'
  BY <1>2, <1>3, <1>5, BeginPlace, CalmBegins, CalmElsewhere
<1>6. ASSUME NEW c \in Calls, Continue(c) \/ Ends(c) PROVE \A b \in Calls : CalmCall(b)'
  BY <1>2, <1>3, <1>6, ContinuePlace, CalmContinues, CalmElsewhere
<1> QED
  BY <1>3, <1>4, <1>5, <1>6, StepIsOfACall

-----------------------------------------------------------------------------
(***************************************************************************)
(* The tables keep their types, and everything together is inductive.      *)
(***************************************************************************)
LEMMA TypesStep ==
    ASSUME TablesTyped, CallsTyped, \A c \in Calls : CallHeld(c), [Next]_vars
    PROVE  /\ account' \in Accounts /\ device' \in [Devices -> DeviceStates]
           /\ invitation' \in Invitations /\ calm' \in BOOLEAN
<1>1. account \in Accounts /\ device \in [Devices -> DeviceStates] /\ calm \in BOOLEAN
      /\ invitation \in Invitations
  BY DEF TablesTyped
<1>2. calm' \in BOOLEAN
  BY <1>1, CalmChanges
<1>3. ASSUME NEW c \in Calls, Activate(c)
      PROVE  /\ account' \in Accounts /\ device' \in [Devices -> DeviceStates]
             /\ invitation' \in Invitations
  <2>1. CASE UNCHANGED <<account, device, token, invitation>>
    BY <1>1, <2>1
  <2>2. CASE /\ account' = [status |-> "active", password |-> account.password + 1]
             /\ device' = [device EXCEPT ![call[c].device] = "active"]
             /\ invitation' = [invitation EXCEPT !.status = "used"]
    <3>1. account' \in Accounts
      BY <1>1, <2>2 DEF Accounts, AccountStates
    <3>2. device' \in [Devices -> DeviceStates]
      BY <1>1, <2>2 DEF DeviceStates
    <3>3. invitation' \in Invitations
      BY <1>1, <2>2 DEF Invitations
    <3> QED
      BY <3>1, <3>2, <3>3
  <2> QED
    BY <1>3, <2>1, <2>2, ActivateSigns
<1>4. ASSUME CreateAccount \/ EnableAccount \/ \E c \in Calls : CommitPassword(c) \/ CommitDisable(c)
      PROVE  account' \in Accounts
  BY <1>1, <1>4 DEF CreateAccount, EnableAccount, CommitPassword, CommitDisable, Accounts,
                    AccountStates
<1>5. ASSUME NEW c \in Calls, WriteInvitation(c)
      PROVE  account' \in Accounts /\ invitation' \in Invitations
  BY <1>1, <1>5 DEF WriteInvitation, Accounts, AccountStates, Invitations
<1>6. ASSUME NEW c \in Calls, CommitLogin(c) \/ CommitLogOut(c)
      PROVE  device' \in [Devices -> DeviceStates] /\ UNCHANGED <<account, invitation>>
  BY <1>1, <1>6 DEF CommitLogin, CommitLogOut, DeviceStates
<1>7. ASSUME NEW c \in Calls, CommitPassword(c) \/ CommitDisable(c) \/ CommitReuse(c) \/ CommitRotation(c)
      PROVE  UNCHANGED <<device, invitation>> /\ (UNCHANGED account \/ CommitPassword(c) \/ CommitDisable(c))
  BY <1>7 DEF CommitPassword, CommitDisable, CommitReuse, CommitRotation
<1>8. CASE CreateAccount \/ EnableAccount \/ \E t \in Tokens : GraceEnds(t)
  <2>1. UNCHANGED <<device, invitation>> /\ (UNCHANGED account \/ CreateAccount \/ EnableAccount)
    BY <1>8 DEF CreateAccount, EnableAccount, GraceEnds
  <2> QED
    BY <1>1, <1>2, <1>4, <2>1
<1>9. ASSUME NEW c \in Calls, WriteInvitation(c) PROVE UNCHANGED device
  BY <1>9 DEF WriteInvitation
<1>10. CASE RevokeInvitation \/ ResendInvitation \/ InvitationExpires
  BY <1>1, <1>2, <1>10 DEF RevokeInvitation, ResendInvitation, InvitationExpires, Invitations
<1>11. ASSUME NEW c \in Calls, Begin(c)
       PROVE  UNCHANGED <<account, device, invitation>>
  BY <1>11 DEF Begin, CheckInvitee, LockInvitation, CheckPassword, LogOut, LogOutByToken,
     RevokeDevice, LockAccess, LockToken, CheckOldPassword, DisableAccount
<1>12. ASSUME NEW c \in Calls, LockLogin(c) \/ LockUser(c) \/ UpdatePassword(c) \/ BeginUpdate(c)
              \/ UpdateRow(c) \/ CommitAccess(c) \/ Fails(c) \/ RolledBack(c)
       PROVE  UNCHANGED <<account, device, invitation>>
  BY <1>12 DEF LockLogin, LockUser, UpdatePassword, BeginUpdate, UpdateRow, CommitAccess, Fails,
     RolledBack
<1>13. ASSUME NEW c \in Calls, Continue(c)
       PROVE  /\ account' \in Accounts /\ device' \in [Devices -> DeviceStates]
              /\ invitation' \in Invitations
  <2>1. CASE WriteInvitation(c)
    BY <1>1, <1>5, <1>9, <2>1
  <2>2. CASE Activate(c)
    BY <1>3, <2>2
  <2>3. CASE CommitLogin(c) \/ CommitLogOut(c)
    BY <1>1, <1>6, <2>3
  <2>4. CASE CommitPassword(c) \/ CommitDisable(c) \/ CommitReuse(c) \/ CommitRotation(c)
    BY <1>1, <1>4, <1>7, <2>4
  <2>5. CASE LockLogin(c) \/ LockUser(c) \/ UpdatePassword(c) \/ BeginUpdate(c)
             \/ UpdateRow(c) \/ CommitAccess(c)
    BY <1>1, <1>12, <2>5
  <2> QED
    BY <1>13, <2>1, <2>2, <2>3, <2>4, <2>5 DEF Continue
<1>14. CASE DeadlockBroken
  BY <1>1, <1>2, <1>12, <1>14 DEF DeadlockBroken
<1>15. CASE UNCHANGED vars
  BY <1>1, <1>2, <1>15 DEF vars
<1> QED
  BY <1>1, <1>2, <1>8, <1>10, <1>11, <1>12, <1>13, <1>14, <1>15 DEF Next

LEMMA SessionInitInvariant == SessionInit => SessionInvariant
<1> SUFFICES ASSUME SessionInit PROVE SessionInvariant
  OBVIOUS
<1>1. /\ account = [status |-> "absent", password |-> 0]
      /\ device = [d \in Devices |-> "none"] /\ token = [t \in Tokens |-> NoToken]
      /\ invitation = NoInvitation /\ call = [c \in Calls |-> Idle] /\ calm = TRUE
  BY DEF SessionInit
<1>2. NoToken \in TokenRows /\ NoToken.family = 0
  BY DEF NoToken, TokenRows
<1>3. \A t \in Tokens : ~Exists(t)
  BY <1>1, <1>2 DEF Exists
<1>4. TablesTyped
  <2>1. account \in Accounts /\ invitation \in Invitations
    BY <1>1 DEF Accounts, AccountStates, Invitations, NoInvitation
  <2>2. device \in [Devices -> DeviceStates] /\ token \in [Tokens -> TokenRows]
    BY <1>1, <1>2 DEF DeviceStates
  <2> QED
    BY <1>1, <1>3, <2>1, <2>2 DEF TablesTyped
<1>5. CallsTyped /\ LocksAreExclusive
  BY <1>1, IdleTyped DEF CallsTyped, LocksAreExclusive
<1>6. TokensHeld /\ OneSuccessor
  BY <1>3 DEF TokensHeld, ParentsUsed, OneSuccessor
<1>7. NewAccountIsEmpty
  BY <1>1, <1>3 DEF NewAccountIsEmpty
<1>8. Sessionless
  BY <1>3 DEF Sessionless, RevokedDeviceHasNoSession, DisabledAccountHasNoSession,
              OldPasswordHasNoSession, Live
<1>9. \A c \in Calls : call[c].op = "none" /\ call[c].pc = "idle" /\ call[c].lock = "none"
  BY <1>1 DEF Idle
<1>10. (\A c \in Calls : CallHeld(c)) /\ OneActivation
  BY <1>9 DEF CallHeld, OneActivation, At
<1>11. CalmHeld
  BY <1>3, <1>9 DEF CalmHeld, CalmTokens, CalmCall, CalmOps
<1> QED
  BY <1>4, <1>5, <1>6, <1>7, <1>8, <1>10, <1>11 DEF SessionInvariant

LEMMA SessionNextInvariant == SessionInvariant /\ [Next]_vars => SessionInvariant'
<1> SUFFICES ASSUME SessionInvariant, [Next]_vars PROVE SessionInvariant'
  OBVIOUS
<1>1. /\ TablesTyped /\ CallsTyped /\ LocksAreExclusive /\ TokensHeld /\ NewAccountIsEmpty
      /\ OneSuccessor /\ Sessionless /\ (\A c \in Calls : CallHeld(c)) /\ OneActivation
      /\ CalmHeld
  BY DEF SessionInvariant
<1>2. /\ token' \in [Tokens -> TokenRows]
      /\ \A u \in Tokens : Exists(u)' => token'[u].device \in Devices
      /\ TokensHeld' /\ OneSuccessor'
  BY <1>1, TokensStep
<1>3. TablesTyped'
  BY <1>1, <1>2, TypesStep DEF TablesTyped
<1>4. CallsTyped' /\ LocksAreExclusive'
  BY <1>1, CallsStep
<1>5. NewAccountIsEmpty' /\ Sessionless'
  BY <1>1, NewAccountStep, SessionsStep
<1>6. (\A c \in Calls : CallHeld(c)') /\ OneActivation'
  BY <1>1, HeldStep, ActivationStep
<1>7. CalmHeld'
  BY <1>1, CalmStep
<1> QED
  BY <1>2, <1>3, <1>4, <1>5, <1>6, <1>7 DEF SessionInvariant

\* Tables, row locks and the knowledge of every call stay consistent, whatever overlaps.
THEOREM SessionCorrect == SessionSpec => []SessionInvariant
<1> QED
  BY SessionInitInvariant, SessionNextInvariant, PTL DEF SessionSpec

\* Two calls never hold the user row, or one token row, at the same time.
THEOREM LocksExclude == SessionSpec => []LocksAreExclusive
<1>1. SessionInvariant => LocksAreExclusive
  BY DEF SessionInvariant
<1> QED
  BY <1>1, SessionCorrect, PTL

\* However many refreshes of one token overlap, one of them is its first use.
THEOREM RotatedOnce == SessionSpec => []OneSuccessor
<1>1. SessionInvariant => OneSuccessor
  BY DEF SessionInvariant
<1> QED
  BY <1>1, SessionCorrect, PTL

\* No login or rotation that overlaps revoke_device leaves the device a session.
THEOREM RevocationEndsSessions == SessionSpec => []RevokedDeviceHasNoSession
<1>1. SessionInvariant => RevokedDeviceHasNoSession
  BY DEF SessionInvariant, Sessionless
<1> QED
  BY <1>1, SessionCorrect, PTL

\* No login or rotation that overlaps its disabling leaves an account a session.
THEOREM DisablingEndsSessions == SessionSpec => []DisabledAccountHasNoSession
<1>1. SessionInvariant => DisabledAccountHasNoSession
  BY DEF SessionInvariant, Sessionless
<1> QED
  BY <1>1, SessionCorrect, PTL

\* A password change ends every session of an older password, but those of a login whose
\* password had been verified before the change and which committed after it.
THEOREM PasswordChangeEndsSessions == SessionSpec => []OldPasswordHasNoSession
<1>1. SessionInvariant => OldPasswordHasNoSession
  BY DEF SessionInvariant, Sessionless
<1> QED
  BY <1>1, SessionCorrect, PTL

\* Logins and prompt repeats of refreshes sign nobody out, unless they fill the family.
THEOREM GraceKeepsSessions == SessionSpec => []CalmClientStaysSignedIn
<1>1. SessionInvariant => CalmClientStaysSignedIn
  <2> SUFFICES ASSUME SessionInvariant, calm,
                      NEW t \in Tokens, Exists(t), token[t].revoked, ~token[t].used
               PROVE  Cardinality({u \in FamilyOf(t) : ~token[u].used}) >= Limit
    BY DEF CalmClientStaysSignedIn
  <2>1. Full(t)
    BY DEF SessionInvariant, CalmHeld, CalmTokens
  <2> QED
    BY <2>1 DEF Full, NotUsed
<1> QED
  BY <1>1, SessionCorrect, PTL

\* A request is let through only while its account and its device are active.
THEOREM AccessIsCurrent == SessionSpec => AccessIsOfActiveDevice
<1>1. SessionInvariant /\ [Next]_vars =>
        [\A c \in Calls : CommitAccess(c) =>
            account.status = "active" /\ device[call[c].device] = "active"]_vars
  <2> SUFFICES ASSUME SessionInvariant, NEW c \in Calls, CommitAccess(c)
               PROVE  account.status = "active" /\ device[call[c].device] = "active"
    OBVIOUS
  <2>1. CallHeld(c) /\ Shape(call[c])
    BY DEF SessionInvariant, CallsTyped
  <2> QED
    BY <2>1 DEF CommitAccess, At, CallHeld, Shape
<1> QED
  BY <1>1, SessionCorrect, PTL DEF SessionSpec, AccessIsOfActiveDevice

\* An invitation that was revoked or replaced before the activation commits activates nothing.
THEOREM VoidInvitations == SessionSpec => VoidInvitationNeverActivates
<1> DEFINE Redeems == \E c \in Calls : /\ call[c].op = "activate" /\ At(c, "idle")'
                                       /\ call[c].cred = invitation.issued
<1>1. SessionInvariant /\ [Next]_vars =>
        [invitation.status # "used" /\ invitation'.status = "used" =>
            /\ invitation.status # "revoked"
            /\ Redeems]_vars
  <2> SUFFICES ASSUME SessionInvariant, [Next]_vars,
                      invitation.status # "used", invitation'.status = "used"
               PROVE  invitation.status # "revoked" /\ Redeems
    OBVIOUS
  <2>1. \E c \in Calls : Activate(c)
    <3>1. invitation \in Invitations
      BY DEF SessionInvariant, TablesTyped
    <3>2. ~\E c \in Calls : Begin(c)
      BY DEF Begin, CheckInvitee, LockInvitation, CheckPassword, LogOut, LogOutByToken,
         RevokeDevice, LockAccess, LockToken, CheckOldPassword, DisableAccount
    <3>3. ~(CreateAccount \/ RevokeInvitation \/ ResendInvitation \/ InvitationExpires
            \/ EnableAccount \/ DeadlockBroken \/ UNCHANGED vars)
      BY <3>1 DEF CreateAccount, RevokeInvitation, ResendInvitation, InvitationExpires,
         EnableAccount, DeadlockBroken, RolledBack, vars, Invitations
    <3>4. ~\E t \in Tokens : GraceEnds(t)
      BY DEF GraceEnds
    <3>5. ASSUME NEW c \in Calls, Continue(c) \/ Fails(c) PROVE Activate(c)
      BY <3>5 DEF Continue, Fails, RolledBack, WriteInvitation, LockLogin, CommitLogin,
         LockUser, CommitRotation, UpdatePassword, BeginUpdate, UpdateRow, CommitLogOut,
         CommitPassword, CommitDisable, CommitReuse, CommitAccess
    <3> QED
      BY <3>2, <3>3, <3>4, <3>5 DEF Next
  <2>2. PICK c \in Calls : Activate(c)
    BY <2>1
  <2>3. CallHeld(c) /\ CallsTyped /\ Shape(call[c])
    BY DEF SessionInvariant, CallsTyped
  <2>4. call[c].pc = "activating" /\ call[c].op = "activate"
    BY <2>2, <2>3 DEF Activate, At, CallsTyped, CallRows, Places, Shape
  <2>5. At(c, "idle")'
    BY <2>2, <2>3 DEF Activate, Ends, At, CallsTyped, Idle
  <2> QED
    BY <2>3, <2>4, <2>5 DEF CallHeld
<1> QED
  BY <1>1, SessionCorrect, PTL DEF SessionSpec, VoidInvitationNeverActivates
-----------------------------------------------------------------------------
(***************************************************************************)
(* The types of the rows.  The guards that start a password or an          *)
(* invitation leave room for every one already under way, so the sum of    *)
(* what was issued and what is still to come never passes the bound.       *)
(***************************************************************************)
Booked(ops) == {c \in Calls : call[c].op \in ops}
PasswordOps == {"activate", "password"}
InviteOps == {"invite"}

Room ==
    /\ account.password + Cardinality(Booked(PasswordOps)) <= MaxPasswords
    /\ invitation.issued + Cardinality(Booked(InviteOps)) <= MaxInvitations

ParentsBelow == \A t \in Tokens : token[t].parent \in 0 .. t - 1
FamiliesBelow == \A t \in Tokens : token[t].family \in 0 .. t

CredsIssued ==
    /\ \A t \in Tokens : Exists(t) => token[t].cred \in 1 .. account.password
    /\ \A c \in Calls : call[c].op = "login" => call[c].cred \in 1 .. account.password

RowsApart == \A c \in Calls : call[c].rows \cap call[c].todo = {}

TypesInvariant == Room /\ ParentsBelow /\ CredsIssued /\ RowsApart

LEMMA BookedFinite ==
    ASSUME NEW ops
    PROVE  /\ Under(ops) = Cardinality(Booked(ops))
           /\ IsFiniteSet(Booked(ops))
           /\ Cardinality(Booked(ops)) \in Nat
<1>1. IsFiniteSet(Booked(ops))
  BY FS_Subset, PoolIsFinite DEF Booked
<1> QED
  BY <1>1, FS_CardinalityType DEF Under, Booked

(***************************************************************************)
(* A sum of what was issued and what is booked stays within its bound: a   *)
(* step issues or books one more when there is room, or issues what was    *)
(* booked.                                                                 *)
(***************************************************************************)
LEMMA RoomStep ==
    ASSUME NEW S, NEW T, IsFiniteSet(S), NEW n \in Nat, NEW m \in Nat, NEW max \in Nat,
           n + Cardinality(S) <= max,
           \/ m = n /\ T \subseteq S
           \/ m = n + 1 /\ T \subseteq S /\ n + Cardinality(S) < max
           \/ m = n /\ n + Cardinality(S) < max /\ \E c : T \subseteq S \cup {c}
           \/ m = n + 1 /\ \E c \in S : T \subseteq S \ {c}
    PROVE  m + Cardinality(T) <= max
<1>1. Cardinality(S) \in Nat
  BY FS_CardinalityType
<1>2. ASSUME T \subseteq S
      PROVE  Cardinality(T) \in Nat /\ Cardinality(T) <= Cardinality(S)
  BY <1>2, FS_Subset, FS_CardinalityType
<1>3. CASE m = n /\ T \subseteq S
  BY <1>1, <1>2, <1>3
<1>4. CASE m = n + 1 /\ T \subseteq S /\ n + Cardinality(S) < max
  BY <1>1, <1>2, <1>4
<1>5. ASSUME m = n, n + Cardinality(S) < max, NEW c, T \subseteq S \cup {c}
      PROVE  m + Cardinality(T) <= max
  <2>1. /\ IsFiniteSet(S \cup {c})
        /\ \/ Cardinality(S \cup {c}) = Cardinality(S)
           \/ Cardinality(S \cup {c}) = Cardinality(S) + 1
    BY FS_AddElement
  <2>2. Cardinality(T) \in Nat /\ Cardinality(T) <= Cardinality(S \cup {c})
    BY <1>5, <2>1, FS_Subset, FS_CardinalityType
  <2> QED
    BY <1>1, <1>5, <2>1, <2>2
<1>6. ASSUME m = n + 1, NEW c \in S, T \subseteq S \ {c}
      PROVE  m + Cardinality(T) <= max
  <2>1. IsFiniteSet(S \ {c}) /\ Cardinality(S \ {c}) = Cardinality(S) - 1
    BY FS_RemoveElement
  <2>2. Cardinality(T) \in Nat /\ Cardinality(T) <= Cardinality(S \ {c})
    BY <1>6, <2>1, FS_Subset, FS_CardinalityType
  <2> QED
    BY <1>1, <1>6, <2>1, <2>2
<1> QED
  BY <1>3, <1>4, <1>5, <1>6

(***************************************************************************)
(* What a step books: a call that continues keeps its operation or ends,   *)
(* and one that begins books one more.                                     *)
(***************************************************************************)
LEMMA ContinueKeepsOp ==
    ASSUME CallsTyped, NEW c \in Calls, Continue(c)
    PROVE  call'[c].op \in {call[c].op, "none"}
<1>1. CASE Ends(c)
  BY <1>1 DEF Ends, CallsTyped, Idle
<1>2. CASE LockLogin(c) \/ LockUser(c)
  BY <1>1, <1>2 DEF LockLogin, LockUser, CallsTyped, CallRows
<1>3. CASE UpdatePassword(c)
  BY <1>3 DEF UpdatePassword, CallsTyped, CallRows
<1>4. CASE BeginUpdate(c) \/ UpdateRow(c)
  BY <1>4 DEF BeginUpdate, UpdateRow, CallsTyped, CallRows
<1> QED
  BY <1>1, <1>2, <1>3, <1>4
  DEF Continue, WriteInvitation, Activate, CommitLogin, CommitRotation, CommitLogOut,
      CommitPassword, CommitDisable, CommitReuse, CommitAccess

\* A step that a call takes leaves the other calls alone.
LEMMA OthersStay ==
    ASSUME TablesTyped, CallsTyped, NEW c \in Calls, Begin(c) \/ Continue(c) \/ Ends(c)
    PROVE  \A b \in Calls \ {c} : call'[b] = call[b]
<1>1. PICK r \in CallRows : Moves(c, r)
  BY BeginMoves, ContinueMoves, EndsMoves, IdleTyped
<1> QED
  BY <1>1 DEF Moves, CallsTyped

LEMMA Bookings ==
    ASSUME TablesTyped, CallsTyped, [Next]_vars, NEW ops \in SUBSET (Ops \ {"none"})
    PROVE  \/ Booked(ops)' \subseteq Booked(ops)
           \/ \E c \in Calls : /\ Begin(c)
                               /\ call'[c].op \in ops
                               /\ Booked(ops)' \subseteq Booked(ops) \cup {c}
<1>1. CASE UNCHANGED call
  BY <1>1 DEF Booked
<1>2. ASSUME NEW c \in Calls, Begin(c) \/ Continue(c) \/ Ends(c)
      PROVE  \A b \in Calls \ {c} : call'[b] = call[b]
  BY <1>2, OthersStay
<1>3. ASSUME NEW c \in Calls, Continue(c) \/ Ends(c)
      PROVE  Booked(ops)' \subseteq Booked(ops)
  <2>1. call'[c].op \in {call[c].op, "none"}
    BY <1>3, ContinueKeepsOp DEF Ends, CallsTyped, Idle
  <2> QED
    BY <1>2, <1>3, <2>1 DEF Booked
<1>4. ASSUME NEW c \in Calls, Begin(c)
      PROVE  \/ Booked(ops)' \subseteq Booked(ops)
             \/ call'[c].op \in ops /\ Booked(ops)' \subseteq Booked(ops) \cup {c}
  BY <1>2, <1>4 DEF Booked
<1> QED
  BY <1>1, <1>3, <1>4, StepIsOfACall

\* A call that ends leaves its booking free.
LEMMA EndsFrees ==
    ASSUME CallsTyped, NEW c \in Calls, Ends(c), NEW ops \in SUBSET (Ops \ {"none"})
    PROVE  Booked(ops)' \subseteq Booked(ops) \ {c}
BY DEF Ends, CallsTyped, Booked, Idle

LEMMA BeginsWithRoom ==
    ASSUME CallsTyped, NEW c \in Calls, Begin(c)
    PROVE  /\ call'[c].op \in PasswordOps => RoomForPassword
           /\ call'[c].op \in InviteOps => RoomForInvitation
           /\ UNCHANGED <<account, invitation>>
<1>1. UNCHANGED <<account, invitation>>
  BY DEF Begin, CheckInvitee, LockInvitation, CheckPassword, LogOut, LogOutByToken,
         RevokeDevice, LockAccess, LockToken, CheckOldPassword, DisableAccount
<1>2. CASE CheckInvitee(c)
  <2>1. call'[c].op = "invite"
    BY <1>2 DEF CheckInvitee, Begins, CallsTyped, Idle
  <2> QED
    BY <1>1, <1>2, <2>1 DEF CheckInvitee, PasswordOps
<1>3. CASE CheckOldPassword(c)
  <2>1. call'[c].op = "password"
    BY <1>3 DEF CheckOldPassword, Begins, CallsTyped, Idle
  <2> QED
    BY <1>1, <1>3, <2>1 DEF CheckOldPassword, InviteOps
<1>4. ASSUME NEW v \in 1 .. MaxInvitations, NEW d \in Devices, LockInvitation(c, v, d)
      PROVE  call'[c].op = "activate" /\ RoomForPassword
  BY <1>4 DEF LockInvitation, CallsTyped, Idle
<1>5. ASSUME NEW d \in Devices,
             \/ CheckPassword(c, d) \/ LogOut(c, d) \/ LogOutByToken(c, d)
             \/ RevokeDevice(c, d) \/ LockAccess(c, d)
      PROVE  call'[c].op \in {"login", "logout", "webLogout", "revokeDevice", "access"}
  <2>1. CASE CheckPassword(c, d)
    BY <2>1 DEF CheckPassword, CallsTyped, Idle
  <2>2. CASE LogOut(c, d) \/ LogOutByToken(c, d)
    BY <2>2 DEF LogOut, LogOutByToken, CallsTyped, Idle
  <2>3. CASE RevokeDevice(c, d)
    BY <2>3 DEF RevokeDevice, CallsTyped, Idle
  <2>4. CASE LockAccess(c, d)
    BY <2>4 DEF LockAccess, CallsTyped, Idle
  <2> QED
    BY <1>5, <2>1, <2>2, <2>3, <2>4
<1>6. ASSUME NEW t \in Tokens, LockToken(c, t) PROVE call'[c].op = "refresh"
  BY <1>6 DEF LockToken, CallsTyped, Idle
<1>7. ASSUME DisableAccount(c) PROVE call'[c].op = "disable"
  BY <1>7 DEF DisableAccount, CallsTyped, Idle
<1> QED
  BY <1>1, <1>2, <1>3, <1>4, <1>5, <1>6, <1>7 DEF Begin, PasswordOps, InviteOps

\* Only a login's first transaction makes a call a login.
LEMMA LoginBegins ==
    ASSUME CallsTyped, NEW c \in Calls, Begin(c), call'[c].op = "login"
    PROVE  \E d \in Devices : CheckPassword(c, d)
<1>1. CASE CheckInvitee(c) \/ CheckOldPassword(c)
  BY <1>1 DEF CheckInvitee, CheckOldPassword, Begins, CallsTyped, Idle
<1>2. ASSUME NEW v \in 1 .. MaxInvitations, NEW d \in Devices, LockInvitation(c, v, d)
      PROVE  FALSE
  BY <1>2 DEF LockInvitation, CallsTyped, Idle
<1>3. ASSUME NEW d \in Devices, LogOut(c, d) \/ LogOutByToken(c, d) PROVE FALSE
  BY <1>3 DEF LogOut, LogOutByToken, CallsTyped, Idle
<1>4. ASSUME NEW d \in Devices, RevokeDevice(c, d) PROVE FALSE
  BY <1>4 DEF RevokeDevice, CallsTyped, Idle
<1>5. ASSUME NEW d \in Devices, LockAccess(c, d) PROVE FALSE
  BY <1>5 DEF LockAccess, CallsTyped, Idle
<1>6. ASSUME NEW t \in Tokens, LockToken(c, t) PROVE FALSE
  BY <1>6 DEF LockToken, CallsTyped, Idle
<1>7. CASE DisableAccount(c)
  BY <1>7 DEF DisableAccount, CallsTyped, Idle
<1> QED
  BY <1>1, <1>2, <1>3, <1>4, <1>5, <1>6, <1>7 DEF Begin

LEMMA PasswordWrites ==
    ASSUME TablesTyped, CallsTyped, [Next]_vars
    PROVE  \/ account'.password = account.password
           \/ /\ account'.password = account.password + 1
              /\ \/ CreateAccount
                 \/ \E c \in Calls : /\ Activate(c) \/ CommitPassword(c)
                                     /\ call[c].op \in PasswordOps
<1> USE DEF TablesTyped, Accounts
<1>1. CASE CreateAccount
  BY <1>1 DEF CreateAccount
<1>2. ASSUME NEW c \in Calls, Activate(c)
      PROVE  \/ account'.password = account.password
             \/ account'.password = account.password + 1 /\ call[c].op \in PasswordOps
  <2>1. call[c].op \in PasswordOps
    BY <1>2 DEF Activate, At, CallsTyped, CallRows, Places, Shape, PasswordOps
  <2>2. ASSUME account' = [status |-> "active", password |-> account.password + 1]
        PROVE  account'.password = account.password + 1
    BY <2>2
  <2> QED
    BY <1>2, <2>1, <2>2 DEF Activate
<1>3. ASSUME NEW c \in Calls, CommitPassword(c)
      PROVE  account'.password = account.password + 1 /\ call[c].op \in PasswordOps
  BY <1>3 DEF CommitPassword, PasswordOps
<1>4. CASE EnableAccount \/ \E c \in Calls : WriteInvitation(c) \/ CommitDisable(c)
  BY <1>4 DEF EnableAccount, WriteInvitation, CommitDisable
<1>5. CASE UNCHANGED account
  BY <1>5
<1>6. CASE Writes
  BY <1>1, <1>2, <1>3, <1>4, <1>5, <1>6
  DEF Writes, CommitLogin, CommitRotation, CommitLogOut, CommitReuse, GraceEnds
<1> QED
  BY <1>5, <1>6, StepWrites

LEMMA InvitationWrites ==
    ASSUME TablesTyped, CallsTyped, [Next]_vars
    PROVE  \/ invitation'.issued = invitation.issued
           \/ /\ invitation'.issued = invitation.issued + 1
              /\ \/ ResendInvitation
                 \/ \E c \in Calls : WriteInvitation(c) /\ call[c].op \in InviteOps
<1> USE DEF TablesTyped, Invitations
<1>1. CASE RevokeInvitation \/ InvitationExpires
  BY <1>1 DEF RevokeInvitation, InvitationExpires
<1>2. CASE ResendInvitation
  BY <1>2 DEF ResendInvitation
<1>3. ASSUME NEW c \in Calls, WriteInvitation(c)
      PROVE  invitation'.issued = invitation.issued + 1 /\ call[c].op \in InviteOps
  BY <1>3 DEF WriteInvitation, At, CallsTyped, Shape, InviteOps
<1>4. ASSUME NEW c \in Calls, Activate(c) PROVE invitation'.issued = invitation.issued
  BY <1>4 DEF Activate
<1>5. CASE UNCHANGED invitation
  BY <1>5
<1>6. ASSUME NEW c \in Calls, Begin(c) PROVE UNCHANGED invitation
  BY <1>6, BeginsWithRoom
<1>7. ASSUME NEW c \in Calls, Continue(c)
      PROVE  UNCHANGED invitation \/ WriteInvitation(c) \/ Activate(c)
  BY <1>7 DEF Continue, LockLogin, LockUser, UpdatePassword, BeginUpdate, UpdateRow, CommitAccess,
              CommitLogin, CommitRotation, CommitLogOut, CommitPassword, CommitDisable, CommitReuse
<1>8. CASE CreateAccount \/ EnableAccount \/ DeadlockBroken \/ UNCHANGED vars
           \/ (\E c \in Calls : Fails(c)) \/ \E t \in Tokens : GraceEnds(t)
  BY <1>5, <1>8 DEF CreateAccount, EnableAccount, DeadlockBroken, Fails, RolledBack, GraceEnds, vars
<1> QED
  BY <1>1, <1>2, <1>3, <1>4, <1>5, <1>6, <1>7, <1>8 DEF Next

LEMMA RoomHolds ==
    ASSUME TablesTyped, CallsTyped, Room, [Next]_vars
    PROVE  Room'
<1> DEFINE S == Booked(PasswordOps)
           I == Booked(InviteOps)
<1>1. PasswordOps \in SUBSET (Ops \ {"none"}) /\ InviteOps \in SUBSET (Ops \ {"none"})
  BY DEF PasswordOps, InviteOps, Ops
<1>2. /\ MaxPasswords \in Nat /\ MaxInvitations \in Nat
      /\ account.password \in Nat /\ invitation.issued \in Nat
  BY SessionAssumption DEF TablesTyped, Accounts, Invitations
<1>3. /\ IsFiniteSet(S) /\ IsFiniteSet(I)
      /\ RoomForPassword => account.password + Cardinality(S) < MaxPasswords
      /\ RoomForInvitation => invitation.issued + Cardinality(I) < MaxInvitations
  BY BookedFinite DEF RoomForPassword, RoomForInvitation, PasswordOps, InviteOps
<1>4. account'.password + Cardinality(S') <= MaxPasswords
  <2> DEFINE Kept == account'.password = account.password
             Set == account'.password = account.password + 1
  <2>1. CASE Kept /\ S' \subseteq S
    BY <1>2, <1>3, <2>1, RoomStep DEF Room
  <2>2. ASSUME NEW c \in Calls, Begin(c), call'[c].op \in PasswordOps, S' \subseteq S \cup {c}
        PROVE  account'.password + Cardinality(S') <= MaxPasswords
    <3>1. Kept /\ account.password + Cardinality(S) < MaxPasswords
      BY <1>3, <2>2, BeginsWithRoom
    <3> QED
      BY <1>2, <1>3, <2>2, <3>1, RoomStep DEF Room
  <2>3. CASE Set /\ CreateAccount
    <3>1. S' \subseteq S /\ account.password + Cardinality(S) < MaxPasswords
      BY <1>3, <2>3 DEF CreateAccount, Booked
    <3> QED
      BY <1>2, <1>3, <2>3, <3>1, RoomStep DEF Room
  <2>4. ASSUME Set, NEW c \in Calls, Activate(c) \/ CommitPassword(c), call[c].op \in PasswordOps
        PROVE  account'.password + Cardinality(S') <= MaxPasswords
    <3>1. c \in S /\ S' \subseteq S \ {c}
      BY <1>1, <2>4, EndsFrees DEF Activate, CommitPassword, Booked
    <3> QED
      BY <1>2, <1>3, <2>4, <3>1, RoomStep DEF Room
  <2> QED
    BY <1>1, <2>1, <2>2, <2>3, <2>4, Bookings, PasswordWrites
<1>5. invitation'.issued + Cardinality(I') <= MaxInvitations
  <2> DEFINE Kept == invitation'.issued = invitation.issued
             Added == invitation'.issued = invitation.issued + 1
  <2>1. CASE Kept /\ I' \subseteq I
    BY <1>2, <1>3, <2>1, RoomStep DEF Room
  <2>2. ASSUME NEW c \in Calls, Begin(c), call'[c].op \in InviteOps, I' \subseteq I \cup {c}
        PROVE  invitation'.issued + Cardinality(I') <= MaxInvitations
    <3>1. Kept /\ invitation.issued + Cardinality(I) < MaxInvitations
      BY <1>3, <2>2, BeginsWithRoom
    <3> QED
      BY <1>2, <1>3, <2>2, <3>1, RoomStep DEF Room
  <2>3. CASE Added /\ ResendInvitation
    <3>1. I' \subseteq I /\ invitation.issued + Cardinality(I) < MaxInvitations
      BY <1>3, <2>3 DEF ResendInvitation, Booked
    <3> QED
      BY <1>2, <1>3, <2>3, <3>1, RoomStep DEF Room
  <2>4. ASSUME Added, NEW c \in Calls, WriteInvitation(c), call[c].op \in InviteOps
        PROVE  invitation'.issued + Cardinality(I') <= MaxInvitations
    <3>1. c \in I /\ I' \subseteq I \ {c}
      BY <1>1, <2>4, EndsFrees DEF WriteInvitation, Booked
    <3> QED
      BY <1>2, <1>3, <2>4, <3>1, RoomStep DEF Room
  <2> QED
    BY <1>1, <2>1, <2>2, <2>3, <2>4, Bookings, InvitationWrites
<1> QED
  BY <1>4, <1>5 DEF Room

(***************************************************************************)
(* A token comes after the one it was cut from, and was signed in with a   *)
(* password that was set.                                                  *)
(***************************************************************************)
LEMMA ParentsHold ==
    ASSUME TablesTyped, CallsTyped, TokensHeld, ParentsBelow, \A c \in Calls : CallHeld(c),
           [Next]_vars
    PROVE  ParentsBelow'
<1>1. \A t \in Tokens : t \in Nat \ {0}
  BY SessionAssumption DEF Tokens
<1>2. CASE UNCHANGED token \/ Flagged
  BY <1>2 DEF Flagged, ParentsBelow
<1>3. ASSUME NEW t \in Tokens, NEW d \in Devices, NEW cred \in Nat, NEW late \in BOOLEAN,
             NextToken(t), Signed(t, d, cred, late)
      PROVE  ParentsBelow'
  <2>1. /\ \A u \in Tokens \ {t} : token'[u] = token[u]
        /\ token'[t].parent = 0
    BY <1>3 DEF TablesTyped, Signed
  <2> QED
    BY <1>1, <2>1 DEF ParentsBelow
<1>4. ASSUME NEW c \in Calls, NEW t \in Tokens, CommitRotation(c), NextToken(t),
             t # call[c].token, Cut(c, t)
      PROVE  ParentsBelow'
  <2>1. call[c].token \in Tokens /\ Exists(call[c].token)
    BY <1>4, RotationCuts
  <2>2. call[c].token \in 0 .. t - 1
    BY <1>1, <1>4, <2>1, NextTokenIsLast
  <2> QED
    BY <1>4, <2>1, <2>2 DEF ParentsBelow, Cut
<1> QED
  BY <1>2, <1>3, <1>4, TokenChanges

LEMMA PasswordsGrow ==
    ASSUME TablesTyped, CallsTyped, [Next]_vars
    PROVE  /\ account.password \in Nat /\ account'.password \in Nat
           /\ account.password <= account'.password
BY PasswordWrites DEF TablesTyped, Accounts

LEMMA LoginsChecked ==
    ASSUME TablesTyped, CallsTyped, [Next]_vars, CredsIssued
    PROVE  \A c \in Calls : call'[c].op = "login" => call'[c].cred \in 1 .. account'.password
<1>1. ASSUME NEW c \in Calls, call[c].op = "login"
      PROVE  call[c].cred \in 1 .. account'.password
  BY <1>1, PasswordsGrow DEF CredsIssued
<1>2. CASE UNCHANGED call
  BY <1>1, <1>2
<1>3. ASSUME NEW c \in Calls, Begin(c), call'[c].op = "login"
      PROVE  call'[c].cred \in 1 .. account'.password
  <2>1. PICK d \in Devices : CheckPassword(c, d)
    BY <1>3, LoginBegins
  <2> QED
    BY <2>1, PasswordsGrow DEF CheckPassword, CallsTyped, Idle
<1>4. ASSUME NEW c \in Calls, Continue(c) \/ Ends(c), call'[c].op = "login"
      PROVE  call[c].op = "login" /\ call'[c].cred = call[c].cred
  <2>1. CASE Ends(c)
    BY <1>4, <2>1 DEF Ends, CallsTyped, Idle
  <2>2. CASE LockLogin(c) \/ LockUser(c)
    BY <1>4, <2>1, <2>2 DEF LockLogin, LockUser, CallsTyped, CallRows
  <2>3. CASE UpdatePassword(c)
    BY <1>4, <2>3 DEF UpdatePassword, CallsTyped, CallRows
  <2>4. CASE BeginUpdate(c)
    BY <1>4, <2>4 DEF BeginUpdate, CallsTyped, CallRows
  <2>5. CASE UpdateRow(c)
    BY <1>4, <2>5 DEF UpdateRow, CallsTyped, CallRows
  <2> QED
    BY <1>4, <2>1, <2>2, <2>3, <2>4, <2>5
    DEF Continue, WriteInvitation, Activate, CommitLogin, CommitRotation, CommitLogOut,
        CommitPassword, CommitDisable, CommitReuse, CommitAccess
<1>5. ASSUME NEW c \in Calls, Begin(c) \/ Continue(c) \/ Ends(c)
      PROVE  \A b \in Calls \ {c} : call'[b] = call[b]
  BY <1>5, OthersStay
<1> QED
  BY <1>1, <1>2, <1>3, <1>4, <1>5, StepIsOfACall

LEMMA CredsHold ==
    ASSUME TablesTyped, CallsTyped, TokensHeld, CredsIssued, \A c \in Calls : CallHeld(c),
           [Next]_vars
    PROVE  CredsIssued'
<1>1. ASSUME NEW n \in 1 .. account.password PROVE n \in 1 .. account'.password
  BY PasswordsGrow
<1> DEFINE Issue == \A t \in Tokens : Exists(t)' => token'[t].cred \in 1 .. account'.password
<1>2. CASE UNCHANGED token \/ Flagged
  <2>1. \A t \in Tokens : (Exists(t)' <=> Exists(t)) /\ token'[t].cred = token[t].cred
    BY <1>2 DEF Flagged, Exists
  <2>2. Issue
    BY <1>1, <2>1 DEF CredsIssued
  <2> QED
    BY <2>2, LoginsChecked DEF CredsIssued
<1>3. ASSUME NEW c \in Calls, NEW t \in Tokens, NEW cred \in 1 .. account'.password,
             NEW late \in BOOLEAN, Signed(t, call[c].device, cred, late)
      PROVE  Issue
  <2>1. /\ \A u \in Tokens \ {t} : token'[u] = token[u]
        /\ token'[t].cred = cred
    BY <1>3 DEF TablesTyped, Signed
  <2> QED
    BY <1>1, <2>1 DEF CredsIssued, Exists
<1>4. ASSUME NEW c \in Calls, Activate(c) PROVE UNCHANGED token \/ Issue
  <2>1. CASE UNCHANGED token
    BY <2>1
  <2>2. ASSUME account' = [status |-> "active", password |-> account.password + 1],
               NEW t \in Tokens, Signed(t, call[c].device, account'.password, FALSE)
        PROVE  Issue
    <3>1. account'.password \in 1 .. account'.password /\ FALSE \in BOOLEAN
      BY <2>2 DEF TablesTyped, Accounts
    <3> QED
      BY <1>3, <2>2, <3>1
  <2> QED
    BY <1>4, <2>1, <2>2, ActivateSigns
<1>5. ASSUME NEW c \in Calls, CommitLogin(c) PROVE Issue
  <2> DEFINE late == call[c].cred # account.password
  <2>1. PICK t \in Tokens : Signed(t, call[c].device, call[c].cred, late)
    BY <1>5, LoginSigns
  <2>2. call[c].op = "login" /\ late \in BOOLEAN
    BY <1>5 DEF CommitLogin
  <2>3. call[c].cred \in 1 .. account'.password
    BY <1>1, <2>2 DEF CredsIssued
  <2> HIDE DEF late
  <2> QED
    BY <1>3, <2>1, <2>2, <2>3
<1>6. ASSUME NEW c \in Calls, CommitRotation(c) PROVE Issue
  <2>1. PICK t \in Tokens : NextToken(t) /\ t # call[c].token /\ Cut(c, t)
    BY <1>6, RotationCuts
  <2>2. call[c].token \in Tokens /\ Exists(call[c].token)
    BY <1>6, RotationCuts
  <2> DEFINE old == call[c].token
  <2>3. /\ token'[t].cred = token[old].cred
        /\ \A u \in Tokens \ {t} : /\ token'[u].cred = token[u].cred
                                   /\ token'[u].family = token[u].family
    BY <2>1, <2>2 DEF Cut
  <2> QED
    BY <1>1, <2>2, <2>3 DEF CredsIssued, Exists
<1>7. CASE Writes
  <2>1. ASSUME NEW c \in Calls,
               CommitLogOut(c) \/ CommitPassword(c) \/ CommitDisable(c) \/ CommitReuse(c)
        PROVE  Flagged
    BY <2>1, RevokedFlags DEF CommitLogOut, CommitPassword, CommitDisable, CommitReuse
  <2>2. ASSUME CreateAccount \/ EnableAccount \/ \E c \in Calls : WriteInvitation(c)
        PROVE  UNCHANGED token
    BY <2>2 DEF CreateAccount, EnableAccount, WriteInvitation
  <2>3. UNCHANGED token \/ Flagged \/ Issue
    BY <1>4, <1>5, <1>6, <1>7, <2>1, <2>2, GraceFlags DEF Writes
  <2> QED
    BY <1>2, <2>3, LoginsChecked DEF CredsIssued
<1> QED
  BY <1>2, <1>7, StepWrites

(***************************************************************************)
(* A bulk update moves a row from those to do to those it has.             *)
(***************************************************************************)
LEMMA RowsStayApart ==
    ASSUME TablesTyped, CallsTyped, RowsApart, [Next]_vars
    PROVE  RowsApart'
<1> DEFINE Apart(r) == r.rows \cap r.todo = {}
<1>1. ASSUME NEW c \in Calls, Ends(c) PROVE Apart(call'[c])
  BY <1>1 DEF Ends, CallsTyped, Idle
<1>2. ASSUME NEW c \in Calls, Begin(c) PROVE Apart(call'[c])
  <2>1. CASE CheckInvitee(c) \/ CheckOldPassword(c) \/ DisableAccount(c)
    BY <2>1 DEF CheckInvitee, CheckOldPassword, DisableAccount, Begins, CallsTyped, Idle
  <2>2. ASSUME NEW v \in 1 .. MaxInvitations, NEW d \in Devices, LockInvitation(c, v, d)
        PROVE  Apart(call'[c])
    BY <2>2 DEF LockInvitation, CallsTyped, Idle
  <2>3. ASSUME NEW d \in Devices, CheckPassword(c, d) \/ LogOut(c, d) \/ LogOutByToken(c, d)
        PROVE  Apart(call'[c])
    BY <2>3 DEF CheckPassword, LogOut, LogOutByToken, CallsTyped, Idle
  <2>4. ASSUME NEW d \in Devices, RevokeDevice(c, d) \/ LockAccess(c, d) PROVE Apart(call'[c])
    BY <2>4 DEF RevokeDevice, LockAccess, CallsTyped, Idle
  <2>5. ASSUME NEW t \in Tokens, LockToken(c, t) PROVE Apart(call'[c])
    BY <2>5 DEF LockToken, CallsTyped, Idle
  <2> QED
    BY <1>2, <2>1, <2>2, <2>3, <2>4, <2>5 DEF Begin
<1>3. ASSUME NEW c \in Calls, Continue(c) PROVE Apart(call'[c])
  <2>1. CASE BeginUpdate(c)
    BY <2>1 DEF BeginUpdate, CallsTyped, CallRows
  <2>2. CASE UpdateRow(c)
    BY <2>2 DEF UpdateRow, CallsTyped, CallRows, RowsApart
  <2>3. CASE LockLogin(c) \/ LockUser(c) \/ UpdatePassword(c)
    BY <1>1, <2>3 DEF LockLogin, LockUser, UpdatePassword, CallsTyped, CallRows, RowsApart
  <2> QED
    BY <1>1, <1>3, <2>1, <2>2, <2>3
    DEF Continue, WriteInvitation, Activate, CommitLogin, CommitRotation, CommitLogOut,
        CommitPassword, CommitDisable, CommitReuse, CommitAccess
<1>4. ASSUME NEW c \in Calls, Begin(c) \/ Continue(c) \/ Ends(c)
      PROVE  \A b \in Calls \ {c} : call'[b] = call[b]
  BY <1>4, OthersStay
<1>5. CASE UNCHANGED call
  BY <1>5 DEF RowsApart
<1> QED
  BY <1>1, <1>2, <1>3, <1>4, <1>5, StepIsOfACall DEF RowsApart

LEMMA TypesInit == SessionInit => TypesInvariant
<1> SUFFICES ASSUME SessionInit PROVE TypesInvariant
  OBVIOUS
<1>1. /\ account.password = 0 /\ invitation.issued = 0
      /\ \A c \in Calls : call[c] = Idle
      /\ \A t \in Tokens : token[t].family = 0 /\ token[t].parent = 0
  BY DEF SessionInit, NoInvitation, NoToken
<1>2. \A c \in Calls : call[c].op = "none" /\ call[c].rows = {}
  BY <1>1 DEF Idle
<1>3. Room
  <2>1. Booked(PasswordOps) = {} /\ Booked(InviteOps) = {}
    BY <1>2 DEF Booked, PasswordOps, InviteOps
  <2> QED
    BY <1>1, <2>1, FS_EmptySet, SessionAssumption DEF Room
<1>4. ParentsBelow /\ CredsIssued /\ RowsApart
  BY <1>1, <1>2, SessionAssumption DEF ParentsBelow, CredsIssued, RowsApart, Exists, Tokens
<1> QED
  BY <1>3, <1>4 DEF TypesInvariant

\* The rows and the calls have their types, and row locks exclude each other.
THEOREM SessionTypes == SessionSpec => []SessionTypeOK
<1>1. SessionInvariant /\ TypesInvariant /\ [Next]_vars => TypesInvariant'
  BY RoomHolds, ParentsHold, CredsHold, RowsStayApart DEF SessionInvariant, TypesInvariant
<1>2. SessionInvariant /\ TypesInvariant => SessionTypeOK
  <2> SUFFICES ASSUME SessionInvariant, TypesInvariant PROVE SessionTypeOK
    OBVIOUS
  <2>1. TablesTyped /\ TokensHeld /\ LocksAreExclusive
    BY DEF SessionInvariant
  <2>2. account.password \in 0 .. MaxPasswords /\ invitation.issued \in 0 .. MaxInvitations
    BY <2>1, BookedFinite, SessionAssumption DEF TypesInvariant, Room, TablesTyped, Accounts,
       Invitations
  <2>3. \A t \in Tokens : token[t].family \in 0 .. t
    BY <2>1, SessionAssumption DEF TablesTyped, TokensHeld, TokenRows, Exists, Tokens
  <2>4. account \in [status : {"absent", "pending", "active", "disabled"},
                     password : 0 .. MaxPasswords]
    BY <2>1, <2>2 DEF TablesTyped, Accounts, AccountStates
  <2> QED
    BY <2>1, <2>2, <2>3, <2>4 DEF TablesTyped, DeviceStates, TypesInvariant, ParentsBelow,
       CredsIssued, RowsApart, SessionTypeOK, Types
<1> QED
  BY <1>1, <1>2, TypesInit, SessionCorrect, PTL DEF SessionSpec
=============================================================================
