------------------------------ MODULE Sessions ------------------------------
(***************************************************************************)
(* One account, its devices and its refresh tokens.  Logins, rotations,    *)
(* logouts, device revocations, password changes, account status changes   *)
(* and activations by invitation run in transactions at the same time.     *)
(* They meet in row locks on the user, device, token and invitation rows;  *)
(* a bulk UPDATE of tokens works on the rows its statement saw when it     *)
(* began and waits, row by row, for those that others hold; the foreign    *)
(* key of an audit row waits for a user row held FOR UPDATE.  Cycles of    *)
(* waiting calls are broken by PostgreSQL, which fails one of them.        *)
(***************************************************************************)
EXTENDS Integers, FiniteSets, TLC

CONSTANTS
    Devices,
    Calls,          \* database connections of the API
    Limit,          \* REFRESH_FAMILY_ACTIVE_LIMIT
    MaxTokens,      \* bound: refresh tokens issued in one behaviour
    MaxPasswords,   \* bound: passwords set in one behaviour
    MaxInvitations, \* bound: invitation tokens issued in one behaviour
    None

ASSUME SessionAssumption ==
    /\ None \notin Devices
    /\ Limit \in Nat \ {0}
    /\ MaxTokens \in Nat
    /\ MaxPasswords \in Nat
    /\ MaxInvitations \in Nat

\* The API's connection pool is bounded.
ASSUME PoolIsFinite == IsFiniteSet(Calls)

Tokens == 1 .. MaxTokens
Symmetry == Permutations(Calls)

VARIABLES
    account,        \* the users row: status, and which password it holds (0: none)
    device,         \* devices: none, active or revoked
    token,          \* refresh_tokens
    invitation,     \* the invitations row of the account's address
    call,           \* what each connection is doing
    calm            \* history: only logins and prompt refreshes so far

vars == <<account, device, token, invitation, call, calm>>

(***************************************************************************)
(* Rows.  A family is named by its first token; family = 0 is no row.      *)
(* fresh: used_at lies within the grace window.  cred is the password the  *)
(* family was signed in with, late that it was checked before a password   *)
(* change and committed after it.  issued counts invitation tokens: the    *)
(* row holds the hash of the last one only.                                *)
(***************************************************************************)
NoToken == [family |-> 0, parent |-> 0, device |-> None, used |-> FALSE, revoked |-> FALSE,
            fresh |-> FALSE, grace |-> FALSE, cred |-> 0, late |-> FALSE]
NoInvitation == [issued |-> 0, status |-> "none"]

\* lock: how the user row is held; rows, holdsDevice: the other rows held;
\* todo: token rows a bulk update has still to reach (at "reported": has revoked).
Idle == [op |-> "none", pc |-> "idle", token |-> 0, device |-> None, cred |-> 0,
         grace |-> FALSE, lock |-> "none", holdsDevice |-> FALSE, rows |-> {}, todo |-> {}]

SessionInit ==
    /\ account = [status |-> "absent", password |-> 0]
    /\ device = [d \in Devices |-> "none"]
    /\ token = [t \in Tokens |-> NoToken]
    /\ invitation = NoInvitation
    /\ call = [c \in Calls |-> Idle]
    /\ calm = TRUE

Exists(t) == token[t].family # 0
Live(t) == Exists(t) /\ ~token[t].used /\ ~token[t].revoked
FamilyOf(t) == {u \in Tokens : Exists(u) /\ token[u].family = token[t].family}
OfDevice(t, d) == Exists(t) /\ token[t].device = d
NextToken(t) == ~Exists(t) /\ \A u \in Tokens : u < t => Exists(u)

\* The bounds leave room for what the calls under way will still issue.
Under(ops) == Cardinality({c \in Calls : call[c].op \in ops})
RoomForToken == Cardinality({t \in Tokens : Exists(t)}) + Under({"login", "activate", "refresh"})
                    < MaxTokens
RoomForPassword == account.password + Under({"activate", "password"}) < MaxPasswords
RoomForInvitation == invitation.issued + Under({"invite"}) < MaxInvitations

At(c, pc) == call[c].pc = pc
Begins(c, op, pc) == call' = [call EXCEPT ![c] = [Idle EXCEPT !.op = op, !.pc = pc]]
Ends(c) == call' = [call EXCEPT ![c] = Idle]

(***************************************************************************)
(* Locks.  FOR UPDATE ("update") excludes everybody from the user row; a   *)
(* plain UPDATE ("noKey") excludes writers, but not the foreign keys of    *)
(* audit rows.                                                             *)
(***************************************************************************)
Others(c) == Calls \ {c}
UserFree(c) == \A b \in Others(c) : call[b].lock = "none"
UserReferable(c) == \A b \in Others(c) : call[b].lock # "update"
DeviceFree(c) == \A b \in Others(c) : ~(call[b].holdsDevice /\ call[b].device = call[c].device)
TokenFree(c, t) == \A b \in Others(c) : t \notin call[b].rows
InvitationFree == \A c \in Calls : ~At(c, "activating")

(***************************************************************************)
(* Accounts and invitations.                                               *)
(***************************************************************************)
\* register_user (pending) and admin_create_user (active), with a password.
CreateAccount ==
    /\ account.status = "absent"
    /\ RoomForPassword
    /\ \E status \in {"pending", "active"} :
        account' = [status |-> status, password |-> account.password + 1]
    /\ UNCHANGED <<device, token, invitation, call, calm>>

\* create_invitation looks at the account without a lock ...
CheckInvitee(c) ==
    /\ At(c, "idle")
    /\ account.status \in {"absent", "pending"}
    /\ RoomForInvitation
    /\ Begins(c, "invite", "inviting")
    /\ UNCHANGED <<account, device, token, invitation, calm>>

\* ... and then upserts both rows.
WriteInvitation(c) ==
    /\ At(c, "inviting")
    /\ UserFree(c)
    /\ InvitationFree
    /\ account' = IF account.status = "absent" THEN [account EXCEPT !.status = "pending"]
                                               ELSE account
    /\ invitation' = [issued |-> invitation.issued + 1, status |-> "open"]
    /\ Ends(c)
    /\ UNCHANGED <<device, token, calm>>

RevokeInvitation ==
    /\ InvitationFree
    /\ invitation.status \in {"open", "expired"}
    /\ invitation' = [invitation EXCEPT !.status = "revoked"]
    /\ UNCHANGED <<account, device, token, call, calm>>

\* A resent invitation is a new token, also for an invitation that was revoked.
ResendInvitation ==
    /\ InvitationFree
    /\ invitation.status \in {"open", "expired", "revoked"}
    /\ RoomForInvitation
    /\ invitation' = [issued |-> invitation.issued + 1, status |-> "open"]
    /\ UNCHANGED <<account, device, token, call, calm>>

InvitationExpires ==
    /\ invitation.status = "open"
    /\ invitation' = [invitation EXCEPT !.status = "expired"]
    /\ UNCHANGED <<account, device, token, call, calm>>

Redeemable(v) == invitation = [issued |-> v, status |-> "open"]

\* Mutant: the invitation is read without FOR UPDATE.
LockInvitationReading(c, v, d) ==
    /\ At(c, "idle")
    /\ Redeemable(v)
    /\ RoomForToken /\ RoomForPassword
    /\ call' = [call EXCEPT ![c] = [Idle EXCEPT !.op = "activate", !.pc = "activatingUnlocked",
                                                !.device = d, !.cred = v]]
    /\ UNCHANGED <<account, device, token, invitation, calm>>

LockInvitation(c, v, d) ==
    /\ At(c, "idle")
    /\ InvitationFree
    /\ Redeemable(v)
    /\ RoomForToken /\ RoomForPassword
    /\ call' = [call EXCEPT ![c] = [Idle EXCEPT !.op = "activate", !.pc = "activating",
                                                !.device = d, !.cred = v]]
    /\ UNCHANGED <<account, device, token, invitation, calm>>

(***************************************************************************)
(* Sessions begin.  A new family for the device, in the same commit.       *)
(***************************************************************************)
Issued(c, t, cred) ==
    [NoToken EXCEPT !.family = t, !.device = call[c].device, !.cred = cred]

Activate(c) ==
    /\ At(c, "activating") \/ At(c, "activatingUnlocked")
    /\ UserFree(c)
    /\ \/ /\ account.status = "pending"
          /\ device[call[c].device] # "revoked"
          /\ account' = [status |-> "active", password |-> account.password + 1]
          /\ device' = [device EXCEPT ![call[c].device] = "active"]
          /\ invitation' = [invitation EXCEPT !.status = "used"]
          /\ \E t \in Tokens : /\ NextToken(t)
                               /\ token' = [token EXCEPT ![t] = Issued(c, t, account'.password)]
       \/ /\ account.status # "pending" \/ device[call[c].device] = "revoked"
          /\ UNCHANGED <<account, device, token, invitation>>
    /\ Ends(c)
    /\ UNCHANGED <<calm>>

\* Mutant: the empty hash of an invited account passes for any password.
CheckPasswordOfNone(c, d) ==
    /\ At(c, "idle")
    /\ account.status = "active"
    /\ RoomForToken
    /\ call' = [call EXCEPT ![c] = [Idle EXCEPT !.op = "login", !.pc = "checked",
                                                !.device = d, !.cred = account.password]]
    /\ UNCHANGED <<account, device, token, invitation, calm>>

\* The login route reads the user and verifies the password, outside any transaction ...
CheckPassword(c, d) ==
    /\ At(c, "idle")
    /\ account.status = "active"
    /\ account.password # 0
    /\ RoomForToken
    /\ call' = [call EXCEPT ![c] = [Idle EXCEPT !.op = "login", !.pc = "checked",
                                                !.device = d, !.cred = account.password]]
    /\ UNCHANGED <<account, device, token, invitation, calm>>

\* Mutant: the status is not looked at again.
LockLoginOfAny(c) ==
    /\ At(c, "checked")
    /\ UserFree(c)
    /\ IF device[call[c].device] # "revoked"
       THEN call' = [call EXCEPT ![c].pc = "touching", ![c].lock = "update"]
       ELSE Ends(c)
    /\ UNCHANGED <<account, device, token, invitation, calm>>

\* ... create_login_session locks the user row and looks at the device ...
LockLogin(c) ==
    /\ At(c, "checked")
    /\ UserFree(c)
    /\ IF account.status = "active" /\ device[call[c].device] # "revoked"
       THEN call' = [call EXCEPT ![c].pc = "touching", ![c].lock = "update"]
       ELSE Ends(c)
    /\ UNCHANGED <<account, device, token, invitation, calm>>

\* ... and inserts the token, updates the device row and commits.
CommitLogin(c) ==
    /\ At(c, "touching")
    /\ call[c].op = "login"
    /\ DeviceFree(c)
    /\ \E t \in Tokens :
        /\ NextToken(t)
        /\ token' = [token EXCEPT ![t] = [Issued(c, t, call[c].cred)
                        EXCEPT !.late = call[c].cred # account.password]]
    /\ device' = [device EXCEPT ![call[c].device] = IF @ = "none" THEN "active" ELSE @]
    /\ Ends(c)
    /\ UNCHANGED <<account, invitation, calm>>

(***************************************************************************)
(* rotate_refresh_token_inner.  The token row is locked and judged: first  *)
(* use, repeat within the grace window of a healthy family, or reuse.      *)
(***************************************************************************)
Healthy(t) == Cardinality({u \in FamilyOf(t) : Live(u)}) \in 1 .. Limit - 1

Spent(t) == token[t].used \/ token[t].revoked
\* Mutant: every repeat is a reuse.
RotatesOnce(t) == ~Spent(t)

Rotates(t) == Spent(t) => token[t].used /\ token[t].fresh /\ Healthy(t)

\* Mutant: the token is read without FOR UPDATE.
LockTokenReading(c, t) ==
    /\ At(c, "idle")
    /\ Exists(t)
    /\ Rotates(t) => RoomForToken
    /\ call' = [call EXCEPT ![c] = [Idle EXCEPT
                    !.op = "refresh", !.token = t, !.device = token[t].device,
                    !.grace = Spent(t),
                    !.pc = IF Rotates(t) THEN "rotating" ELSE "revoking"]]
    /\ UNCHANGED <<account, device, token, invitation, calm>>

LockToken(c, t) ==
    /\ At(c, "idle")
    /\ Exists(t)
    /\ TokenFree(c, t)
    /\ Rotates(t) => RoomForToken
    /\ call' = [call EXCEPT ![c] = [Idle EXCEPT
                    !.op = "refresh", !.token = t, !.device = token[t].device,
                    !.rows = {t}, !.grace = Spent(t),
                    !.pc = IF Rotates(t) THEN "rotating" ELSE "revoking"]]
    /\ UNCHANGED <<account, device, token, invitation, calm>>

LockUser(c) ==
    /\ At(c, "rotating")
    /\ UserFree(c)
    /\ IF account.status = "active" /\ device[call[c].device] = "active"
       THEN call' = [call EXCEPT ![c].pc = "touching", ![c].lock = "update"]
       ELSE Ends(c)
    /\ UNCHANGED <<account, device, token, invitation, calm>>

\* The old token is used up unless this is a grace rotation; the new one joins its family.
Rotated(c, t) ==
    LET old == call[c].token IN
    [u \in Tokens |->
        IF u = t THEN [token[old] EXCEPT !.parent = old, !.used = FALSE, !.revoked = FALSE,
                                         !.fresh = FALSE, !.grace = call[c].grace]
        ELSE IF u = old /\ ~call[c].grace
             THEN [token[u] EXCEPT !.used = TRUE, !.revoked = TRUE, !.fresh = TRUE]
        ELSE token[u]]

CommitRotation(c) ==
    /\ At(c, "touching")
    /\ call[c].op = "refresh"
    /\ DeviceFree(c)
    /\ \E t \in Tokens : NextToken(t) /\ token' = Rotated(c, t)
    /\ Ends(c)
    /\ UNCHANGED <<account, device, invitation, calm>>

(***************************************************************************)
(* Revocations.  Each ends in one bulk UPDATE of token rows.               *)
(***************************************************************************)
\* One UPDATE, of the rows it sees when it begins.
LogOut(c, d) ==
    /\ At(c, "idle")
    /\ device[d] # "none"
    /\ call' = [call EXCEPT ![c] = [Idle EXCEPT !.op = "logout", !.pc = "updating", !.device = d,
                                                !.todo = {t \in Tokens : OfDevice(t, d)}]]
    /\ calm' = FALSE
    /\ UNCHANGED <<account, device, token, invitation>>

\* logout_device_by_refresh_token: the device is that of the token presented.
LogOutByToken(c, d) ==
    /\ At(c, "idle")
    /\ \E t \in Tokens : OfDevice(t, d)
    /\ call' = [call EXCEPT ![c] = [Idle EXCEPT !.op = "webLogout", !.pc = "updating", !.device = d,
                    !.todo = {t \in Tokens : OfDevice(t, d) /\ ~token[t].revoked}]]
    /\ calm' = FALSE
    /\ UNCHANGED <<account, device, token, invitation>>

RevokeDevice(c, d) ==
    /\ At(c, "idle")
    /\ device[d] # "none"
    /\ \A b \in Others(c) : ~(call[b].holdsDevice /\ call[b].device = d)
    /\ call' = [call EXCEPT ![c] = [Idle EXCEPT !.op = "revokeDevice", !.pc = "revoking",
                                                !.device = d, !.holdsDevice = TRUE]]
    /\ calm' = FALSE
    /\ UNCHANGED <<account, device, token, invitation>>

\* The route verifies the current password, then change_password updates the user row.
CheckOldPassword(c) ==
    /\ At(c, "idle")
    /\ account.status = "active"
    /\ RoomForPassword
    /\ Begins(c, "password", "changing")
    /\ calm' = FALSE
    /\ UNCHANGED <<account, device, token, invitation>>

\* Mutant: the tokens are revoked before the user row is written.
UpdatePasswordLast(c) ==
    /\ At(c, "changing")
    /\ call' = [call EXCEPT ![c].pc = "revoking"]
    /\ UNCHANGED <<account, device, token, invitation, calm>>

UpdatePassword(c) ==
    /\ At(c, "changing")
    /\ UserFree(c)
    /\ call' = [call EXCEPT ![c].pc = "revoking", ![c].lock = "noKey"]
    /\ UNCHANGED <<account, device, token, invitation, calm>>

DisableAccount(c) ==
    /\ At(c, "idle")
    /\ UserFree(c)
    /\ account.status = "active"
    /\ call' = [call EXCEPT ![c] = [Idle EXCEPT !.op = "disable", !.pc = "revoking",
                                                !.lock = "update"]]
    /\ calm' = FALSE
    /\ UNCHANGED <<account, device, token, invitation>>

EnableAccount ==
    /\ \A c \in Calls : call[c].lock = "none"
    /\ account.status \in {"disabled", "pending"}
    /\ account' = [account EXCEPT !.status = "active"]
    /\ UNCHANGED <<device, token, invitation, call, calm>>

\* The rows the UPDATE of the other calls sees when it begins.
Scope(c) ==
    {t \in Tokens :
        /\ Exists(t)
        /\ call[c].op = "refresh" => t \in FamilyOf(call[c].token)
        /\ call[c].op = "revokeDevice" => OfDevice(t, call[c].device)}

BeginUpdate(c) ==
    /\ At(c, "revoking")
    /\ call' = [call EXCEPT ![c].pc = "updating", ![c].todo = Scope(c) \ call[c].rows]
    /\ UNCHANGED <<account, device, token, invitation, calm>>

UpdateRow(c) ==
    /\ At(c, "updating")
    /\ \E t \in call[c].todo :
        /\ TokenFree(c, t)
        /\ call' = [call EXCEPT ![c].todo = @ \ {t},
                                ![c].rows = IF call[c].op = "webLogout" /\ token[t].revoked
                                            THEN @ ELSE @ \cup {t}]
    /\ UNCHANGED <<account, device, token, invitation, calm>>

Updated(c) == At(c, "updating") /\ call[c].todo = {}
RowsRevoked(c) == [t \in Tokens |-> IF t \in call[c].rows THEN [token[t] EXCEPT !.revoked = TRUE]
                                                          ELSE token[t]]

\* Mutant: the audit row has no foreign key to the user.
AuditableAlways(c) == TRUE

\* The audit row refers to the user row (a web logout that changed nothing writes none).
Auditable(c) == UserReferable(c) \/ (call[c].op = "webLogout" /\ call[c].rows = {})

CommitLogOut(c) ==
    /\ Updated(c)
    /\ call[c].op \in {"logout", "webLogout", "revokeDevice"}
    /\ Auditable(c)
    /\ token' = RowsRevoked(c)
    /\ device' = IF call[c].op = "revokeDevice"
                 THEN [device EXCEPT ![call[c].device] = "revoked"] ELSE device
    /\ Ends(c)
    /\ UNCHANGED <<account, invitation, calm>>

CommitPassword(c) ==
    /\ Updated(c)
    /\ call[c].op = "password"
    /\ UserFree(c)
    /\ account' = [account EXCEPT !.password = @ + 1]
    /\ token' = RowsRevoked(c)
    /\ Ends(c)
    /\ UNCHANGED <<device, invitation, calm>>

CommitDisable(c) ==
    /\ Updated(c)
    /\ call[c].op = "disable"
    /\ account' = [account EXCEPT !.status = "disabled"]
    /\ token' = RowsRevoked(c)
    /\ Ends(c)
    /\ UNCHANGED <<device, invitation, calm>>

\* RefreshTokenReuse: the family is revoked and the reuse recorded, in one commit.
CommitReuse(c) ==
    /\ Updated(c)
    /\ call[c].op = "refresh"
    /\ Auditable(c)
    /\ token' = RowsRevoked(c)
    /\ Ends(c)
    /\ UNCHANGED <<account, device, invitation, calm>>

(***************************************************************************)
(* validate_access, run before every authenticated request: the user row   *)
(* is locked, the device is looked at and then written (last_seen_at).     *)
(***************************************************************************)
\* Mutant: the device is not looked at.
LockAccessOfAny(c, d) ==
    /\ At(c, "idle")
    /\ UserFree(c)
    /\ account.status = "active" /\ device[d] # "none"
    /\ call' = [call EXCEPT ![c] = [Idle EXCEPT !.op = "access", !.pc = "touching",
                                                !.device = d, !.lock = "update"]]
    /\ UNCHANGED <<account, device, token, invitation, calm>>

LockAccess(c, d) ==
    /\ At(c, "idle")
    /\ UserFree(c)
    /\ account.status = "active" /\ device[d] = "active"
    /\ call' = [call EXCEPT ![c] = [Idle EXCEPT !.op = "access", !.pc = "touching",
                                                !.device = d, !.lock = "update"]]
    /\ UNCHANGED <<account, device, token, invitation, calm>>

CommitAccess(c) ==
    /\ At(c, "touching")
    /\ call[c].op = "access"
    /\ DeviceFree(c)
    /\ Ends(c)
    /\ UNCHANGED <<account, device, token, invitation, calm>>

(***************************************************************************)
(* Time and failure.                                                       *)
(***************************************************************************)
GraceEnds(t) ==
    /\ token[t].fresh
    /\ token' = [token EXCEPT ![t].fresh = FALSE]
    /\ calm' = FALSE
    /\ UNCHANGED <<account, device, invitation, call>>

\* The transaction of a call is rolled back, at any time: nothing of it was visible.
RolledBack(c) == Ends(c) /\ UNCHANGED <<account, device, token, invitation, calm>>

Fails(c) == ~At(c, "idle") /\ RolledBack(c)

NeedsUser(c) == call[c].pc \in {"inviting", "activating", "checked", "rotating", "changing"}
NeedsAudit(c) == Updated(c) /\ call[c].op \notin {"password", "disable"} /\ ~Auditable(c)

WaitsFor(c, b) ==
    /\ c # b
    /\ \/ NeedsUser(c) /\ call[b].lock # "none"
       \/ NeedsAudit(c) /\ call[b].lock = "update"
       \/ At(c, "touching") /\ call[b].holdsDevice /\ call[b].device = call[c].device
       \/ At(c, "updating") /\ call[c].todo \cap call[b].rows # {}

\* PostgreSQL's deadlock_timeout: one call of a cycle of waiting calls is failed.
Knot(S) == S # {} /\ \A c \in S : \E b \in S : WaitsFor(c, b)
DeadlockBroken ==
    \E S \in SUBSET Calls :
        /\ Knot(S)
        /\ \A R \in SUBSET S : Knot(R) => R = S
        /\ \E c \in S : RolledBack(c)

----------------------------------------------------------------------------
Begin(c) ==
    \/ CheckInvitee(c)
    \/ \E v \in 1 .. MaxInvitations, d \in Devices : LockInvitation(c, v, d)
    \/ \E d \in Devices : CheckPassword(c, d) \/ LogOut(c, d) \/ LogOutByToken(c, d)
                          \/ RevokeDevice(c, d) \/ LockAccess(c, d)
    \/ \E t \in Tokens : LockToken(c, t)
    \/ CheckOldPassword(c)
    \/ DisableAccount(c)

Continue(c) ==
    \/ WriteInvitation(c) \/ Activate(c)
    \/ LockLogin(c) \/ CommitLogin(c)
    \/ LockUser(c) \/ CommitRotation(c)
    \/ UpdatePassword(c) \/ BeginUpdate(c) \/ UpdateRow(c)
    \/ CommitLogOut(c) \/ CommitPassword(c) \/ CommitDisable(c) \/ CommitReuse(c)
    \/ CommitAccess(c)

Next ==
    \/ CreateAccount \/ RevokeInvitation \/ ResendInvitation \/ InvitationExpires
    \/ EnableAccount
    \/ \E c \in Calls : Begin(c) \/ Continue(c) \/ Fails(c)
    \/ \E t \in Tokens : GraceEnds(t)
    \/ DeadlockBroken

SessionSpec == SessionInit /\ [][Next]_vars
----------------------------------------------------------------------------
(***************************************************************************)
(* The types of the rows and of the calls' records.  A token belongs to a  *)
(* session that was signed in with a password the account has had.         *)
(***************************************************************************)
Types ==
    /\ account \in [status : {"absent", "pending", "active", "disabled"},
                    password : 0 .. MaxPasswords]
    /\ device \in [Devices -> {"none", "active", "revoked"}]
    /\ \A t \in Tokens :
        /\ token[t].family \in 0 .. t
        /\ token[t].parent \in 0 .. t - 1
        /\ Exists(t) => token[t].device \in Devices /\ token[t].cred \in 1 .. account.password
    /\ invitation.issued \in 0 .. MaxInvitations
    /\ \A c \in Calls : call[c].rows \cap call[c].todo = {}

\* Row locks exclude each other, in whatever order the calls took them.
LocksAreExclusive ==
    \A b, c \in Calls : b # c =>
        /\ call[b].lock = "none" \/ call[c].lock = "none"
        /\ call[b].rows \cap call[c].rows = {}

SessionTypeOK == Types /\ LocksAreExclusive

(***************************************************************************)
(* rotate_refresh_token_inner: however many refreshes of one token run at  *)
(* the same time, only one counts as its first use; every other token cut  *)
(* from it is a grace rotation.                                            *)
(***************************************************************************)
OneSuccessor ==
    \A u, v \in Tokens :
        /\ Exists(u) /\ ~token[u].grace
        /\ Exists(v) /\ ~token[v].grace
        /\ token[u].parent = token[v].parent /\ token[u].parent # 0
        => u = v

(***************************************************************************)
(* revoke_device: once a revocation is committed no refresh token of the   *)
(* device is live, although login and rotation look at the device without  *)
(* a lock: the device row, the token rows and the audit row's foreign key  *)
(* leave a login or a rotation that overlaps it nothing but a deadlock.    *)
(***************************************************************************)
RevokedDeviceHasNoSession ==
    \A t \in Tokens : Live(t) => device[token[t].device] # "revoked"

(***************************************************************************)
(* admin_set_account_status: an account that is not active has no live     *)
(* refresh token, whatever logins and rotations overlapped its disabling.  *)
(***************************************************************************)
DisabledAccountHasNoSession ==
    account.status # "active" => \A t \in Tokens : ~Live(t)

(***************************************************************************)
(* change_password: every session signed in with an older password is      *)
(* revoked.  The exception is a login whose password was verified before   *)
(* the change and whose transaction followed it, with its descendants:     *)
(* create_login_session does not look at the password again.               *)
(***************************************************************************)
OldPasswordHasNoSession ==
    \A t \in Tokens : Live(t) => token[t].cred = account.password \/ token[t].late

(***************************************************************************)
(* The grace window's purpose: as long as a client only logs in and        *)
(* repeats refreshes within the window, no family is revoked, unless the   *)
(* repeats filled it to the limit.                                         *)
(***************************************************************************)
CalmClientStaysSignedIn ==
    calm => \A t \in Tokens :
        Exists(t) /\ token[t].revoked /\ ~token[t].used
            => Cardinality({u \in FamilyOf(t) : ~token[u].used}) >= Limit

(***************************************************************************)
(* activate_invitation: an invitation that was revoked, or replaced by a   *)
(* newer one, before the activation commits activates nothing.             *)
(***************************************************************************)
VoidInvitationNeverActivates ==
    [][ invitation.status # "used" /\ invitation'.status = "used" =>
            /\ invitation.status # "revoked"
            /\ \E c \in Calls : /\ call[c].op = "activate" /\ At(c, "idle")'
                                /\ call[c].cred = invitation.issued ]_vars

(***************************************************************************)
(* validate_access: a request is let through only while its device is      *)
(* active and its account too, at the moment the check commits.            *)
(***************************************************************************)
AccessIsOfActiveDevice ==
    [][ \A c \in Calls : CommitAccess(c) =>
            account.status = "active" /\ device[call[c].device] = "active" ]_vars
=============================================================================
