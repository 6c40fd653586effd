------------------------------- MODULE Accounts -------------------------------
(***************************************************************************)
(* The users table: sign-up, OAuth, passwords, the second factor, and what *)
(* administrators do to other accounts.                                    *)
(*                                                                         *)
(* A request reads the row, checks, and commits later; others commit in    *)
(* between.  Its UPDATE lists the columns it has changed and names the row *)
(* by its id only, so checks made on reading are not made again, and it    *)
(* fails if the row is gone.  The first step of an operation is its read   *)
(* with the checks, the second its commit.                                 *)
(***************************************************************************)
EXTENDS Integers, FiniteSets

CONSTANTS
    People,     \* e-mail addresses, and with each an identity at a provider
    AccountRequests,   \* requests in progress at one time
    MaxRequests \* bound: requests ever begun

ASSUME AccountsAssumption == MaxRequests \in Nat

VARIABLES
    account,    \* the row of each address, or Absent
    resetToken, \* per address the reset tokens, by the request that made them
    request,    \* what each request is doing
    begun,      \* number of requests begun
    governed    \* an administrator has changed or removed an account

accountVars == <<account, resetToken, request, begun, governed>>

Absent == [status |-> "absent"]
NoRequest == [op |-> "none"]
Serials == 0..MaxRequests
ResetTokenStates == {"none", "unused", "used"}

\* id, password and secret are named after the request that set them; the last
\* two are 0 for NULL.
AccountRow ==
    [id : Serials, status : {"pending", "approved", "rejected"}, admin : BOOLEAN,
     active : BOOLEAN, password : Serials, linked : BOOLEAN,
     secret : Serials, totp : BOOLEAN]

Operations ==
    {"signup", "oauth", "login", "password", "forgot", "reset", "enable2fa",
     "confirm2fa", "disable2fa", "disconnect", "unlink", "approve", "reject",
     "admin", "active", "delete"}

RequestStates ==
    {NoRequest}
    \cup [op : Operations, who : People, row : AccountRow \cup {Absent},
          nr : Serials, first : BOOLEAN, token : Serials]

AccountsTypeOK ==
    /\ account \in [People -> AccountRow \cup {Absent}]
    /\ resetToken \in [People -> [Serials -> ResetTokenStates]]
    /\ request \in [AccountRequests -> RequestStates]
    /\ begun \in Serials
    /\ governed \in BOOLEAN

Present(u) == account[u] # Absent

AccountsInit ==
    /\ account = [u \in People |-> Absent]
    /\ resetToken = [u \in People |-> [n \in Serials |-> "none"]]
    /\ request = [r \in AccountRequests |-> NoRequest]
    /\ begun = 0
    /\ governed = FALSE

-----------------------------------------------------------------------------
(* Reading *)

\* AuthMiddleware: whoever acts is active and approved when the request comes in.
Admitted(u) == Present(u) /\ account[u].active /\ account[u].status = "approved"

\* Mutant of NoUsers: the new account counts.
OneUser == Cardinality({u \in People : Present(u)}) = 1

NoUsers == \A u \in People : ~Present(u)

BeginWith(r, operation, u, resetBy) ==
    /\ request[r] = NoRequest
    /\ begun < MaxRequests
    /\ begun' = begun + 1
    /\ request' = [request EXCEPT ![r] =
                     [op |-> operation, who |-> u, row |-> account[u],
                      nr |-> begun + 1, first |-> NoUsers, token |-> resetBy]]
    /\ UNCHANGED <<account, resetToken, governed>>

Begin(r, operation, u) == BeginWith(r, operation, u, 0)

\* signup: the address is free; the users are counted.
BeginSignup(r, u) == ~Present(u) /\ Begin(r, "signup", u)

\* route_oauth_callback: whatever is known of the identity or the address.
BeginOAuth(r, u) == Begin(r, "oauth", u)

\* login: the password and, with 2FA on, the code are right.
BeginLogin(r, u) ==
    /\ Present(u)
    /\ account[u].password # 0
    /\ account[u].status = "approved"
    /\ account[u].totp => account[u].secret # 0
    /\ Begin(r, "login", u)

BeginForgot(r, u) == Present(u) /\ Begin(r, "forgot", u)

\* reset_password with a token that is unused and has not expired.
BeginReset(r, u) ==
    /\ Present(u)
    /\ \E n \in Serials : resetToken[u][n] = "unused" /\ BeginWith(r, "reset", u, n)

BeginChangePassword(r, u) ==
    /\ Admitted(u)
    /\ account[u].password # 0
    /\ Begin(r, "password", u)

BeginEnable2fa(r, u) == Admitted(u) /\ ~account[u].totp /\ Begin(r, "enable2fa", u)

BeginConfirm2fa(r, u) ==
    /\ Admitted(u)
    /\ account[u].secret # 0
    /\ ~account[u].totp
    /\ Begin(r, "confirm2fa", u)

BeginDisable2fa(r, u) ==
    /\ Admitted(u)
    /\ account[u].totp
    /\ account[u].password # 0
    /\ account[u].secret # 0
    /\ Begin(r, "disable2fa", u)

\* Mutant of BeginDisconnect: the password is not looked at.
DisconnectAnyone(r, u) ==
    /\ Present(u)
    /\ account[u].linked
    /\ Begin(r, "disconnect", u)

\* route_oauth_disconnect reads the session itself; it asks for a password to
\* be set, for otherwise nothing would be left to sign in with.
BeginDisconnect(r, u) ==
    /\ Present(u)
    /\ account[u].password # 0
    /\ account[u].linked
    /\ Begin(r, "disconnect", u)

\* route_naver_unlink_callback, route_kakao_unlink_callback: the provider says
\* the user has withdrawn consent.
BeginUnlink(r, u) == Present(u) /\ account[u].linked /\ Begin(r, "unlink", u)

\* An administrator's request; only the three last ones refuse the
\* administrator's own account.
BeginGovern(r, u) ==
    /\ Present(u)
    /\ \E operation \in {"approve", "reject", "admin", "active", "delete"}, a \in People :
          /\ Admitted(a)
          /\ account[a].admin
          /\ operation \in {"admin", "active", "delete"} => a # u
          /\ Begin(r, operation, u)

-----------------------------------------------------------------------------
(* Committing *)

Done(r) == request' = [request EXCEPT ![r] = NoRequest]

\* The UPDATE finds its row: the one that was read, by its id.
RowIsThere(r) ==
    LET u == request[r].who
    IN  Present(u) /\ request[r].row # Absent /\ account[u].id = request[r].row.id

Write(u, row) == account' = [account EXCEPT ![u] = row]

\* The first user is approved, and an administrator.
NewRow(r, password, linked) ==
    [id |-> request[r].nr, status |-> IF request[r].first THEN "approved" ELSE "pending",
     admin |-> request[r].first, active |-> TRUE, password |-> password,
     linked |-> linked, secret |-> 0, totp |-> FALSE]

\* The unique index on the address refuses the second of two inserts.
CommitSignup(r) ==
    LET u == request[r].who
    IN  /\ request[r].op = "signup"
        /\ IF Present(u) THEN UNCHANGED account
           ELSE Write(u, NewRow(r, request[r].nr, FALSE))
        /\ Done(r)
        /\ UNCHANGED <<resetToken, begun, governed>>

\* upsert_oauth_user: insert, or link the account if it was not linked.
CommitOAuth(r) ==
    LET u == request[r].who
        seen == request[r].row
    IN  /\ request[r].op = "oauth"
        /\ IF seen = Absent
           THEN IF Present(u) THEN UNCHANGED account ELSE Write(u, NewRow(r, 0, TRUE))
           ELSE IF RowIsThere(r) /\ ~seen.linked
                THEN Write(u, [account[u] EXCEPT !.linked = TRUE])
                ELSE UNCHANGED account
        /\ Done(r)
        /\ UNCHANGED <<resetToken, begun, governed>>

\* login's own commit comes after the session was created; with needs_rehash it
\* carries a new hash of the password that was read.
CommitLogin(r) ==
    LET u == request[r].who
    IN  /\ request[r].op = "login"
        /\ \/ UNCHANGED account
           \/ /\ RowIsThere(r)
              /\ Write(u, [account[u] EXCEPT !.password = request[r].row.password])
        /\ Done(r)
        /\ UNCHANGED <<resetToken, begun, governed>>

\* create_reset_token: the unused tokens are used up, a new one is added.
CommitForgot(r) ==
    LET u == request[r].who
    IN  /\ request[r].op = "forgot"
        /\ resetToken' =
              IF RowIsThere(r)
              THEN [resetToken EXCEPT ![u] =
                      [n \in Serials |->
                         IF n = request[r].nr THEN "unused"
                         ELSE IF @[n] = "unused" THEN "used" ELSE @[n]]]
              ELSE resetToken
        /\ Done(r)
        /\ UNCHANGED <<account, begun, governed>>

\* reset_password: new password and used token in one transaction.
CommitReset(r) ==
    LET u == request[r].who
    IN  /\ request[r].op = "reset"
        /\ IF RowIsThere(r)
           THEN /\ resetToken' = [resetToken EXCEPT ![u][request[r].token] = "used"]
                /\ Write(u, [account[u] EXCEPT !.password = request[r].nr])
           ELSE UNCHANGED <<account, resetToken>>
        /\ Done(r)
        /\ UNCHANGED <<begun, governed>>

\* The columns the other operations on one's own account change.
Changed(r, row) ==
    LET nr == request[r].nr
    IN  CASE request[r].op = "password" -> [row EXCEPT !.password = nr]
          [] request[r].op = "enable2fa" -> [row EXCEPT !.secret = nr]
          [] request[r].op = "confirm2fa" -> [row EXCEPT !.totp = TRUE]
          [] request[r].op = "disable2fa" -> [row EXCEPT !.secret = 0, !.totp = FALSE]
          [] request[r].op \in {"disconnect", "unlink"} -> [row EXCEPT !.linked = FALSE]

CommitOwn(r) ==
    LET u == request[r].who
    IN  /\ request[r].op \in {"password", "enable2fa", "confirm2fa", "disable2fa",
                              "disconnect", "unlink"}
        /\ IF RowIsThere(r) THEN Write(u, Changed(r, account[u])) ELSE UNCHANGED account
        /\ Done(r)
        /\ UNCHANGED <<resetToken, begun, governed>>

\* The verdicts of an administrator.  A toggle writes the opposite of what was
\* read; a deleted user takes projects, tokens and reset tokens along.
CommitGovern(r) ==
    LET u == request[r].who
        op == request[r].op
        seen == request[r].row
        row == account[u]
    IN  /\ op \in {"approve", "reject", "admin", "active", "delete"}
        /\ IF ~RowIsThere(r) THEN UNCHANGED <<account, resetToken>>
           ELSE /\ Write(u, CASE op = "approve" -> [row EXCEPT !.status = "approved"]
                              [] op = "reject" -> [row EXCEPT !.status = "rejected"]
                              [] op = "admin" -> [row EXCEPT !.admin = ~seen.admin]
                              [] op = "active" -> [row EXCEPT !.active = ~seen.active]
                              [] op = "delete" -> Absent)
                /\ resetToken' =
                      IF op = "delete"
                      THEN [resetToken EXCEPT ![u] = [n \in Serials |-> "none"]]
                      ELSE resetToken
        /\ governed' = TRUE
        /\ Done(r)
        /\ UNCHANGED begun

AccountsNext ==
    \E r \in AccountRequests :
        \/ \E u \in People :
              \/ BeginSignup(r, u) \/ BeginOAuth(r, u) \/ BeginLogin(r, u)
              \/ BeginForgot(r, u) \/ BeginReset(r, u) \/ BeginChangePassword(r, u)
              \/ BeginEnable2fa(r, u) \/ BeginConfirm2fa(r, u) \/ BeginDisable2fa(r, u)
              \/ BeginDisconnect(r, u) \/ BeginUnlink(r, u) \/ BeginGovern(r, u)
        \/ CommitSignup(r) \/ CommitOAuth(r) \/ CommitLogin(r)
        \/ CommitForgot(r) \/ CommitReset(r) \/ CommitOwn(r) \/ CommitGovern(r)

AccountsSpec == AccountsInit /\ [][AccountsNext]_accountVars

-----------------------------------------------------------------------------

\* As long as no administrator has removed or changed an account, somebody can
\* approve the others: whatever sign-ups and OAuth sign-ins overlap, the first
\* account to be committed belongs to an approved administrator.
SomebodyCanApprove ==
    \/ governed
    \/ \A u \in People : ~Present(u)
    \/ \E u \in People : Admitted(u) /\ account[u].admin

\* Every account keeps something to sign in with: disconnecting never leaves one
\* without password and without provider.  Only the provider's own callback,
\* which clears the link whatever else is there, is allowed to.
DisconnectKeepsAccess ==
    [][\A r \in AccountRequests :
          request[r].op = "disconnect" /\ request'[r] = NoRequest
          => \A u \in People :
                Present(u) /\ account'[u] # Absent
                => account'[u].password # 0 \/ account'[u] = account[u]]_accountVars
=============================================================================
