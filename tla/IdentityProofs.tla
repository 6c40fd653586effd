--------------------------- MODULE IdentityProofs ---------------------------
(***************************************************************************)
(* Safety of sign-in, of the accounts and of pairing, for every number of  *)
(* users, tasks, requests, devices and tokens.                             *)
(***************************************************************************)
EXTENDS WebSessions, Accounts, Pairing, TLAPS

-----------------------------------------------------------------------------
(* Web sessions *)

\* The variables of sign-in keep their types.
THEOREM WebSessionsTypeCorrect == WebSessionsSpec => []WebSessionsTypeOK
<1> USE WebSessionsAssumption DEF WebSessionsAssumption
<1>1. WebSessionsInit => WebSessionsTypeOK
  BY DEF WebSessionsInit, WebSessionsTypeOK, SignInStates, NotSigningIn, NoSweep
<1>2. WebSessionsTypeOK /\ [WebSessionsNext]_sessionVars => WebSessionsTypeOK'
  <2> SUFFICES ASSUME WebSessionsTypeOK, [WebSessionsNext]_sessionVars
               PROVE  WebSessionsTypeOK'
    OBVIOUS
  <2> USE DEF SameSessions, SameFails
  <2>1. ASSUME NEW t \in SignIns, NEW s \in SignInStates, SignInGoes(t, s)
        PROVE  signIn' \in [SignIns -> SignInStates]
    BY <2>1 DEF SignInGoes, WebSessionsTypeOK
  <2>2. ASSUME NEW t \in SignIns, signIn[t].at # "idle"
        PROVE  signIn[t].who \in Clients
    BY <2>2 DEF WebSessionsTypeOK, SignInStates, NotSigningIn
  <2>3. ASSUME NEW u \in Clients, NEW a \in {"reading", "fresh", "counting", "listing"}
        PROVE  [at |-> a, who |-> u] \in SignInStates
    BY DEF SignInStates
  <2>4. NotSigningIn \in SignInStates
    BY DEF SignInStates
  <2>5. ASSUME NEW t \in SignIns, NEW u \in Clients, StartLogin(t, u) \/ OAuthSignIn(t, u)
        PROVE  WebSessionsTypeOK'
    BY <2>1, <2>3, <2>5 DEF StartLogin, OAuthSignIn, WebSessionsTypeOK
  <2>6. ASSUME NEW t \in SignIns, CountFailure(t) PROVE WebSessionsTypeOK'
    <3>1. signIn[t].who \in Clients
      BY <2>2, <2>6 DEF CountFailure
    <3>2. fails' \in [Clients -> Nat]
      BY <2>6, <3>1 DEF CountFailure, WebSessionsTypeOK
    <3>3. [at |-> "counted", who |-> signIn[t].who, count |-> fails[signIn[t].who] + 1]
            \in SignInStates
      BY <3>1 DEF SignInStates, WebSessionsTypeOK
    <3> QED BY <2>1, <2>6, <3>2, <3>3 DEF CountFailure, WebSessionsTypeOK
  <2>7. ASSUME NEW t \in SignIns, LimitCounter(t) PROVE WebSessionsTypeOK'
    <3>1. signIn[t].who \in Clients
      BY <2>2, <2>7 DEF LimitCounter
    <3> QED BY <2>1, <2>4, <2>7, <3>1 DEF LimitCounter, WebSessionsTypeOK
  <2>8. ASSUME NEW t \in SignIns, RefuseLogin(t) PROVE WebSessionsTypeOK'
    BY <2>1, <2>4, <2>8 DEF RefuseLogin, WebSessionsTypeOK
  <2>9. ASSUME NEW t \in SignIns, ClearFails(t) PROVE WebSessionsTypeOK'
    <3>1. signIn[t].who \in Clients
      BY <2>2, <2>9 DEF ClearFails
    <3> QED BY <2>1, <2>3, <2>9, <3>1 DEF ClearFails, WebSessionsTypeOK
  <2>10. ASSUME NEW t \in SignIns, CreateSession(t) PROVE WebSessionsTypeOK'
    <3>1. signIn[t].who \in Clients
      BY <2>2, <2>10 DEF CreateSession
    <3>2. lastSession + 1 \in SessionIds /\ lastSession + 1 \in 0..MaxSessions
      BY <2>10 DEF CreateSession, WebSessionsTypeOK, SessionIds
    <3>3. signIn' \in [SignIns -> SignInStates]
      BY <2>1, <2>3, <2>10, <3>1 DEF CreateSession
    <3> QED BY <2>10, <3>1, <3>2, <3>3 DEF CreateSession, WebSessionsTypeOK
  <2>11. ASSUME NEW t \in SignIns, CountListed(t) PROVE WebSessionsTypeOK'
    <3>1. signIn[t].who \in Clients
      BY <2>2, <2>11 DEF CountListed
    <3>2. signIn' \in [SignIns -> SignInStates]
      BY <2>1, <2>3, <2>4, <2>11, <3>1 DEF CountListed
    <3> QED BY <2>11, <3>2 DEF CountListed, WebSessionsTypeOK
  <2>12. ASSUME NEW t \in SignIns, ReadListed(t) PROVE WebSessionsTypeOK'
    <3>1. signIn[t].who \in Clients
      BY <2>2, <2>12 DEF ReadListed
    <3>2. [at |-> "dropping", who |-> signIn[t].who, members |-> listed[signIn[t].who]]
            \in SignInStates
      BY <3>1 DEF SignInStates, WebSessionsTypeOK
    <3>3. signIn' \in [SignIns -> SignInStates]
      BY <2>1, <2>4, <2>12, <3>2 DEF ReadListed
    <3> QED BY <2>12, <3>3 DEF ReadListed, WebSessionsTypeOK
  <2>13. ASSUME NEW t \in SignIns, NEW n \in SessionIds, DropMember(t, n)
         PROVE  WebSessionsTypeOK'
    <3>1. signIn[t] \in [at : {"dropping"}, who : Clients, members : SUBSET SessionIds]
      BY <2>13 DEF DropMember, WebSessionsTypeOK, SignInStates, NotSigningIn
    <3>2. [signIn[t] EXCEPT !.members = signIn[t].members \ {n}] \in SignInStates
      BY <3>1 DEF SignInStates
    <3>3. signIn' \in [SignIns -> SignInStates]
      BY <2>1, <2>4, <2>13, <3>2 DEF DropMember
    <3>4. listed' \in [Clients -> SUBSET SessionIds]
      BY <2>13, <3>1 DEF DropMember, WebSessionsTypeOK
    <3> QED BY <2>13, <3>3, <3>4 DEF DropMember, WebSessionsTypeOK
  <2>14. ASSUME NEW n \in SessionIds, Logout(n) \/ SessionExpires(n) PROVE WebSessionsTypeOK'
    <3>1. CASE Logout(n)
      <4>1. listed' = [listed EXCEPT ![owner[n]] = listed[owner[n]] \ {n}]
        BY <3>1 DEF Logout
      <4>2. listed' \in [Clients -> SUBSET SessionIds]
        <5>1. CASE owner[n] \in Clients
          BY <4>1, <5>1 DEF WebSessionsTypeOK
        <5>2. CASE owner[n] \notin Clients
          BY <4>1, <5>2 DEF WebSessionsTypeOK
        <5> QED BY <5>1, <5>2
      <4> QED BY <3>1, <4>2 DEF Logout, WebSessionsTypeOK
    <3>2. CASE SessionExpires(n)
      BY <3>2 DEF SessionExpires, WebSessionsTypeOK
    <3> QED BY <2>14, <3>1, <3>2
  <2>15. ASSUME NEW u \in Clients, StartSweep(u) \/ FailsExpire(u) PROVE WebSessionsTypeOK'
    <3>1. CASE StartSweep(u)
      <4>1. sweep' \in [on : {TRUE}, who : Clients, members : SUBSET SessionIds]
        BY <3>1 DEF StartSweep, WebSessionsTypeOK
      <4> QED BY <3>1, <4>1 DEF StartSweep, WebSessionsTypeOK
    <3>2. CASE FailsExpire(u)
      BY <3>2 DEF FailsExpire, WebSessionsTypeOK
    <3> QED BY <2>15, <3>1, <3>2
  <2>16. CASE FinishSweep
    BY <2>16 DEF FinishSweep, WebSessionsTypeOK
  <2>17. CASE KillSignIns
    BY <2>4, <2>17 DEF KillSignIns, WebSessionsTypeOK
  <2>18. CASE UNCHANGED sessionVars
    BY <2>18 DEF sessionVars, WebSessionsTypeOK
  <2> QED BY <2>5, <2>6, <2>7, <2>8, <2>9, <2>10, <2>11, <2>12, <2>13, <2>14, <2>15, <2>16,
             <2>17, <2>18 DEF WebSessionsNext
<1> QED BY <1>1, <1>2, PTL DEF WebSessionsSpec

\* A step that leaves the counters alone, and the sign-ins that are about to limit
\* one, keeps every lock-out on its way to an end.
LEMMA LockoutsUnchanged ==
  ASSUME LockoutsEnd, UNCHANGED <<fails, failTtl, orphaned>>,
         \A t \in SignIns : signIn[t].at = "counted" => signIn'[t] = signIn[t]
  PROVE  LockoutsEnd'
BY DEF LockoutsEnd, AboutToLimit

\* A lock-out always ends: a counter of failures has a time to live, or is about
\* to get one, unless the process was killed between INCR and EXPIRE.
THEOREM LockoutsAlwaysEnd == WebSessionsSpec => []LockoutsEnd
<1>1. WebSessionsInit => LockoutsEnd
  BY DEF WebSessionsInit, LockoutsEnd
<1>2. WebSessionsTypeOK /\ LockoutsEnd /\ [WebSessionsNext]_sessionVars => LockoutsEnd'
  <2> SUFFICES ASSUME WebSessionsTypeOK, LockoutsEnd, [WebSessionsNext]_sessionVars
               PROVE  LockoutsEnd'
    OBVIOUS
  <2> USE DEF SameSessions, SameFails
  <2>1. ASSUME NEW t \in SignIns, NEW s, SignInGoes(t, s), signIn[t].at # "counted"
        PROVE  \A q \in SignIns : signIn[q].at = "counted" => signIn'[q] = signIn[q]
    BY <2>1 DEF SignInGoes, WebSessionsTypeOK
  <2>2. ASSUME NEW t \in SignIns, NEW u \in Clients, StartLogin(t, u) \/ OAuthSignIn(t, u)
        PROVE  LockoutsEnd'
    BY <2>1, <2>2, LockoutsUnchanged DEF StartLogin, OAuthSignIn, NotSigningIn
  <2>3. ASSUME NEW t \in SignIns, CountFailure(t) PROVE LockoutsEnd'
    <3> DEFINE w == signIn[t].who
    <3>1. w \in Clients /\ signIn[t].at = "reading"
      BY <2>3 DEF CountFailure, WebSessionsTypeOK, SignInStates, NotSigningIn
    <3>2. /\ fails' = [fails EXCEPT ![w] = @ + 1]
          /\ signIn'[t] = [at |-> "counted", who |-> w, count |-> fails[w] + 1]
          /\ \A q \in SignIns \ {t} : signIn'[q] = signIn[q]
          /\ UNCHANGED <<failTtl, orphaned>>
      BY <2>3 DEF CountFailure, SignInGoes, WebSessionsTypeOK
    <3>3. ASSUME NEW u \in Clients PROVE AboutToLimit(u) \subseteq AboutToLimit(u)'
      BY <3>1, <3>2 DEF AboutToLimit
    <3>4. CASE fails[w] = 0
      <4>1. t \in AboutToLimit(w)'
        BY <3>2, <3>4 DEF AboutToLimit
      <4>2. \A u \in Clients \ {w} : fails'[u] = fails[u]
        BY <3>2 DEF WebSessionsTypeOK
      <4> QED BY <3>2, <3>3, <4>1, <4>2 DEF LockoutsEnd
    <3>5. CASE fails[w] # 0
      <4>1. \A u \in Clients : fails'[u] > 0 => fails[u] > 0
        BY <3>1, <3>2, <3>5 DEF WebSessionsTypeOK
      <4> QED BY <3>2, <3>3, <4>1 DEF LockoutsEnd
    <3> QED BY <3>4, <3>5
  <2>4. ASSUME NEW t \in SignIns, LimitCounter(t) PROVE LockoutsEnd'
    <3> DEFINE w == signIn[t].who
    <3>1. /\ failTtl' = IF signIn[t].count = 1 /\ fails[w] > 0 THEN failTtl \cup {w} ELSE failTtl
          /\ \A q \in SignIns \ {t} : signIn'[q] = signIn[q]
          /\ UNCHANGED <<fails, orphaned>>
      BY <2>4 DEF LimitCounter, FirstFailure, SignInGoes, WebSessionsTypeOK
    <3>2. ASSUME NEW u \in Clients, t \notin AboutToLimit(u)
          PROVE  AboutToLimit(u) \subseteq AboutToLimit(u)'
      BY <3>1, <3>2 DEF AboutToLimit
    <3>3. ASSUME NEW u \in Clients, t \in AboutToLimit(u), fails[u] > 0
          PROVE  u \in failTtl'
      BY <3>1, <3>3 DEF AboutToLimit
    <3> QED BY <3>1, <3>2, <3>3 DEF LockoutsEnd
  <2>5. ASSUME NEW t \in SignIns, ClearFails(t) PROVE LockoutsEnd'
    <3> DEFINE w == signIn[t].who
    <3>1. w \in Clients /\ signIn[t].at = "reading"
      BY <2>5 DEF ClearFails, WebSessionsTypeOK, SignInStates, NotSigningIn
    <3>2. /\ fails'[w] = 0
          /\ \A u \in Clients \ {w} :
                fails'[u] = fails[u] /\ (u \in failTtl \cup orphaned => u \in failTtl' \cup orphaned')
      BY <2>5, <3>1 DEF ClearFails, WebSessionsTypeOK
    <3>3. \A u \in Clients : AboutToLimit(u) \subseteq AboutToLimit(u)'
      BY <2>5, <3>1 DEF ClearFails, SignInGoes, AboutToLimit, WebSessionsTypeOK
    <3> QED BY <3>2, <3>3 DEF LockoutsEnd
  <2>6. ASSUME NEW t \in SignIns,
               RefuseLogin(t) \/ CreateSession(t) \/ CountListed(t) \/ ReadListed(t)
        PROVE  LockoutsEnd'
    BY <2>1, <2>6, LockoutsUnchanged DEF RefuseLogin, CreateSession, CountListed, ReadListed
  <2>7. ASSUME NEW t \in SignIns, NEW n \in SessionIds, DropMember(t, n) PROVE LockoutsEnd'
    BY <2>1, <2>7, LockoutsUnchanged DEF DropMember
  <2>8. ASSUME NEW n \in SessionIds, Logout(n) \/ SessionExpires(n) PROVE LockoutsEnd'
    BY <2>8, LockoutsUnchanged DEF Logout, SessionExpires
  <2>9. ASSUME NEW u \in Clients, StartSweep(u) PROVE LockoutsEnd'
    BY <2>9, LockoutsUnchanged DEF StartSweep
  <2>10. ASSUME NEW u \in Clients, FailsExpire(u) PROVE LockoutsEnd'
    BY <2>10 DEF FailsExpire, LockoutsEnd, AboutToLimit, WebSessionsTypeOK
  <2>11. CASE FinishSweep
    BY <2>11, LockoutsUnchanged DEF FinishSweep
  <2>12. CASE KillSignIns
    BY <2>12 DEF KillSignIns, LockoutsEnd
  <2>13. CASE UNCHANGED sessionVars
    BY <2>13, LockoutsUnchanged DEF sessionVars
  <2> QED BY <2>2, <2>3, <2>4, <2>5, <2>6, <2>7, <2>8, <2>9, <2>10, <2>11, <2>12, <2>13
          DEF WebSessionsNext
<1> QED BY <1>1, <1>2, WebSessionsTypeCorrect, PTL DEF WebSessionsSpec

-----------------------------------------------------------------------------
(* Accounts: the inductive invariant *)

Pending(r) == request[r] # NoRequest

\* The ids of the rows that are there, and of those that requests have read.
KnownIds ==
    {account[u].id : u \in {v \in People : Present(v)}}
    \cup {request[r].row.id : r \in {q \in AccountRequests : Pending(q) /\ request[q].row # Absent}}

\* Requests are numbered as they begin.
NumbersAreOwn ==
    \A r \in AccountRequests :
        Pending(r) => /\ request[r].nr \in 1..begun
                      /\ \A q \in AccountRequests \ {r} :
                            Pending(q) => request[q].nr # request[r].nr

\* No row bears the number of a request that is still to come back: an account
\* made after another was deleted is told apart from it.
IdsAreSpent ==
    /\ \A i \in KnownIds : i <= begun
    /\ \A r \in AccountRequests : Pending(r) => request[r].nr \notin KnownIds

\* Who did not find the table empty will not find it empty.
LateComersAreNotAlone ==
    \/ governed
    \/ ~NoUsers
    \/ \A r \in AccountRequests : Pending(r) => request[r].first

\* A login that may renew the hash of a password has read a password.
LoginsHavePasswords ==
    \A r \in AccountRequests :
        request[r].op = "login" => request[r].row # Absent /\ request[r].row.password # 0

\* The account about to lose its link keeps the password it was seen with.
DisconnectsHavePasswords ==
    \A r \in AccountRequests :
        request[r].op = "disconnect" /\ RowIsThere(r) => account[request[r].who].password # 0

AccountsInv ==
    /\ NumbersAreOwn
    /\ IdsAreSpent
    /\ LateComersAreNotAlone
    /\ LoginsHavePasswords
    /\ DisconnectsHavePasswords
    /\ SomebodyCanApprove

\* What a pending request is about.
LEMMA PendingIsTyped ==
  ASSUME AccountsTypeOK, NEW r \in AccountRequests, request[r].op # "none"
  PROVE  /\ Pending(r)
         /\ request[r] \in [op : Operations, who : People, row : AccountRow \cup {Absent},
                            nr : Serials, first : BOOLEAN, token : Serials]
BY DEF AccountsTypeOK, RequestStates, NoRequest, Pending

\* A request begins: it has read what is there, and nothing of it has changed yet.
LEMMA BeginKeepsAccounts ==
  ASSUME AccountsTypeOK, AccountsInv, NEW r \in AccountRequests, NEW op \in Operations,
         NEW u \in People, NEW k \in Serials, BeginWith(r, op, u, k),
         op \in {"login", "disconnect"} => Present(u) /\ account[u].password # 0
  PROVE  AccountsTypeOK' /\ AccountsInv'
<1> USE AccountsAssumption DEF AccountsAssumption, Serials
<1> DEFINE new == [op |-> op, who |-> u, row |-> account[u], nr |-> begun + 1,
                   first |-> NoUsers, token |-> k]
<1>1. /\ begun' = begun + 1 /\ begun' \in Serials
      /\ request'[r] = new
      /\ \A q \in AccountRequests \ {r} : request'[q] = request[q]
      /\ UNCHANGED <<account, resetToken, governed>>
      /\ request[r] = NoRequest
  BY DEF BeginWith, AccountsTypeOK
<1>2. new \in [op : Operations, who : People, row : AccountRow \cup {Absent},
              nr : Serials, first : BOOLEAN, token : Serials]
  <2>1. NoUsers \in BOOLEAN /\ begun + 1 \in Serials
    BY <1>1 DEF NoUsers
  <2> HIDE DEF Serials
  <2> QED BY <2>1 DEF AccountsTypeOK
<1>3. AccountsTypeOK'
  <2>1. request' \in [AccountRequests -> RequestStates]
    BY <1>2 DEF BeginWith, AccountsTypeOK, RequestStates
  <2> QED BY <1>1, <2>1 DEF AccountsTypeOK
<1>4. ASSUME NEW q \in AccountRequests, q # r
      PROVE  request'[q] = request[q] /\ (Pending(q)' <=> Pending(q))
  BY <1>1, <1>4 DEF Pending
<1>5. ASSUME NEW q \in AccountRequests, Pending(q)
      PROVE  request[q].nr \in 1..begun
  BY <1>5 DEF AccountsInv, NumbersAreOwn
<1>6. NumbersAreOwn'
  <2>1. \A q \in AccountRequests \ {r} : Pending(q)' => request'[q].nr \in 1..begun
    BY <1>4, <1>5
  <2>2. request'[r].nr = begun + 1 /\ begun \in Nat
    BY <1>1 DEF AccountsTypeOK
  <2>3. \A p, q \in AccountRequests \ {r} :
           p # q /\ Pending(p)' /\ Pending(q)' => request'[p].nr # request'[q].nr
    BY <1>4 DEF AccountsInv, NumbersAreOwn
  <2> QED BY <1>1, <2>1, <2>2, <2>3 DEF NumbersAreOwn
<1>7. KnownIds' \subseteq KnownIds
  <2>1. \A v \in People : Present(v)' <=> Present(v)
    BY <1>1 DEF Present
  <2>2. account[u] # Absent => account[u].id \in KnownIds
    BY DEF KnownIds, Present
  <2> QED BY <1>1, <1>4, <2>1, <2>2 DEF KnownIds
<1>8. IdsAreSpent'
  <2>1. \A i \in KnownIds' : i <= begun
    BY <1>7 DEF AccountsInv, IdsAreSpent
  <2>2. \A i \in KnownIds : i \in Serials
    BY DEF KnownIds, AccountsTypeOK, RequestStates, AccountRow, Absent, NoRequest, Present, Pending
  <2>3. \A i \in KnownIds' : i <= begun' /\ i # begun + 1
    BY <1>1, <1>7, <2>1, <2>2 DEF AccountsTypeOK
  <2> QED BY <1>1, <1>4, <1>7, <2>3 DEF AccountsInv, IdsAreSpent
<1>9. LateComersAreNotAlone'
  <2>1. NoUsers' <=> NoUsers
    BY <1>1 DEF NoUsers, Present
  <2> QED BY <1>1, <1>4, <2>1 DEF AccountsInv, LateComersAreNotAlone
<1>10. LoginsHavePasswords'
  BY <1>1, <1>4 DEF AccountsInv, LoginsHavePasswords, Present
<1>11. DisconnectsHavePasswords'
  <2>1. \A q \in AccountRequests \ {r} : RowIsThere(q)' <=> RowIsThere(q)
    BY <1>1, <1>4 DEF RowIsThere, Present
  <2> QED BY <1>1, <1>4, <2>1 DEF AccountsInv, DisconnectsHavePasswords
<1>12. SomebodyCanApprove'
  BY <1>1 DEF AccountsInv, SomebodyCanApprove, Admitted, Present
<1> QED BY <1>3, <1>6, <1>8, <1>9, <1>10, <1>11, <1>12 DEF AccountsInv

\* What a request may write over the row it is about: the row of a new account, under
\* its own number; the same account, which keeps a password if it had one; or, for
\* an administrator, nothing.
SoundWrite(r, row) ==
    LET u == request[r].who
    IN  \/ /\ row \in AccountRow
           /\ ~Present(u)
           /\ row.id = request[r].nr
           /\ request[r].first => row.status = "approved" /\ row.active /\ row.admin
        \/ /\ row \in AccountRow
           /\ Present(u)
           /\ row.id = account[u].id
           /\ account[u].password # 0 => row.password # 0
           /\ \/ governed'
              \/ /\ row.status = account[u].status
                 /\ row.active = account[u].active
                 /\ row.admin = account[u].admin
        \/ row = Absent /\ governed'

\* A request commits, or finds that it cannot.
LEMMA CommitKeepsAccounts ==
  ASSUME AccountsTypeOK, AccountsInv, NEW r \in AccountRequests, request[r].op # "none",
         Done(r), UNCHANGED begun,
         \/ UNCHANGED account
         \/ \E row : SoundWrite(r, row) /\ Write(request[r].who, row),
         governed' \in BOOLEAN, governed => governed',
         resetToken' \in [People -> [Serials -> ResetTokenStates]]
  PROVE  AccountsTypeOK' /\ AccountsInv'
<1> DEFINE u == request[r].who
<1>1. /\ request'[r] = NoRequest
      /\ \A q \in AccountRequests \ {r} : request'[q] = request[q]
      /\ u \in People /\ Pending(r)
      /\ request' \in [AccountRequests -> RequestStates]
  BY PendingIsTyped DEF Done, AccountsTypeOK, RequestStates
<1>2. ASSUME NEW q \in AccountRequests, Pending(q)'
      PROVE  q # r /\ Pending(q) /\ request'[q] = request[q]
  BY <1>1, <1>2 DEF Pending
<1>3. NumbersAreOwn'
  BY <1>2 DEF AccountsInv, NumbersAreOwn
<1>4. \A q \in AccountRequests : request'[q].op \in {"login", "disconnect"}
                                  => q # r /\ Pending(q)' /\ request'[q] = request[q]
  BY <1>1 DEF NoRequest, Pending
<1>5. LoginsHavePasswords'
  BY <1>4 DEF AccountsInv, LoginsHavePasswords
<1>6. ASSUME UNCHANGED account PROVE AccountsTypeOK' /\ AccountsInv'
  <2>1. AccountsTypeOK'
    BY <1>1, <1>6 DEF AccountsTypeOK
  <2>2. \A v \in People : Present(v)' <=> Present(v)
    BY <1>6 DEF Present
  <2>3. KnownIds' \subseteq KnownIds
    BY <1>2, <1>6, <2>2 DEF KnownIds
  <2>4. IdsAreSpent'
    BY <1>2, <2>3 DEF AccountsInv, IdsAreSpent
  <2>5. LateComersAreNotAlone'
    BY <1>2, <2>2 DEF AccountsInv, LateComersAreNotAlone, NoUsers
  <2>6. DisconnectsHavePasswords'
    BY <1>4, <1>6 DEF AccountsInv, DisconnectsHavePasswords, RowIsThere, Present
  <2>7. SomebodyCanApprove'
    BY <1>6 DEF AccountsInv, SomebodyCanApprove, Admitted, Present
  <2> QED BY <1>3, <1>5, <2>1, <2>4, <2>5, <2>6, <2>7 DEF AccountsInv
<1>7. ASSUME NEW row, SoundWrite(r, row), Write(u, row)
      PROVE  AccountsTypeOK' /\ AccountsInv'
  <2>1. /\ account'[u] = row
        /\ \A v \in People \ {u} : account'[v] = account[v]
        /\ row \in AccountRow \cup {Absent}
    BY <1>1, <1>7 DEF Write, SoundWrite, AccountsTypeOK
  <2>2. AccountsTypeOK'
    BY <1>1, <1>7, <2>1 DEF Write, AccountsTypeOK
  <2>3. row # Absent => row.id = request[r].nr \/ row.id \in KnownIds
    BY <1>1, <1>7 DEF SoundWrite, KnownIds
  <2>4. KnownIds' \subseteq KnownIds \cup {request[r].nr}
    <3>1. \A v \in People : Present(v)' => account'[v].id \in KnownIds \cup {request[r].nr}
      BY <2>1, <2>3 DEF KnownIds, Present
    <3>2. \A q \in AccountRequests : Pending(q)' /\ request'[q].row # Absent
                                     => request'[q].row.id \in KnownIds
      BY <1>2 DEF KnownIds
    <3> QED BY <3>1, <3>2 DEF KnownIds
  <2>5. IdsAreSpent'
    <3>1. request[r].nr <= begun
      BY <1>1 DEF AccountsInv, NumbersAreOwn
    <3>2. \A q \in AccountRequests : Pending(q)' => request'[q].nr # request[r].nr
      BY <1>1, <1>2 DEF AccountsInv, NumbersAreOwn
    <3> QED BY <1>2, <2>4, <3>1, <3>2 DEF AccountsInv, IdsAreSpent
  <2>6. DisconnectsHavePasswords'
    <3> SUFFICES ASSUME NEW q \in AccountRequests, request'[q].op = "disconnect", RowIsThere(q)'
                 PROVE  account'[request'[q].who].password # 0
      BY DEF DisconnectsHavePasswords
    <3>1. q # r /\ Pending(q) /\ request'[q] = request[q]
      BY <1>2, <1>4
    <3>2. request[q].who \in People
      BY <3>1, PendingIsTyped
    <3>3. CASE request[q].who # u
      BY <2>1, <3>1, <3>2, <3>3 DEF AccountsInv, DisconnectsHavePasswords, RowIsThere, Present
    <3>4. CASE request[q].who = u
      <4>1. /\ row # Absent
            /\ request[q].row # Absent
            /\ row.id = request[q].row.id
        BY <2>1, <3>1, <3>4 DEF RowIsThere, Present
      <4>2. request[q].row.id \in KnownIds
        BY <3>1, <4>1 DEF KnownIds
      <4>3. row.id # request[r].nr
        BY <1>1, <4>1, <4>2 DEF AccountsInv, IdsAreSpent
      <4>4. /\ Present(u)
            /\ row.id = account[u].id
            /\ account[u].password # 0 => row.password # 0
        BY <1>7, <4>1, <4>3 DEF SoundWrite
      <4>5. account[u].password # 0
        BY <3>1, <3>4, <4>1, <4>4 DEF AccountsInv, DisconnectsHavePasswords, RowIsThere
      <4> QED BY <2>1, <3>1, <3>4, <4>4, <4>5
    <3> QED BY <3>3, <3>4
  <2>7. LateComersAreNotAlone' /\ SomebodyCanApprove'
    <3>1. CASE governed'
      BY <3>1 DEF LateComersAreNotAlone, SomebodyCanApprove
    <3>2. CASE ~governed'
      <4>1. ~governed /\ row # Absent
        BY <1>7, <3>2 DEF SoundWrite, Absent, AccountRow
      <4>2. ~NoUsers'
        BY <1>1, <2>1, <4>1 DEF NoUsers, Present
      <4>3. CASE NoUsers
        <5>1. request[r].first
          BY <1>1, <4>1, <4>3 DEF AccountsInv, LateComersAreNotAlone
        <5>2. ~Present(u)
          BY <1>1, <4>3 DEF NoUsers
        <5>3. row.status = "approved" /\ row.active /\ row.admin
          BY <1>7, <4>1, <5>1, <5>2 DEF SoundWrite
        <5>4. PICK w \in People : w = u
          BY <1>1
        <5>5. Admitted(w)' /\ account'[w].admin
          BY <2>1, <4>1, <5>3, <5>4 DEF Admitted, Present
        <5> QED BY <4>2, <5>5 DEF LateComersAreNotAlone, SomebodyCanApprove
      <4>4. CASE ~NoUsers
        <5>1. PICK v \in People : Admitted(v) /\ account[v].admin
          BY <4>1, <4>4 DEF AccountsInv, SomebodyCanApprove, NoUsers
        <5>2. CASE v # u
          <6>1. Admitted(v)' /\ account'[v].admin
            BY <2>1, <5>1, <5>2 DEF Admitted, Present
          <6> QED BY <4>2, <6>1 DEF LateComersAreNotAlone, SomebodyCanApprove
        <5>3. CASE v = u
          <6>1. /\ row.status = account[u].status
                /\ row.active = account[u].active
                /\ row.admin = account[u].admin
            BY <1>7, <3>2, <4>1, <5>1, <5>3 DEF SoundWrite, Admitted
          <6>2. Admitted(v)' /\ account'[v].admin
            BY <2>1, <4>1, <5>1, <5>3, <6>1 DEF Admitted, Present
          <6> QED BY <4>2, <6>2 DEF LateComersAreNotAlone, SomebodyCanApprove
        <5> QED BY <5>2, <5>3
      <4> QED BY <4>3, <4>4
    <3> QED BY <3>1, <3>2
  <2> QED BY <1>3, <1>5, <2>2, <2>5, <2>6, <2>7 DEF AccountsInv
<1> QED BY <1>6, <1>7

\* The row of a new account, and the columns that change of an old one.
LEMMA RowsOfAccounts ==
  ASSUME AccountsTypeOK, AccountsInv, NEW r \in AccountRequests, request[r].op # "none"
  PROVE  /\ request[r].nr \in Serials \ {0}
         /\ \A p \in Serials, l \in BOOLEAN :
               /\ NewRow(r, p, l) \in AccountRow
               /\ NewRow(r, p, l).id = request[r].nr
               /\ request[r].first => /\ NewRow(r, p, l).status = "approved"
                                      /\ NewRow(r, p, l).active
                                      /\ NewRow(r, p, l).admin
<1>1. /\ request[r].nr \in 1..begun
      /\ request[r].nr \in Serials
      /\ request[r].first \in BOOLEAN
  BY PendingIsTyped DEF AccountsInv, NumbersAreOwn
<1>2. 0 \in Serials /\ begun \in Nat
  BY AccountsAssumption DEF AccountsAssumption, Serials, AccountsTypeOK
<1>3. request[r].nr # 0
  BY <1>1, <1>2
<1> QED BY <1>1, <1>2, <1>3 DEF NewRow, AccountRow

\* Every step keeps the types and the invariant.
LEMMA AccountsStep ==
  ASSUME AccountsTypeOK, AccountsInv, [AccountsNext]_accountVars
  PROVE  AccountsTypeOK' /\ AccountsInv'
<1>1. 0 \in Serials
  BY AccountsAssumption DEF AccountsAssumption, Serials
<1>2. ASSUME NEW r \in AccountRequests, NEW u \in People, NEW op \in Operations, Begin(r, op, u),
             op \in {"login", "disconnect"} => Present(u) /\ account[u].password # 0
      PROVE  AccountsTypeOK' /\ AccountsInv'
  BY <1>1, <1>2, BeginKeepsAccounts DEF Begin
<1>3. ASSUME NEW r \in AccountRequests, NEW u \in People,
             \/ BeginSignup(r, u) \/ BeginOAuth(r, u) \/ BeginForgot(r, u)
             \/ BeginChangePassword(r, u) \/ BeginEnable2fa(r, u) \/ BeginConfirm2fa(r, u)
             \/ BeginDisable2fa(r, u) \/ BeginUnlink(r, u)
      PROVE  AccountsTypeOK' /\ AccountsInv'
  BY <1>2, <1>3 DEF BeginSignup, BeginOAuth, BeginForgot, BeginChangePassword, BeginEnable2fa,
                    BeginConfirm2fa, BeginDisable2fa, BeginUnlink, Operations
<1>4. ASSUME NEW r \in AccountRequests, NEW u \in People, BeginLogin(r, u) \/ BeginDisconnect(r, u)
      PROVE  AccountsTypeOK' /\ AccountsInv'
  BY <1>2, <1>4 DEF BeginLogin, BeginDisconnect, Operations
<1>5. ASSUME NEW r \in AccountRequests, NEW u \in People, BeginReset(r, u)
      PROVE  AccountsTypeOK' /\ AccountsInv'
  BY <1>5, BeginKeepsAccounts DEF BeginReset, Operations
<1>6. ASSUME NEW r \in AccountRequests, NEW u \in People, BeginGovern(r, u)
      PROVE  AccountsTypeOK' /\ AccountsInv'
  BY <1>2, <1>6 DEF BeginGovern, Operations
<1>7. ASSUME NEW r \in AccountRequests, request[r].op # "none", RowIsThere(r)
      PROVE  /\ Present(request[r].who)
             /\ account[request[r].who] \in AccountRow
             /\ request[r].row \in AccountRow
  BY <1>7, PendingIsTyped DEF RowIsThere, Present, AccountsTypeOK
<1>8. ASSUME NEW r \in AccountRequests, CommitSignup(r) PROVE AccountsTypeOK' /\ AccountsInv'
  <2> USE <1>8 DEF CommitSignup
  <2>1. SoundWrite(r, NewRow(r, request[r].nr, FALSE)) \/ Present(request[r].who)
    BY RowsOfAccounts DEF SoundWrite
  <2> QED BY <2>1, CommitKeepsAccounts DEF AccountsTypeOK
<1>9. ASSUME NEW r \in AccountRequests, CommitOAuth(r) PROVE AccountsTypeOK' /\ AccountsInv'
  <2> USE <1>9 DEF CommitOAuth
  <2> DEFINE u == request[r].who
  <2>1. SoundWrite(r, NewRow(r, 0, TRUE)) \/ Present(u)
    BY <1>1, RowsOfAccounts DEF SoundWrite
  <2>2. RowIsThere(r) => SoundWrite(r, [account[u] EXCEPT !.linked = TRUE])
    BY <1>7 DEF SoundWrite, AccountRow
  <2>3. \/ UNCHANGED account
        \/ \E row : SoundWrite(r, row) /\ Write(u, row)
    BY <2>1, <2>2
  <2> QED BY <2>3, CommitKeepsAccounts DEF AccountsTypeOK
<1>10. ASSUME NEW r \in AccountRequests, CommitLogin(r) PROVE AccountsTypeOK' /\ AccountsInv'
  <2> USE <1>10 DEF CommitLogin
  <2> DEFINE u == request[r].who
  <2>1. request[r].row.password # 0
    BY DEF AccountsInv, LoginsHavePasswords
  <2>2. RowIsThere(r) => SoundWrite(r, [account[u] EXCEPT !.password = request[r].row.password])
    BY <1>7, <2>1 DEF SoundWrite, AccountRow
  <2>3. \/ UNCHANGED account
        \/ \E row : SoundWrite(r, row) /\ Write(u, row)
    BY <2>2
  <2> QED BY <2>3, CommitKeepsAccounts DEF AccountsTypeOK
<1>11. ASSUME NEW r \in AccountRequests, CommitForgot(r) PROVE AccountsTypeOK' /\ AccountsInv'
  <2> USE <1>11 DEF CommitForgot
  <2>1. resetToken' \in [People -> [Serials -> ResetTokenStates]]
    <3>1. CASE ~RowIsThere(r)
      BY <3>1 DEF AccountsTypeOK
    <3>2. CASE RowIsThere(r)
      <4> DEFINE u == request[r].who
                 new == [n \in Serials |->
                           IF n = request[r].nr THEN "unused"
                           ELSE IF resetToken[u][n] = "unused" THEN "used" ELSE resetToken[u][n]]
      <4>1. resetToken' = [resetToken EXCEPT ![u] = new]
        BY <3>2
      <4>2. u \in People
        BY PendingIsTyped
      <4>3. new \in [Serials -> ResetTokenStates]
        BY <4>2 DEF AccountsTypeOK, ResetTokenStates
      <4> QED BY <4>1, <4>2, <4>3 DEF AccountsTypeOK
    <3> QED BY <3>1, <3>2
  <2> QED BY <2>1, CommitKeepsAccounts DEF AccountsTypeOK
<1>12. ASSUME NEW r \in AccountRequests, CommitReset(r) PROVE AccountsTypeOK' /\ AccountsInv'
  <2> USE <1>12 DEF CommitReset
  <2> DEFINE u == request[r].who
  <2>1. u \in People /\ request[r].token \in Serials
    BY PendingIsTyped
  <2>2. resetToken' \in [People -> [Serials -> ResetTokenStates]]
    BY <2>1 DEF AccountsTypeOK, ResetTokenStates
  <2>3. RowIsThere(r) => SoundWrite(r, [account[u] EXCEPT !.password = request[r].nr])
    BY <1>7, RowsOfAccounts DEF SoundWrite, AccountRow
  <2>4. \/ UNCHANGED account
        \/ \E row : SoundWrite(r, row) /\ Write(u, row)
    BY <2>3
  <2> QED BY <2>2, <2>4, CommitKeepsAccounts DEF AccountsTypeOK
<1>13. ASSUME NEW r \in AccountRequests, CommitOwn(r) PROVE AccountsTypeOK' /\ AccountsInv'
  <2> USE <1>13 DEF CommitOwn
  <2> DEFINE u == request[r].who
  <2>1. RowIsThere(r) => SoundWrite(r, Changed(r, account[u]))
    <3> SUFFICES ASSUME RowIsThere(r) PROVE SoundWrite(r, Changed(r, account[u]))
      OBVIOUS
    <3>1. Present(u) /\ account[u] \in AccountRow
      BY <1>7, SMTT(40)
    <3>2. /\ Changed(r, account[u]) \in AccountRow
          /\ Changed(r, account[u]).id = account[u].id
          /\ Changed(r, account[u]).status = account[u].status
          /\ Changed(r, account[u]).active = account[u].active
          /\ Changed(r, account[u]).admin = account[u].admin
          /\ Changed(r, account[u]).password \in {account[u].password, request[r].nr}
      BY <1>1, <3>1, RowsOfAccounts, ZenonT(60) DEF Changed, AccountRow
    <3> QED BY <3>1, <3>2, RowsOfAccounts DEF SoundWrite
  <2>2. \/ UNCHANGED account
        \/ \E row : SoundWrite(r, row) /\ Write(u, row)
    BY <2>1
  <2> QED BY <2>2, CommitKeepsAccounts DEF AccountsTypeOK
<1>14. ASSUME NEW r \in AccountRequests, CommitGovern(r) PROVE AccountsTypeOK' /\ AccountsInv'
  <2> USE <1>14 DEF CommitGovern
  <2> DEFINE u == request[r].who
             op == request[r].op
             seen == request[r].row
             new == CASE op = "approve" -> [account[u] EXCEPT !.status = "approved"]
                      [] op = "reject" -> [account[u] EXCEPT !.status = "rejected"]
                      [] op = "admin" -> [account[u] EXCEPT !.admin = ~seen.admin]
                      [] op = "active" -> [account[u] EXCEPT !.active = ~seen.active]
                      [] op = "delete" -> Absent
  <2>1. u \in People
    BY PendingIsTyped
  <2>2. resetToken' \in [People -> [Serials -> ResetTokenStates]]
    BY <2>1 DEF AccountsTypeOK, ResetTokenStates
  <2>3. RowIsThere(r) => SoundWrite(r, new)
    <3> SUFFICES ASSUME RowIsThere(r) PROVE SoundWrite(r, new)
      OBVIOUS
    <3>1. Present(u) /\ account[u] \in AccountRow /\ seen \in AccountRow
      BY <1>7
    <3>2. CASE op = "delete"
      BY <3>2 DEF SoundWrite
    <3>3. CASE op # "delete"
      <4>1. new \in AccountRow /\ new.id = account[u].id /\ new.password = account[u].password
        BY <3>1, <3>3 DEF AccountRow
      <4> QED BY <3>1, <4>1 DEF SoundWrite
    <3> QED BY <3>2, <3>3
  <2>4. \/ UNCHANGED account
        \/ \E row : SoundWrite(r, row) /\ Write(u, row)
    BY <2>3
  <2> QED BY <2>2, <2>4, CommitKeepsAccounts
<1>15. CASE UNCHANGED accountVars
  BY <1>15 DEF accountVars, AccountsTypeOK, AccountsInv, NumbersAreOwn, IdsAreSpent, KnownIds,
     LateComersAreNotAlone, LoginsHavePasswords, DisconnectsHavePasswords, SomebodyCanApprove,
     Pending, Present, Admitted, NoUsers, RowIsThere
<1> QED BY <1>3, <1>4, <1>5, <1>6, <1>8, <1>9, <1>10, <1>11, <1>12, <1>13, <1>14, <1>15
        DEF AccountsNext

\* Types, and what every behaviour keeps true of accounts and requests.
THEOREM AccountsAreSound == AccountsSpec => [](AccountsTypeOK /\ AccountsInv)
<1>1. AccountsInit => AccountsTypeOK /\ AccountsInv
  <2> SUFFICES ASSUME AccountsInit PROVE AccountsTypeOK /\ AccountsInv
    OBVIOUS
  <2> USE DEF AccountsInit
  <2>1. AccountsTypeOK
    <3>1. begun \in Serials
      BY AccountsAssumption DEF AccountsAssumption, Serials
    <3>2. resetToken \in [People -> [Serials -> ResetTokenStates]]
      BY DEF ResetTokenStates
    <3>3. request \in [AccountRequests -> RequestStates]
      BY DEF RequestStates
    <3> QED BY <3>1, <3>2, <3>3 DEF AccountsTypeOK
  <2>2. /\ \A u \in People : ~Present(u)
        /\ \A r \in AccountRequests : ~Pending(r) /\ request[r].op = "none"
    BY DEF Present, Pending, NoRequest
  <2>3. KnownIds = {}
    BY <2>2 DEF KnownIds
  <2> QED BY <2>1, <2>2, <2>3 DEF AccountsInv, NumbersAreOwn, IdsAreSpent,
        LateComersAreNotAlone, LoginsHavePasswords, DisconnectsHavePasswords, SomebodyCanApprove
<1>2. AccountsTypeOK /\ AccountsInv /\ [AccountsNext]_accountVars => (AccountsTypeOK /\ AccountsInv)'
  BY AccountsStep
<1> QED BY <1>1, <1>2, PTL DEF AccountsSpec

\* As long as no administrator has interfered, whoever signed up first can approve
\* the others.
THEOREM ApproversRemain == AccountsSpec => []SomebodyCanApprove
BY AccountsAreSound, PTL DEF AccountsInv

\* Disconnecting a provider never leaves an account with nothing to sign in with.
THEOREM DisconnectingIsSafe == AccountsSpec => DisconnectKeepsAccess
<1>1. AccountsTypeOK /\ AccountsInv /\ [AccountsNext]_accountVars
        => [\A r \in AccountRequests :
              request[r].op = "disconnect" /\ request'[r] = NoRequest
              => \A u \in People :
                    Present(u) /\ account'[u] # Absent
                    => account'[u].password # 0 \/ account'[u] = account[u]]_accountVars
  <2> SUFFICES ASSUME AccountsTypeOK, AccountsInv, AccountsNext,
                      NEW r \in AccountRequests, request[r].op = "disconnect",
                      request'[r] = NoRequest, NEW u \in People, Present(u)
               PROVE  account'[u].password # 0 \/ account'[u] = account[u]
    OBVIOUS
  <2>1. ASSUME NEW q \in AccountRequests, NEW op, NEW v \in People, NEW k, BeginWith(q, op, v, k)
        PROVE  FALSE
    BY <2>1 DEF BeginWith, NoRequest, AccountsTypeOK
  <2>2. ASSUME NEW q \in AccountRequests, Done(q) PROVE q = r
    BY <2>2 DEF Done, AccountsTypeOK, NoRequest
  <2>3. CASE CommitOwn(r)
    <3> USE <2>3 DEF CommitOwn
    <3>1. CASE RowIsThere(r)
      <4>1. account' = [account EXCEPT ![request[r].who] = [account[request[r].who] EXCEPT !.linked = FALSE]]
        BY <3>1 DEF Write, Changed
      <4>2. CASE u = request[r].who
        <5>1. account[u] \in AccountRow /\ account[u].password # 0
          BY <3>1, <4>2 DEF AccountsInv, DisconnectsHavePasswords, AccountsTypeOK, Present
        <5> QED BY <4>1, <4>2, <5>1 DEF AccountsTypeOK, AccountRow
      <4>3. CASE u # request[r].who
        BY <4>1, <4>3 DEF AccountsTypeOK
      <4> QED BY <4>2, <4>3
    <3>2. CASE ~RowIsThere(r)
      BY <3>2
    <3> QED BY <3>1, <3>2
  <2>4. \E q \in AccountRequests : CommitOwn(q)
    <3>1. ASSUME NEW q \in AccountRequests, NEW v \in People,
                 \/ BeginSignup(q, v) \/ BeginOAuth(q, v) \/ BeginLogin(q, v)
                 \/ BeginForgot(q, v) \/ BeginReset(q, v) \/ BeginChangePassword(q, v)
                 \/ BeginEnable2fa(q, v) \/ BeginConfirm2fa(q, v) \/ BeginDisable2fa(q, v)
                 \/ BeginDisconnect(q, v) \/ BeginUnlink(q, v) \/ BeginGovern(q, v)
          PROVE  FALSE
      <4>1. \E op, k : BeginWith(q, op, v, k)
        BY <3>1 DEF Begin, BeginSignup, BeginOAuth, BeginLogin, BeginForgot, BeginReset,
           BeginChangePassword, BeginEnable2fa, BeginConfirm2fa, BeginDisable2fa,
           BeginDisconnect, BeginUnlink, BeginGovern
      <4> QED BY <2>1, <4>1
    <3>2. ASSUME NEW q \in AccountRequests,
                 \/ CommitSignup(q) \/ CommitOAuth(q) \/ CommitLogin(q)
                 \/ CommitForgot(q) \/ CommitReset(q) \/ CommitGovern(q)
          PROVE  FALSE
      <4>1. Done(q) /\ request[q].op # "disconnect"
        BY <3>2 DEF CommitSignup, CommitOAuth, CommitLogin, CommitForgot, CommitReset, CommitGovern
      <4> QED BY <2>2, <4>1
    <3> QED BY <3>1, <3>2 DEF AccountsNext
  <2> QED BY <2>2, <2>3, <2>4 DEF CommitOwn
<1> QED BY <1>1, AccountsAreSound, PTL DEF AccountsSpec, DisconnectKeepsAccess

-----------------------------------------------------------------------------
(* Pairing *)

\* A token somebody is about to pass on has its row.
HasItsRow(n) == token[n] # "none"

TokensOnTheWayAreKnown ==
    /\ maker # 0 => HasItsRow(maker)
    /\ \A b \in Browsers : browser[b].at \in {"minted", "writing"} => HasItsRow(browser[b].token)
    /\ \A p \in Pollers :
          poller[p].at = "deleting" /\ poller[p].record.status = "approved"
          => HasItsRow(poller[p].record.token)

PairingInv == TokensOnTheWayAreKnown /\ GivenTokensAreKnown

\* The variables of pairing keep their types.
THEOREM PairingTypeCorrect == PairingSpec => []PairingTypeOK
<1> USE PairingAssumption DEF PairingAssumption
<1>1. PairingInit => PairingTypeOK
  BY DEF PairingInit, PairingTypeOK, ApiTokenStates, DeviceRecords, Unborn, Resting
<1>2. PairingTypeOK /\ [PairingNext]_pairingVars => PairingTypeOK'
  <2> SUFFICES ASSUME PairingTypeOK, [PairingNext]_pairingVars PROVE PairingTypeOK'
    OBVIOUS
  <2> USE DEF PairingTypeOK, UnchangedDevice, UnchangedTokens
  <2>1. lastToken < MaxTokens => lastToken + 1 \in Tokens /\ lastToken + 1 \in 0..MaxTokens
    BY DEF Tokens
  <2>2. ASSUME NEW n, HandOut(n) PROVE handedOut' \in [Tokens -> Nat]
    <3>1. CASE n \in Tokens
      BY <2>2, <3>1 DEF HandOut
    <3>2. CASE n \notin Tokens
      BY <2>2, <3>2 DEF HandOut
    <3> QED BY <3>1, <3>2
  <2>3. CASE CreateToken
    BY <2>1, <2>3 DEF CreateToken, ApiTokenStates
  <2>4. CASE CreateInstallCode
    <3>1. maker \in Tokens
      BY <2>4 DEF CreateInstallCode, Tokens
    <3>2. installCode' \subseteq Tokens /\ maker' \in 0..MaxTokens
      <4>1. maker' = 0 /\ installCode' \in {installCode, installCode \cup {maker}}
        BY <2>4 DEF CreateInstallCode
      <4>2. installCode' \subseteq Tokens
        BY <3>1, <4>1
      <4> QED BY <4>1, <4>2
    <3> QED BY <2>4, <3>2 DEF CreateInstallCode
  <2>5. ASSUME NEW n \in Tokens, ConsumeInstallCode(n) \/ InstallCodeExpires(n) \/ RevokeToken(n) \/ Heartbeat(n)
        PROVE  PairingTypeOK'
    BY <2>2, <2>5 DEF ConsumeInstallCode, InstallCodeExpires, RevokeToken, Heartbeat, ApiTokenStates
  <2>6. ASSUME NEW d \in Devices,
               ReserveUserCode(d) \/ CreateDevice(d) \/ DeviceExpires(d) \/ UserCodeExpires(d)
        PROVE  PairingTypeOK'
    BY <2>6 DEF ReserveUserCode, CreateDevice, DeviceExpires, UserCodeExpires, DeviceRecords, NoDevice
  <2>7. ASSUME NEW b \in Browsers, NEW d \in Devices, AnswerForm(b, d) PROVE PairingTypeOK'
    BY <2>7 DEF AnswerForm
  <2>8. ASSUME NEW p \in Pollers, NEW d \in Devices, PollTerminal(p, d) PROVE PairingTypeOK'
    BY <2>8 DEF PollTerminal
  <2>9. ASSUME NEW b \in Browsers, MintToken(b) PROVE PairingTypeOK'
    <3>1. browser[b].device \in Devices
      BY <2>9 DEF MintToken, Resting
    <3> QED BY <2>1, <2>9, <3>1 DEF MintToken, ApiTokenStates
  <2>10. ASSUME NEW b \in Browsers, ReadForApproval(b) PROVE PairingTypeOK'
    <3>1. browser[b] \in [at : {"minted", "writing"}, device : Devices, token : Tokens]
      BY <2>10 DEF ReadForApproval, Resting
    <3> QED BY <2>10, <3>1 DEF ReadForApproval
  <2>11. ASSUME NEW b \in Browsers, WriteApproval(b) PROVE PairingTypeOK'
    <3>1. browser[b] \in [at : {"minted", "writing"}, device : Devices, token : Tokens]
      BY <2>11 DEF WriteApproval, Resting
    <3> QED BY <2>11, <3>1 DEF WriteApproval, DeviceRecords
  <2>12. ASSUME NEW b \in Browsers, ReadForDenial(b) PROVE PairingTypeOK'
    <3>1. browser[b] \in [at : {"denying", "minting"}, device : Devices]
      BY <2>12 DEF ReadForDenial, Resting
    <3> QED BY <2>12, <3>1 DEF ReadForDenial
  <2>13. ASSUME NEW b \in Browsers, WriteDenial(b) PROVE PairingTypeOK'
    BY <2>13 DEF WriteDenial, DeviceRecords
  <2>14. ASSUME NEW p \in Pollers, DeleteDelivered(p) PROVE PairingTypeOK'
    BY <2>2, <2>14 DEF DeleteDelivered, DeviceRecords, NoDevice
  <2>15. CASE UNCHANGED pairingVars
    BY <2>15 DEF pairingVars
  <2> QED BY <2>3, <2>4, <2>5, <2>6, <2>7, <2>8, <2>9, <2>10, <2>11, <2>12, <2>13, <2>14, <2>15
          DEF PairingNext
<1> QED BY <1>1, <1>2, PTL DEF PairingSpec

\* No token that is known is forgotten.
LEMMA KnownTokensStay ==
  ASSUME PairingTypeOK, [PairingNext]_pairingVars, NEW n \in Tokens, HasItsRow(n)
  PROVE  HasItsRow(n)'
BY DEF PairingNext, pairingVars, PairingTypeOK, HasItsRow, UnchangedDevice, UnchangedTokens,
   CreateToken, CreateInstallCode, ConsumeInstallCode, InstallCodeExpires, RevokeToken,
   Heartbeat, ReserveUserCode, CreateDevice, DeviceExpires, UserCodeExpires, AnswerForm,
   PollTerminal, MintToken, ReadForApproval, WriteApproval, ReadForDenial, WriteDenial,
   DeleteDelivered

\* A token that a client can get hold of has its row, so that it can be revoked.
THEOREM GivenTokensCanBeRevoked == PairingSpec => []GivenTokensAreKnown
<1>1. PairingInit => PairingInv
  BY DEF PairingInit, PairingInv, TokensOnTheWayAreKnown, GivenTokensAreKnown, Resting, Unborn
<1>2. PairingTypeOK /\ PairingInv /\ [PairingNext]_pairingVars => PairingInv'
  <2> SUFFICES ASSUME PairingTypeOK, PairingInv, [PairingNext]_pairingVars PROVE PairingInv'
    OBVIOUS
  <2>1. \A n \in Tokens : HasItsRow(n) => HasItsRow(n)'
    BY KnownTokensStay
  <2>2. ASSUME UNCHANGED <<handedOut, installCode, device>> PROVE GivenTokensAreKnown'
    BY <2>1, <2>2 DEF PairingInv, GivenTokensAreKnown, HasItsRow
  <2>3. ASSUME NEW n \in Tokens, HasItsRow(n), HandOut(n), installCode' \subseteq installCode,
               \A d \in Devices : device'[d] = device[d] \/ device'[d].status # "approved"
        PROVE  GivenTokensAreKnown'
    <3>1. \A m \in Tokens : handedOut'[m] > 0 => m = n \/ handedOut[m] > 0
      BY <2>3 DEF HandOut, PairingTypeOK
    <3>2. \A m \in Tokens, d \in Devices : device'[d] = [status |-> "approved", token |-> m]
                                          => device[d] = [status |-> "approved", token |-> m]
      BY <2>3
    <3> QED BY <2>1, <2>3, <3>1, <3>2 DEF PairingInv, GivenTokensAreKnown, HasItsRow
  <2>4. ASSUME UNCHANGED handedOut, installCode' \subseteq installCode,
               \A d \in Devices : device'[d] = device[d] \/ device'[d].status # "approved"
        PROVE  GivenTokensAreKnown'
    <3>1. \A m \in Tokens, d \in Devices : device'[d] = [status |-> "approved", token |-> m]
                                          => device[d] = [status |-> "approved", token |-> m]
      BY <2>4
    <3> QED BY <2>1, <2>4, <3>1 DEF PairingInv, GivenTokensAreKnown, HasItsRow
  <2>5. maker # 0 => maker \in Tokens
    BY PairingAssumption DEF PairingAssumption, PairingTypeOK, Tokens
  <2>6. \A b \in Browsers : browser[b].at \in {"minted", "writing"}
                            => browser[b].token \in Tokens /\ HasItsRow(browser[b].token)
    BY DEF PairingTypeOK, PairingInv, TokensOnTheWayAreKnown, Resting
  <2>7. \A p \in Pollers : poller[p].at = "deleting" /\ poller[p].record.status = "approved"
                           => poller[p].record.token \in Tokens /\ HasItsRow(poller[p].record.token)
    BY DEF PairingTypeOK, PairingInv, TokensOnTheWayAreKnown, Resting, DeviceRecords
  <2>8. maker # 0 => HasItsRow(maker)
    BY DEF PairingInv, TokensOnTheWayAreKnown
  <2>9. ASSUME UNCHANGED <<maker, browser, poller>> PROVE TokensOnTheWayAreKnown'
    BY <2>1, <2>5, <2>6, <2>7, <2>8, <2>9 DEF TokensOnTheWayAreKnown
  <2>10. ASSUME NEW b \in Browsers, UNCHANGED <<maker, poller>>,
                \A c \in Browsers \ {b} : browser'[c] = browser[c],
                browser'[b].at \in {"minted", "writing"}
                => browser'[b].token \in Tokens /\ HasItsRow(browser[b].token)'
         PROVE  TokensOnTheWayAreKnown'
    BY <2>1, <2>5, <2>6, <2>7, <2>8, <2>10 DEF TokensOnTheWayAreKnown
  <2>11. ASSUME NEW p \in Pollers, UNCHANGED <<maker, browser>>,
                \A q \in Pollers \ {p} : poller'[q] = poller[q],
                poller'[p].at = "deleting" /\ poller'[p].record.status = "approved"
                => poller'[p].record.token \in Tokens /\ HasItsRow(poller'[p].record.token)
         PROVE  TokensOnTheWayAreKnown'
    BY <2>1, <2>5, <2>6, <2>7, <2>8, <2>11 DEF TokensOnTheWayAreKnown
  <2> USE DEF UnchangedDevice, UnchangedTokens
  <2>12. CASE CreateToken
    <3>1. maker' \in Tokens /\ HasItsRow(maker)'
      BY <2>12, PairingAssumption DEF CreateToken, PairingAssumption, PairingTypeOK, Tokens, HasItsRow
    <3>2. TokensOnTheWayAreKnown'
      BY <2>1, <2>6, <2>7, <2>12, <3>1 DEF CreateToken, TokensOnTheWayAreKnown
    <3> QED BY <2>2, <2>12, <3>2 DEF CreateToken, PairingInv
  <2>13. CASE CreateInstallCode
    <3>1. TokensOnTheWayAreKnown'
      BY <2>1, <2>6, <2>7, <2>13 DEF CreateInstallCode, TokensOnTheWayAreKnown
    <3>2. GivenTokensAreKnown'
      BY <2>1, <2>5, <2>8, <2>13 DEF CreateInstallCode, PairingInv, GivenTokensAreKnown, HasItsRow
    <3> QED BY <3>1, <3>2 DEF PairingInv
  <2>14. ASSUME NEW n \in Tokens, ConsumeInstallCode(n) PROVE PairingInv'
    <3>1. HasItsRow(n)
      BY <2>14 DEF ConsumeInstallCode, PairingInv, GivenTokensAreKnown, HasItsRow
    <3> QED BY <2>3, <2>9, <2>14, <3>1 DEF ConsumeInstallCode, PairingInv
  <2>15. ASSUME NEW n \in Tokens, InstallCodeExpires(n) \/ RevokeToken(n) \/ Heartbeat(n)
         PROVE  PairingInv'
    BY <2>4, <2>9, <2>15 DEF InstallCodeExpires, RevokeToken, Heartbeat, PairingInv
  <2>16. ASSUME NEW d \in Devices,
                ReserveUserCode(d) \/ CreateDevice(d) \/ DeviceExpires(d) \/ UserCodeExpires(d)
         PROVE  PairingInv'
    <3>1. \A e \in Devices : device'[e] = device[e] \/ device'[e].status # "approved"
      BY <2>16 DEF ReserveUserCode, CreateDevice, DeviceExpires, UserCodeExpires, PairingTypeOK, NoDevice
    <3> QED BY <2>4, <2>9, <2>16, <3>1
            DEF ReserveUserCode, CreateDevice, DeviceExpires, UserCodeExpires, PairingInv
  <2>17. ASSUME NEW b \in Browsers, NEW d \in Devices, AnswerForm(b, d) PROVE PairingInv'
    <3>1. browser'[b].at \in {"denying", "minting"} /\ \A c \in Browsers \ {b} : browser'[c] = browser[c]
      BY <2>17 DEF AnswerForm, PairingTypeOK
    <3> QED BY <2>2, <2>10, <2>17, <3>1 DEF AnswerForm, PairingInv
  <2>18. ASSUME NEW p \in Pollers, NEW d \in Devices, PollTerminal(p, d) PROVE PairingInv'
    <3>1. poller'[p].record = device[d] /\ \A q \in Pollers \ {p} : poller'[q] = poller[q]
      BY <2>18 DEF PollTerminal, PairingTypeOK
    <3>2. device[d].status = "approved" => device[d].token \in Tokens /\ HasItsRow(device[d].token)
      <4> SUFFICES ASSUME device[d].status = "approved"
                   PROVE  device[d].token \in Tokens /\ HasItsRow(device[d].token)
        OBVIOUS
      <4>1. device[d] \in [status : {"approved"}, token : Tokens]
        BY DEF PairingTypeOK, DeviceRecords
      <4>2. device[d] = [status |-> "approved", token |-> device[d].token]
        BY <4>1
      <4> QED BY <4>1, <4>2 DEF PairingInv, GivenTokensAreKnown, HasItsRow
    <3> QED BY <2>2, <2>11, <2>18, <3>1, <3>2 DEF PollTerminal, PairingInv
  <2>19. ASSUME NEW b \in Browsers, MintToken(b) PROVE PairingInv'
    <3>1. /\ browser'[b].token \in Tokens
          /\ HasItsRow(browser[b].token)'
          /\ \A c \in Browsers \ {b} : browser'[c] = browser[c]
      BY <2>19, PairingAssumption DEF MintToken, PairingAssumption, PairingTypeOK, Tokens, HasItsRow
    <3> QED BY <2>2, <2>10, <2>19, <3>1 DEF MintToken, PairingInv
  <2>20. ASSUME NEW b \in Browsers, ReadForApproval(b) \/ ReadForDenial(b) PROVE PairingInv'
    <3>1. \A c \in Browsers \ {b} : browser'[c] = browser[c]
      BY <2>20 DEF ReadForApproval, ReadForDenial, PairingTypeOK
    <3>2. CASE ReadForApproval(b)
      <4>1. browser[b] \in [at : {"minted", "writing"}, device : Devices, token : Tokens]
        BY <3>2 DEF ReadForApproval, PairingTypeOK, Resting
      <4>2. /\ browser'[b].at \in {"minted", "writing"} => browser'[b].token = browser[b].token
            /\ browser[b].token \in Tokens
        BY <3>2, <4>1 DEF ReadForApproval, PairingTypeOK, Resting
      <4>3. HasItsRow(browser[b].token)
        BY <2>6, <4>1
      <4> QED BY <2>1, <2>2, <2>10, <3>1, <3>2, <4>2, <4>3 DEF ReadForApproval, PairingInv
    <3>3. CASE ReadForDenial(b)
      <4>1. browser[b] \in [at : {"denying", "minting"}, device : Devices]
        BY <3>3 DEF ReadForDenial, PairingTypeOK, Resting
      <4>2. browser'[b].at \notin {"minted", "writing"}
        BY <3>3, <4>1 DEF ReadForDenial, PairingTypeOK, Resting
      <4> QED BY <2>2, <2>10, <3>1, <3>3, <4>2 DEF ReadForDenial, PairingInv
    <3> QED BY <2>20, <3>2, <3>3
  <2>21. ASSUME NEW b \in Browsers, WriteApproval(b) \/ WriteDenial(b) PROVE PairingInv'
    <3>1. browser'[b].at = "rest" /\ \A c \in Browsers \ {b} : browser'[c] = browser[c]
      BY <2>21 DEF WriteApproval, WriteDenial, PairingTypeOK, Resting
    <3>2. TokensOnTheWayAreKnown'
      BY <2>10, <2>21, <3>1 DEF WriteApproval, WriteDenial
    <3>3. CASE WriteApproval(b)
      <4>1. browser[b].token \in Tokens /\ HasItsRow(browser[b].token)
        BY <2>6, <3>3 DEF WriteApproval
      <4>2. \A d \in Devices, m \in Tokens :
               device'[d] = [status |-> "approved", token |-> m]
               => device[d] = [status |-> "approved", token |-> m] \/ m = browser[b].token
        BY <3>3 DEF WriteApproval, PairingTypeOK
      <4>3. GivenTokensAreKnown'
        BY <2>1, <3>3, <4>1, <4>2 DEF WriteApproval, PairingInv, GivenTokensAreKnown, HasItsRow
      <4> QED BY <3>2, <4>3 DEF PairingInv
    <3>4. CASE WriteDenial(b)
      <4>1. \A d \in Devices : device'[d] = device[d] \/ device'[d].status # "approved"
        BY <3>4 DEF WriteDenial, PairingTypeOK
      <4> QED BY <2>4, <3>2, <3>4, <4>1 DEF WriteDenial, PairingInv
    <3> QED BY <2>21, <3>3, <3>4
  <2>22. ASSUME NEW p \in Pollers, DeleteDelivered(p) PROVE PairingInv'
    <3>1. /\ poller'[p].at = "rest"
          /\ \A q \in Pollers \ {p} : poller'[q] = poller[q]
          /\ \A d \in Devices : device'[d] = device[d] \/ device'[d].status # "approved"
      BY <2>22 DEF DeleteDelivered, PairingTypeOK, Resting, NoDevice
    <3>2. TokensOnTheWayAreKnown'
      BY <2>11, <2>22, <3>1 DEF DeleteDelivered
    <3>3. GivenTokensAreKnown'
      <4>1. CASE poller[p].record.status = "approved"
        BY <2>3, <2>7, <2>22, <3>1, <4>1 DEF DeleteDelivered
      <4>2. CASE poller[p].record.status # "approved"
        BY <2>4, <2>22, <3>1, <4>2 DEF DeleteDelivered
      <4> QED BY <4>1, <4>2
    <3> QED BY <3>2, <3>3 DEF PairingInv
  <2>23. CASE UNCHANGED pairingVars
    BY <2>2, <2>9, <2>23 DEF pairingVars, PairingInv
  <2> QED BY <2>12, <2>13, <2>14, <2>15, <2>16, <2>17, <2>18, <2>19, <2>20, <2>21, <2>22, <2>23
          DEF PairingNext
<1> QED BY <1>1, <1>2, PairingTypeCorrect, PTL DEF PairingSpec, PairingInv
=============================================================================
