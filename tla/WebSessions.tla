----------------------------- MODULE WebSessions -----------------------------
(***************************************************************************)
(* Web sessions and sign-in counters in Redis.  A session is a key with a  *)
(* time to live and a member of its user's set; a counter of failed        *)
(* sign-ins is a key that expires fifteen minutes after the first failure. *)
(*                                                                         *)
(* A sign-in is a task of several Redis calls; every call is one step, and *)
(* other tasks run between two of them.                                    *)
(***************************************************************************)
EXTENDS Integers, FiniteSets

CONSTANTS
    Clients,       \* the users signing in
    SignIns,       \* tasks: sign-ins in progress at one time
    MaxPerUser,    \* Settings.session_max_per_user
    MaxLoginFails, \* _MAX_LOGIN_ATTEMPTS
    MaxSessions    \* bound: sessions ever created

ASSUME WebSessionsAssumption ==
    /\ MaxPerUser \in Nat \ {0}
    /\ MaxLoginFails \in Nat \ {0}
    /\ MaxSessions \in Nat

SessionIds == 1..MaxSessions

VARIABLES
    sessions,    \* session:<id>, the keys that are there
    owner,       \* the user_id in them
    listed,      \* user_sessions:<user>, which has no time to live
    lastSession, \* number of the last session; created_at is in this order
    fails,       \* login_fail:<email>, 0 when the key is not there
    failTtl,     \* the counters that have a time to live
    signIn,      \* what each sign-in is doing
    sweep,       \* delete_all_user_sessions after its listing: user and members
    orphaned     \* counters whose sign-in was killed between INCR and EXPIRE

sessionVars ==
    <<sessions, owner, listed, lastSession, fails, failTtl, signIn, sweep, orphaned>>

NotSigningIn == [at |-> "idle"]
NoSweep == [on |-> FALSE]

SignInStates ==
    {NotSigningIn}
    \cup [at : {"reading", "fresh", "counting", "listing"}, who : Clients]
    \cup [at : {"counted"}, who : Clients, count : Nat]
    \cup [at : {"dropping"}, who : Clients, members : SUBSET SessionIds]

WebSessionsTypeOK ==
    /\ sessions \subseteq SessionIds
    /\ owner \in [SessionIds -> Clients \cup {"nobody"}]
    /\ listed \in [Clients -> SUBSET SessionIds]
    /\ lastSession \in 0..MaxSessions
    /\ fails \in [Clients -> Nat]
    /\ failTtl \subseteq Clients
    /\ signIn \in [SignIns -> SignInStates]
    /\ sweep \in {NoSweep} \cup [on : {TRUE}, who : Clients, members : SUBSET SessionIds]
    /\ orphaned \subseteq Clients

WebSessionsInit ==
    /\ sessions = {}
    /\ owner = [n \in SessionIds |-> "nobody"]
    /\ listed = [u \in Clients |-> {}]
    /\ lastSession = 0
    /\ fails = [u \in Clients |-> 0]
    /\ failTtl = {}
    /\ signIn = [t \in SignIns |-> NotSigningIn]
    /\ sweep = NoSweep
    /\ orphaned = {}

SignInGoes(t, state) == signIn' = [signIn EXCEPT ![t] = state]

SameSessions == UNCHANGED <<sessions, owner, listed, lastSession>>
SameFails == UNCHANGED <<fails, failTtl>>

-----------------------------------------------------------------------------
(* login *)

\* get_login_fails, and AccountLockedError from the fifth failure on.
StartLogin(t, u) ==
    /\ signIn[t] = NotSigningIn
    /\ fails[u] < MaxLoginFails
    /\ SignInGoes(t, [at |-> "reading", who |-> u])
    /\ SameSessions /\ SameFails
    /\ UNCHANGED <<sweep, orphaned>>

\* The password, or the second factor, is wrong: record_login_fail, INCR.
CountFailure(t) ==
    /\ signIn[t].at = "reading"
    /\ LET u == signIn[t].who
       IN  /\ fails' = [fails EXCEPT ![u] = @ + 1]
           /\ SignInGoes(t, [at |-> "counted", who |-> u, count |-> fails[u] + 1])
    /\ SameSessions
    /\ UNCHANGED <<failTtl, sweep, orphaned>>

\* Mutant of FirstFailure: a failure is taken for the first one from zero on.
NoFailure(n) == n = 0

\* Only the call that created the counter gives it a time to live.
FirstFailure(n) == n = 1

\* record_login_fail, EXPIRE; it does nothing to a counter that is gone.
LimitCounter(t) ==
    /\ signIn[t].at = "counted"
    /\ LET u == signIn[t].who
       IN  failTtl' = IF FirstFailure(signIn[t].count) /\ fails[u] > 0
                      THEN failTtl \cup {u} ELSE failTtl
    /\ SignInGoes(t, NotSigningIn)
    /\ SameSessions
    /\ UNCHANGED <<fails, sweep, orphaned>>

\* The credentials are right but the account is not approved, or 2FA is on and
\* no code came with them: nothing is counted.
RefuseLogin(t) ==
    /\ signIn[t].at = "reading"
    /\ SignInGoes(t, NotSigningIn)
    /\ SameSessions /\ SameFails
    /\ UNCHANGED <<sweep, orphaned>>

\* clear_login_fails: DEL.
ClearFails(t) ==
    /\ signIn[t].at = "reading"
    /\ LET u == signIn[t].who
       IN  /\ fails' = [fails EXCEPT ![u] = 0]
           /\ failTtl' = failTtl \ {u}
           /\ orphaned' = orphaned \ {u}
           /\ SignInGoes(t, [at |-> "fresh", who |-> u])
    /\ SameSessions
    /\ UNCHANGED sweep

\* route_oauth_callback creates its session without looking at the counter.
OAuthSignIn(t, u) ==
    /\ signIn[t] = NotSigningIn
    /\ SignInGoes(t, [at |-> "fresh", who |-> u])
    /\ SameSessions /\ SameFails
    /\ UNCHANGED <<sweep, orphaned>>

-----------------------------------------------------------------------------
(* SessionStore *)

\* create_session: key and membership in one MULTI.
CreateSession(t) ==
    /\ signIn[t].at = "fresh"
    /\ lastSession < MaxSessions
    /\ LET u == signIn[t].who
           n == lastSession + 1
       IN  /\ lastSession' = n
           /\ sessions' = sessions \cup {n}
           /\ owner' = [owner EXCEPT ![n] = u]
           /\ listed' = [listed EXCEPT ![u] = @ \cup {n}]
           /\ SignInGoes(t, [at |-> "counting", who |-> u])
    /\ SameFails
    /\ UNCHANGED <<sweep, orphaned>>

\* _enforce_session_limit: SCARD.
CountListed(t) ==
    /\ signIn[t].at = "counting"
    /\ LET u == signIn[t].who
       IN  SignInGoes(t, IF Cardinality(listed[u]) <= MaxPerUser THEN NotSigningIn
                   ELSE [at |-> "listing", who |-> u])
    /\ SameSessions /\ SameFails
    /\ UNCHANGED <<sweep, orphaned>>

\* _enforce_session_limit: SMEMBERS.
ReadListed(t) ==
    /\ signIn[t].at = "listing"
    /\ LET u == signIn[t].who
       IN  SignInGoes(t, IF Cardinality(listed[u]) <= MaxPerUser THEN NotSigningIn
                   ELSE [at |-> "dropping", who |-> u, members |-> listed[u]])
    /\ SameSessions /\ SameFails
    /\ UNCHANGED <<sweep, orphaned>>

\* _enforce_session_limit: GET and SREM of one member.  The client is built with
\* decode_responses=False, so a member is bytes and the key formatted from it is
\* "session:b'...'", which never exists: every member is taken for a stale
\* reference and removed.  The list of sessions with their times stays empty,
\* and the eviction of its oldest entries has nothing to delete.
DropMember(t, n) ==
    /\ signIn[t].at = "dropping"
    /\ n \in signIn[t].members
    /\ LET u == signIn[t].who
           rest == signIn[t].members \ {n}
       IN  /\ listed' = [listed EXCEPT ![u] = @ \ {n}]
           /\ SignInGoes(t, IF rest = {} THEN NotSigningIn
                      ELSE [signIn[t] EXCEPT !.members = rest])
    /\ SameFails
    /\ UNCHANGED <<sessions, owner, lastSession, sweep, orphaned>>

\* route_logout, delete_session: both in one MULTI.
Logout(n) ==
    /\ n \in sessions
    /\ sessions' = sessions \ {n}
    /\ listed' = [listed EXCEPT ![owner[n]] = @ \ {n}]
    /\ SameFails
    /\ UNCHANGED <<owner, lastSession, signIn, sweep, orphaned>>

\* delete_all_user_sessions, after an administrator's change: SMEMBERS, ...
StartSweep(u) ==
    /\ sweep = NoSweep
    /\ listed[u] # {}
    /\ sweep' = [on |-> TRUE, who |-> u, members |-> listed[u]]
    /\ SameSessions /\ SameFails
    /\ UNCHANGED <<signIn, orphaned>>

\* ... then the members it has read and the whole set in one MULTI.
FinishSweep ==
    /\ sweep.on
    /\ sessions' = sessions \ sweep.members
    /\ listed' = [listed EXCEPT ![sweep.who] = {}]
    /\ sweep' = NoSweep
    /\ SameFails
    /\ UNCHANGED <<owner, lastSession, signIn, orphaned>>

\* The time to live of a session runs out; its user's set does not notice.
SessionExpires(n) ==
    /\ n \in sessions
    /\ sessions' = sessions \ {n}
    /\ SameFails
    /\ UNCHANGED <<owner, listed, lastSession, signIn, sweep, orphaned>>

FailsExpire(u) ==
    /\ u \in failTtl
    /\ fails' = [fails EXCEPT ![u] = 0]
    /\ failTtl' = failTtl \ {u}
    /\ SameSessions
    /\ UNCHANGED <<signIn, sweep, orphaned>>

\* The sign-ins that have created u's counter and not yet limited it.
AboutToLimit(u) ==
    {t \in SignIns : signIn[t].at = "counted" /\ signIn[t].who = u /\ signIn[t].count = 1}

\* The process is killed between two calls; Redis keeps what it has.
KillSignIns ==
    /\ orphaned' = orphaned \cup
          {u \in Clients : fails[u] > 0 /\ u \notin failTtl /\ AboutToLimit(u) # {}}
    /\ signIn' = [t \in SignIns |-> NotSigningIn]
    /\ sweep' = NoSweep
    /\ SameSessions /\ SameFails

WebSessionsNext ==
    \/ \E t \in SignIns :
          \/ \E u \in Clients : StartLogin(t, u) \/ OAuthSignIn(t, u)
          \/ CountFailure(t) \/ LimitCounter(t) \/ RefuseLogin(t) \/ ClearFails(t)
          \/ CreateSession(t) \/ CountListed(t) \/ ReadListed(t)
          \/ \E n \in SessionIds : DropMember(t, n)
    \/ \E n \in SessionIds : Logout(n) \/ SessionExpires(n)
    \/ \E u \in Clients : StartSweep(u) \/ FailsExpire(u)
    \/ FinishSweep
    \/ KillSignIns

WebSessionsSpec == WebSessionsInit /\ [][WebSessionsNext]_sessionVars

-----------------------------------------------------------------------------

\* A lock-out always ends: a counter of failures has a time to live, or the
\* sign-in that created it is about to give it one.  INCR and EXPIRE are two
\* calls: only a process killed between them leaves a counter for ever.
LockoutsEnd ==
    \A u \in Clients :
        fails[u] > 0 => u \in failTtl \cup orphaned \/ AboutToLimit(u) # {}

\* "Enforce max sessions per user": a sign-in that has gone through the whole of
\* the enforcement leaves its user with no more than session_max_per_user sessions.
\* Violated: the members are dropped from the set and the sessions live on.
SessionLimit ==
    [][\A t \in SignIns, n \in SessionIds :
          DropMember(t, n) /\ signIn'[t] = NotSigningIn
          => Cardinality({s \in sessions' : owner[s] = signIn[t].who}) <= MaxPerUser]_sessionVars
=============================================================================
