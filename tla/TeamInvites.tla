----------------------------- MODULE TeamInvites -----------------------------
(***************************************************************************)
(* Teams, their members and invitations: one row each.  A request checks   *)
(* what it has read and commits later; the UPDATE of an invitation names   *)
(* its id only, and fails if the row is gone.  The first INSERT or UPDATE  *)
(* of a request takes SQLite's write lock, so what follows it up to the    *)
(* commit is one step.                                                     *)
(***************************************************************************)
EXTENDS Integers, FiniteSets

CONSTANTS
    Members,   \* users; an address belongs to one user
    Answers,   \* tasks: answers to invitations in progress
    MaxInvites \* bound: invitations ever made

ASSUME TeamInvitesAssumption == MaxInvites \in Nat

Invites == 1..MaxInvites

VARIABLES
    teamOwner,  \* Team.owner_id, "none" when there is no team
    role,       \* TeamMember.role, "none" for no row
    invite,     \* TeamInvite rows
    lastInvite,
    answer,     \* what each answer has read
    removal     \* the member an owner's request is about to remove

inviteVars == <<teamOwner, role, invite, lastInvite, answer, removal>>

TeamOwners == Members \cup {"none"}
Roles == {"none", "member", "owner"}
NoInvite == [status |-> "none"]
NoAnswer == [verdict |-> "none"]

InviteRow ==
    [to : Members, status : {"pending", "accepted", "rejected"}, expired : BOOLEAN]

TeamInvitesTypeOK ==
    /\ teamOwner \in TeamOwners
    /\ role \in [Members -> Roles]
    /\ invite \in [Invites -> InviteRow \cup {NoInvite}]
    /\ lastInvite \in 0..MaxInvites
    /\ answer \in [Answers -> {NoAnswer} \cup
                     [verdict : {"accepted", "rejected"}, invite : Invites, by : Members]]
    /\ removal \in Members \cup {"none"}

TeamInvitesInit ==
    /\ teamOwner = "none"
    /\ role = [u \in Members |-> "none"]
    /\ invite = [n \in Invites |-> NoInvite]
    /\ lastInvite = 0
    /\ answer = [a \in Answers |-> NoAnswer]
    /\ removal = "none"

\* route_create_team: the team and its owner's membership in one transaction.
\* Teams do not meet: this is the life of one.
CreateTeam(u) ==
    /\ teamOwner = "none"
    /\ lastInvite = 0
    /\ teamOwner' = u
    /\ role' = [role EXCEPT ![u] = "owner"]
    /\ UNCHANGED <<invite, lastInvite, answer, removal>>

\* route_delete_team, or the deletion of its owner's account: rows that refer to
\* the team go with it.
DeleteTeam ==
    /\ teamOwner # "none"
    /\ teamOwner' = "none"
    /\ role' = [u \in Members |-> "none"]
    /\ invite' = [n \in Invites |-> NoInvite]
    /\ UNCHANGED <<lastInvite, answer, removal>>

\* route_create_invite.  Nothing keeps it from inviting a member, the owner, or
\* somebody who has an invitation already.
CreateInvite(u) ==
    /\ teamOwner # "none"
    /\ lastInvite < MaxInvites
    /\ lastInvite' = lastInvite + 1
    /\ invite' = [invite EXCEPT ![lastInvite + 1] =
                    [to |-> u, status |-> "pending", expired |-> FALSE]]
    /\ UNCHANGED <<teamOwner, role, answer, removal>>

\* route_cancel_invite, whatever the status.
CancelInvite(n) ==
    /\ invite[n] # NoInvite
    /\ invite' = [invite EXCEPT ![n] = NoInvite]
    /\ UNCHANGED <<teamOwner, role, lastInvite, answer, removal>>

\* Seven days have passed.
InviteExpires(n) ==
    /\ invite[n] # NoInvite
    /\ ~invite[n].expired
    /\ invite' = [invite EXCEPT ![n].expired = TRUE]
    /\ UNCHANGED <<teamOwner, role, lastInvite, answer, removal>>

\* _handle_invite_response and route_respond_invite: the checks.
ReadInvite(a, n, verdict) ==
    /\ answer[a] = NoAnswer
    /\ invite[n] # NoInvite
    /\ invite[n].status = "pending"
    /\ ~invite[n].expired
    /\ answer' = [answer EXCEPT ![a] = [verdict |-> verdict, invite |-> n, by |-> invite[n].to]]
    /\ UNCHANGED <<teamOwner, role, invite, lastInvite, removal>>

\* Mutant of InviteIsThere: the commit does not notice that the row has gone.
InviteWasThere(a) == teamOwner # "none"

\* The UPDATE of the status finds its row; otherwise StaleDataError and nothing
\* is stored.
InviteIsThere(a) == invite[answer[a].invite] # NoInvite

\* Mutant of AnswerInvite: the membership is stored whether or not the
\* invitation is still there.
AdmitAnyway(a) ==
    LET n == answer[a].invite
        u == answer[a].by
    IN  /\ answer[a] # NoAnswer
        /\ invite' = IF InviteIsThere(a)
                     THEN [invite EXCEPT ![n].status = answer[a].verdict] ELSE invite
        /\ role' = IF answer[a].verdict = "accepted" /\ role[u] = "none"
                   THEN [role EXCEPT ![u] = "member"] ELSE role
        /\ answer' = [answer EXCEPT ![a] = NoAnswer]
        /\ UNCHANGED <<teamOwner, lastInvite, removal>>

\* Their commit: the status, and for an acceptance the membership, which is
\* looked up after the UPDATE and left as it is when there is one.
AnswerInvite(a) ==
    /\ answer[a] # NoAnswer
    /\ IF InviteIsThere(a)
       THEN LET n == answer[a].invite
                u == answer[a].by
            IN  /\ invite' = [invite EXCEPT ![n].status = answer[a].verdict]
                /\ role' = IF answer[a].verdict = "accepted" /\ role[u] = "none"
                           THEN [role EXCEPT ![u] = "member"] ELSE role
       ELSE UNCHANGED <<invite, role>>
    /\ answer' = [answer EXCEPT ![a] = NoAnswer]
    /\ UNCHANGED <<teamOwner, lastInvite, removal>>

\* route_remove_member: the checks; the owner cannot remove themselves.
BeginRemoval(u) ==
    /\ removal = "none"
    /\ role[u] = "member"
    /\ removal' = u
    /\ UNCHANGED <<teamOwner, role, invite, lastInvite, answer>>

RemoveMember ==
    /\ removal # "none"
    /\ role' = [role EXCEPT ![removal] = "none"]
    /\ removal' = "none"
    /\ UNCHANGED <<teamOwner, invite, lastInvite, answer>>

\* The deletion of an account takes its memberships along.
LeaveWithAccount(u) ==
    /\ role[u] = "member"
    /\ role' = [role EXCEPT ![u] = "none"]
    /\ UNCHANGED <<teamOwner, invite, lastInvite, answer, removal>>

TeamInvitesNext ==
    \/ \E u \in Members :
          CreateTeam(u) \/ CreateInvite(u) \/ BeginRemoval(u) \/ LeaveWithAccount(u)
    \/ \E n \in Invites : CancelInvite(n) \/ InviteExpires(n)
    \/ \E a \in Answers, n \in Invites, v \in {"accepted", "rejected"} : ReadInvite(a, n, v)
    \/ \E a \in Answers : AnswerInvite(a)
    \/ RemoveMember
    \/ DeleteTeam

TeamInvitesSpec == TeamInvitesInit /\ [][TeamInvitesNext]_inviteVars

-----------------------------------------------------------------------------

\* Nobody joins a team but by an invitation to them that stands when the
\* membership is stored and is marked accepted with it: one cancelled, or gone
\* with its team, while the answer was under way admits nobody.
JoinsAreInvited ==
    [][\A u \in Members :
          role[u] = "none" /\ role'[u] = "member" =>
              \E n \in Invites :
                  /\ invite[n] # NoInvite
                  /\ invite[n].to = u
                  /\ invite'[n].status = "accepted"]_inviteVars
=============================================================================
