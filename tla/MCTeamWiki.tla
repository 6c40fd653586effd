----------------------------- MODULE MCTeamWiki -----------------------------
(***************************************************************************)
(* A team's wiki and its membership, for TLC.  The two share no state in   *)
(* the model: a behaviour is one of one of them, its focus.                *)
(***************************************************************************)
EXTENDS TeamWiki, TeamInvites

VARIABLE focus

teamVars == <<focus, wikiVars, inviteVars>>

TeamInit == focus \in {"wiki", "invites"} /\ TeamWikiInit /\ TeamInvitesInit

TeamNext ==
    /\ UNCHANGED focus
    /\ \/ focus = "wiki" /\ TeamWikiNext /\ UNCHANGED inviteVars
       \/ focus = "invites" /\ TeamInvitesNext /\ UNCHANGED wikiVars

TeamSpec == TeamInit /\ [][TeamNext]_teamVars

\* The component in focus keeps the types of its variables; the other does not move.
TeamTypeOK ==
    /\ focus \in {"wiki", "invites"}
    /\ focus = "wiki" => TeamWikiTypeOK
    /\ focus = "invites" => TeamInvitesTypeOK

\* Of an article what the properties look at; the revisions are history.
Seen(a) == IF a = NoArticle THEN a ELSE [id |-> a.id, kind |-> a.kind, nr |-> a.text.nr]

View ==
    IF focus = "invites" THEN <<inviteVars>>
    ELSE <<changedAt, dated, thin, clock, lastBuilt, building,
           [c \in Topics |-> Seen(article[c])], lastRow, lastEdit, build, edit, excused,
           overlapped>>

\* Bound: what has happened to the wiki and what is under way ...
Events ==
    clock + lastRow + lastEdit + Cardinality(thin)
    + Cardinality({c \in Topics : dated[c] # 0}) + Cardinality({e \in Editors : edit[e] # NotEditing})

\* ... is four things together, and three while two builds are at work.
FewEvents == Events <= IF overlapped THEN 3 ELSE 4
=============================================================================
