----------------------------- MODULE TeamProofs -----------------------------
(***************************************************************************)
(* Safety of a team's membership and of its wiki, for every number of      *)
(* members, answers, invitations, topics, builds, editors and changes.     *)
(***************************************************************************)
EXTENDS MCTeamWiki, TLAPS

-----------------------------------------------------------------------------
(* The inductive invariants *)

\* An invitation is made once, and an answer that was read from one is about the
\* user it is for, as long as it is there.
AnswersFollowInvites ==
    /\ \A n \in Invites : invite[n] # NoInvite => n <= lastInvite
    /\ \A a \in Answers :
          answer[a] # NoAnswer =>
              /\ answer[a].invite <= lastInvite
              /\ invite[answer[a].invite] # NoInvite
                    => invite[answer[a].invite].to = answer[a].by

\* The article says what is known of its topic at a time, or is a person's.
Tells(c, time) ==
    /\ article[c] # NoArticle
    /\ article[c].kind = "llm" => article[c].text.nr = time

\* The topic a build is storing the article of.
Writing(b) == IF build[b].at = "writing" THEN {build[b].topic} ELSE {}

\* The topic needs no word of the article: the gate is open for it, or there is not
\* enough to write about.
Spared(c) == Stamp(c) > lastBuilt \/ changedAt[c] = 0 \/ c \in thin

\* A build drafts the topics it has found material of, and no other.
DraftsHaveMaterial ==
    \A b \in AtWork : \A c \in build[b].todo \cup build[b].drafted \cup Writing(b) : build[b].seen[c] # 0

\* Drafting is over before the sweep begins.
SweepsComeLast ==
    \A b \in AtWork : build[b].at \notin {"drafting", "writing"} => build[b].todo = {}

\* Two builds are at work only if they are known to overlap, and then every topic
\* is excused.
OverlapsAreKnown ==
    /\ overlapped => excused = Topics
    /\ ~overlapped => \A a, b \in AtWork : a = b

\* What a build alone at work knows of a topic that is not excused: its material is
\* what the build has read, or gone or thin, and the topic is drafted or yet to be.
BuildsCoverTheirTopics ==
    ~overlapped =>
        \A b \in AtWork : \A c \in Topics \ excused :
            /\ changedAt[c] \in {0, build[b].seen[c]} \/ c \in thin
            /\ build[b].mark /\ build[b].seen[c] # 0
                  => c \in build[b].todo \cup build[b].drafted \cup Writing(b)

\* What it has drafted stays until it ends; only people replace it.
DraftsAreKept ==
    ~overlapped =>
        \A b \in AtWork : \A c \in build[b].drafted : Tells(c, build[b].seen[c])

\* The row a build has read is the row it will replace, unless a person was faster.
RowsAreAsRead ==
    ~overlapped =>
        \A b \in AtWork : \A c \in Writing(b) :
            \/ article[c] = build[b].row
            \/ /\ build[b].row # NoArticle
               /\ article[c] # NoArticle
               /\ article[c].kind = "human"

\* Topic by topic, what NoChangeIsForgotten says of all together: the material is dated
\* later than the last build, or gone or thin, or told by the article.
TopicsAreTold == \A c \in Topics \ excused : Spared(c) \/ Tells(c, changedAt[c])

WikiInv ==
    /\ DraftsHaveMaterial
    /\ SweepsComeLast
    /\ OverlapsAreKnown
    /\ BuildsCoverTheirTopics
    /\ DraftsAreKept
    /\ RowsAreAsRead
    /\ TopicsAreTold

-----------------------------------------------------------------------------
(* Invitations *)

\* The variables of the membership keep their types.
THEOREM TeamInvitesTypeCorrect == TeamInvitesSpec => []TeamInvitesTypeOK
<1> USE TeamInvitesAssumption DEF TeamInvitesAssumption
<1>1. TeamInvitesInit => TeamInvitesTypeOK
  BY DEF TeamInvitesInit, TeamInvitesTypeOK, TeamOwners, Roles
<1>2. TeamInvitesTypeOK /\ [TeamInvitesNext]_inviteVars => TeamInvitesTypeOK'
  <2> SUFFICES ASSUME TeamInvitesTypeOK, [TeamInvitesNext]_inviteVars PROVE TeamInvitesTypeOK'
    OBVIOUS
  <2> USE DEF TeamInvitesTypeOK
  <2>1. ASSUME NEW u \in Members, CreateTeam(u) PROVE TeamInvitesTypeOK'
    BY <2>1 DEF CreateTeam, TeamOwners, Roles
  <2>2. ASSUME NEW u \in Members, CreateInvite(u) PROVE TeamInvitesTypeOK'
    <3>1. lastInvite + 1 \in Invites /\ lastInvite' \in 0..MaxInvites
      BY <2>2 DEF CreateInvite, Invites
    <3> QED BY <2>2, <3>1 DEF CreateInvite, InviteRow
  <2>3. ASSUME NEW u \in Members, BeginRemoval(u) \/ LeaveWithAccount(u) PROVE TeamInvitesTypeOK'
    BY <2>3 DEF BeginRemoval, LeaveWithAccount, Roles
  <2>4. ASSUME NEW n \in Invites, CancelInvite(n) PROVE TeamInvitesTypeOK'
    BY <2>4 DEF CancelInvite
  <2>5. ASSUME NEW n \in Invites, InviteExpires(n) PROVE TeamInvitesTypeOK'
    BY <2>5 DEF InviteExpires, InviteRow
  <2>6. ASSUME NEW a \in Answers, NEW n \in Invites, NEW v \in {"accepted", "rejected"},
               ReadInvite(a, n, v)
        PROVE  TeamInvitesTypeOK'
    BY <2>6 DEF ReadInvite, InviteRow
  <2>7. ASSUME NEW a \in Answers, AnswerInvite(a) PROVE TeamInvitesTypeOK'
    <3> USE <2>7 DEF AnswerInvite
    <3>1. CASE InviteIsThere(a)
      <4>1. /\ answer[a] \in [verdict : {"accepted", "rejected"}, invite : Invites, by : Members]
            /\ invite[answer[a].invite] \in InviteRow
        BY <3>1 DEF InviteIsThere
      <4>2. invite' \in [Invites -> InviteRow \cup {NoInvite}]
        BY <3>1, <4>1 DEF InviteRow
      <4>3. role' \in [Members -> Roles]
        BY <3>1, <4>1 DEF Roles
      <4> QED BY <4>2, <4>3
    <3>2. CASE ~InviteIsThere(a)
      BY <3>2
    <3> QED BY <3>1, <3>2
  <2>8. CASE RemoveMember
    BY <2>8 DEF RemoveMember, Roles
  <2>9. CASE DeleteTeam
    BY <2>9 DEF DeleteTeam, TeamOwners, Roles
  <2>10. CASE UNCHANGED inviteVars
    BY <2>10 DEF inviteVars
  <2> QED BY <2>1, <2>2, <2>3, <2>4, <2>5, <2>6, <2>7, <2>8, <2>9, <2>10 DEF TeamInvitesNext
<1> QED BY <1>1, <1>2, PTL DEF TeamInvitesSpec

\* Rows of invitations may change, or go, as long as they keep their addressee.
LEMMA AnswersStillFollow ==
  ASSUME TeamInvitesTypeOK, AnswersFollowInvites, UNCHANGED lastInvite,
         \A a \in Answers : answer'[a] \in {answer[a], NoAnswer},
         \A n \in Invites : \/ invite'[n] \in {invite[n], NoInvite}
                            \/ invite[n] # NoInvite /\ invite'[n].to = invite[n].to
  PROVE  AnswersFollowInvites'
BY DEF AnswersFollowInvites, TeamInvitesTypeOK

\* An answer is always about the invitation it was read from.
THEOREM AnswersAreAboutInvites == TeamInvitesSpec => []AnswersFollowInvites
<1>1. TeamInvitesInit => AnswersFollowInvites
  BY DEF TeamInvitesInit, AnswersFollowInvites
<1>2. TeamInvitesTypeOK /\ AnswersFollowInvites /\ [TeamInvitesNext]_inviteVars
        => AnswersFollowInvites'
  <2> SUFFICES ASSUME TeamInvitesTypeOK, AnswersFollowInvites, [TeamInvitesNext]_inviteVars
               PROVE  AnswersFollowInvites'
    OBVIOUS
  <2> USE DEF TeamInvitesTypeOK
  <2>1. ASSUME NEW u \in Members,
               CreateTeam(u) \/ BeginRemoval(u) \/ LeaveWithAccount(u)
        PROVE  AnswersFollowInvites'
    BY <2>1, AnswersStillFollow DEF CreateTeam, BeginRemoval, LeaveWithAccount
  <2>2. ASSUME NEW u \in Members, CreateInvite(u) PROVE AnswersFollowInvites'
    BY <2>2 DEF CreateInvite, AnswersFollowInvites, Invites
  <2>3. ASSUME NEW n \in Invites, CancelInvite(n) \/ InviteExpires(n)
        PROVE  AnswersFollowInvites'
    BY <2>3, AnswersStillFollow DEF CancelInvite, InviteExpires, InviteRow
  <2>4. ASSUME NEW a \in Answers, NEW n \in Invites, NEW v \in {"accepted", "rejected"},
               ReadInvite(a, n, v)
        PROVE  AnswersFollowInvites'
    BY <2>4 DEF ReadInvite, AnswersFollowInvites
  <2>5. ASSUME NEW a \in Answers, AnswerInvite(a) PROVE AnswersFollowInvites'
    <3>1. \A n \in Invites : \/ invite'[n] = invite[n]
                             \/ invite[n] # NoInvite /\ invite'[n].to = invite[n].to
      BY <2>5 DEF AnswerInvite, InviteIsThere, InviteRow
    <3> QED BY <2>5, <3>1, AnswersStillFollow DEF AnswerInvite
  <2>6. CASE RemoveMember \/ DeleteTeam
    BY <2>6, AnswersStillFollow DEF RemoveMember, DeleteTeam
  <2>7. CASE UNCHANGED inviteVars
    BY <2>7, AnswersStillFollow DEF inviteVars
  <2> QED BY <2>1, <2>2, <2>3, <2>4, <2>5, <2>6, <2>7 DEF TeamInvitesNext
<1> QED BY <1>1, <1>2, TeamInvitesTypeCorrect, PTL DEF TeamInvitesSpec

\* Nobody joins a team but by an invitation to them that stands when the membership
\* is stored, and is marked accepted with it.
THEOREM JoiningTakesAnInvitation == TeamInvitesSpec => JoinsAreInvited
<1>1. TeamInvitesTypeOK /\ AnswersFollowInvites /\ [TeamInvitesNext]_inviteVars
        => [\A u \in Members :
              role[u] = "none" /\ role'[u] = "member" =>
                  \E n \in Invites :
                      /\ invite[n] # NoInvite
                      /\ invite[n].to = u
                      /\ invite'[n].status = "accepted"]_inviteVars
  <2> SUFFICES ASSUME TeamInvitesTypeOK, AnswersFollowInvites, TeamInvitesNext,
                      NEW u \in Members, role[u] = "none", role'[u] = "member"
               PROVE  \E n \in Invites :
                         invite[n] # NoInvite /\ invite[n].to = u /\ invite'[n].status = "accepted"
    OBVIOUS
  <2> USE DEF TeamInvitesTypeOK
  <2>1. PICK a \in Answers : AnswerInvite(a)
    BY DEF TeamInvitesNext, CreateTeam, CreateInvite, BeginRemoval, LeaveWithAccount, CancelInvite,
       InviteExpires, ReadInvite, RemoveMember, DeleteTeam
  <2> DEFINE n == answer[a].invite
  <2>2. InviteIsThere(a) /\ answer[a].verdict = "accepted" /\ answer[a].by = u
    BY <2>1 DEF AnswerInvite
  <2>3. n \in Invites /\ invite[n] \in InviteRow
    BY <2>1, <2>2 DEF AnswerInvite, InviteIsThere
  <2>4. invite[n].to = u
    BY <2>1, <2>2 DEF AnswerInvite, InviteIsThere, AnswersFollowInvites
  <2>5. invite'[n].status = "accepted"
    BY <2>1, <2>2, <2>3 DEF AnswerInvite, InviteRow
  <2> QED BY <2>2, <2>3, <2>4, <2>5 DEF InviteIsThere
<1> QED BY <1>1, TeamInvitesTypeCorrect, AnswersAreAboutInvites, PTL
        DEF TeamInvitesSpec, JoinsAreInvited

-----------------------------------------------------------------------------
(* The wiki: types *)

\* What is known of a build at work.
LEMMA WorkIsTyped ==
  ASSUME TeamWikiTypeOK, NEW b \in Builders,
         build[b].at \in {"drafting", "writing", "sweeping", "deleting", "marking"}
  PROVE  /\ b \in AtWork
         /\ build[b].seen \in [Topics -> 0..MaxTime]
         /\ build[b].todo \in SUBSET Topics
         /\ build[b].drafted \in SUBSET Topics
         /\ build[b].mark \in BOOLEAN
         /\ build[b].at = "writing" =>
               build[b].topic \in Topics /\ build[b].row \in ArticleRows \cup {NoArticle}
         /\ build[b].at = "deleting" => build[b].ids \in SUBSET (1..MaxRows)
<1>1. /\ build[b] \in BuildStates
      /\ build[b].at \in {"drafting", "writing", "sweeping", "deleting", "marking"}
  BY DEF TeamWikiTypeOK
<1> QED BY <1>1 DEF BuildStates, Idle, AtWork

\* A build at work is in one of these states.
LEMMA WorkHasStages ==
  ASSUME TeamWikiTypeOK, NEW b \in AtWork
  PROVE  /\ b \in Builders
         /\ build[b].at \in {"drafting", "writing", "sweeping", "deleting", "marking"}
<1>1. build[b] \in BuildStates /\ build[b].at \notin {"idle", "requested", "queued", "due"}
  BY DEF AtWork, TeamWikiTypeOK
<1> QED BY <1>1 DEF BuildStates, Idle, AtWork

\* The states a build moves to.
LEMMA StagesAreTyped ==
  ASSUME NEW seen \in [Topics -> 0..MaxTime], NEW todo \in SUBSET Topics,
         NEW drafted \in SUBSET Topics, NEW mark \in BOOLEAN
  PROVE  /\ Idle \in BuildStates
         /\ \A s \in {"requested", "queued", "due"} : [at |-> s] \in BuildStates
         /\ \A s \in {"drafting", "sweeping", "marking"} :
               [at |-> s, seen |-> seen, todo |-> todo, drafted |-> drafted, mark |-> mark]
                 \in BuildStates
         /\ \A c \in Topics, row \in ArticleRows \cup {NoArticle} :
               [at |-> "writing", seen |-> seen, todo |-> todo, drafted |-> drafted,
                mark |-> mark, topic |-> c, row |-> row] \in BuildStates
         /\ \A ids \in SUBSET (1..MaxRows) :
               [at |-> "deleting", seen |-> seen, todo |-> todo, drafted |-> drafted,
                mark |-> mark, ids |-> ids] \in BuildStates
BY DEF BuildStates

\* A build moves to its next state and the others stay where they are.
LEMMA BecomeIsTyped ==
  ASSUME TeamWikiTypeOK, NEW b \in Builders, NEW s \in BuildStates, Become(b, s)
  PROVE  /\ build' \in [Builders -> BuildStates]
         /\ build'[b] = s
         /\ \A a \in Builders \ {b} : build'[a] = build[a]
BY DEF Become, TeamWikiTypeOK

\* Replacing the text of a row.
LEMMA ReplaceIsTyped ==
  ASSUME TeamWikiTypeOK, NEW c \in Topics, NEW row \in ArticleRows, NEW text \in ArticleTexts,
         NEW kind \in {"llm", "human"}, Replace(c, row, text, kind)
  PROVE  /\ kept' \in [1..MaxRows -> SUBSET ArticleTexts]
         /\ article' \in [Topics -> ArticleRows \cup {NoArticle}]
<1>1. row.id \in 1..MaxRows /\ row.text \in ArticleTexts
  BY DEF ArticleRows
<1>2. [id |-> row.id, text |-> text, kind |-> kind] \in ArticleRows
  BY <1>1 DEF ArticleRows
<1> QED BY <1>1, <1>2 DEF Replace, TeamWikiTypeOK

\* Every step keeps the types.
LEMMA WikiTypesStep ==
  ASSUME TeamWikiTypeOK, DraftsHaveMaterial, [TeamWikiNext]_wikiVars
  PROVE  TeamWikiTypeOK'
<1> USE TeamWikiAssumption DEF TeamWikiAssumption, UnchangedMaterial, articleVars
<1>1. ASSUME NEW c \in Topics, StampChange(c) PROVE TeamWikiTypeOK'
  <2>1. clock' \in 0..MaxTime /\ dated' \in [Topics -> 0..MaxTime]
    BY <1>1 DEF StampChange, TeamWikiTypeOK
  <2> QED BY <1>1, <2>1 DEF StampChange, TeamWikiTypeOK
<1>2. ASSUME NEW c \in Topics, CommitChange(c) \/ RemoveMaterial(c) PROVE TeamWikiTypeOK'
  <2>1. CASE CommitChange(c)
    <3>1. /\ changedAt' \in [Topics -> 0..MaxTime] /\ dated' \in [Topics -> 0..MaxTime]
          /\ thin' \in SUBSET Topics /\ excused' \in SUBSET Topics
      BY <2>1 DEF CommitChange, TeamWikiTypeOK
    <3> QED BY <2>1, <3>1 DEF CommitChange, TeamWikiTypeOK
  <2>2. CASE RemoveMaterial(c)
    <3>1. changedAt' \in [Topics -> 0..MaxTime]
      <4>1. CASE UNCHANGED changedAt
        BY <4>1 DEF TeamWikiTypeOK
      <4>2. CASE changedAt' = [changedAt EXCEPT ![c] = 0]
        BY <4>2 DEF TeamWikiTypeOK
      <4> QED BY <2>2, <4>1, <4>2 DEF RemoveMaterial
    <3>2. thin' \in SUBSET Topics
      BY <2>2 DEF RemoveMaterial, TeamWikiTypeOK
    <3> QED BY <2>2, <3>1, <3>2 DEF RemoveMaterial, TeamWikiTypeOK
  <2> QED BY <1>2, <2>1, <2>2
<1>3. ASSUME NEW b \in Builders, RequestBuild(b) \/ QueueBuild(b) PROVE TeamWikiTypeOK'
  <2>1. \A s \in {"requested", "queued", "due"} : [at |-> s] \in BuildStates
    BY DEF BuildStates
  <2> QED BY <1>3, <2>1, BecomeIsTyped DEF RequestBuild, QueueBuild, TeamWikiTypeOK
<1>4. CASE FlagGrowsStale
  BY <1>4 DEF FlagGrowsStale, TeamWikiTypeOK
<1>5. CASE FindDue
  <2>1. "worker" \in Builders /\ [at |-> "due"] \in BuildStates
    BY DEF Builders, BuildStates
  <2> QED BY <1>5, <2>1, BecomeIsTyped DEF FindDue, TeamWikiTypeOK
<1>6. ASSUME NEW b \in Builders, StartBuild(b) PROVE TeamWikiTypeOK'
  <2> USE <1>6 DEF StartBuild
  <2> DEFINE clusters == {c \in Topics : changedAt[c] # 0 /\ c \notin thin}
             found == [c \in Topics |-> IF c \in clusters THEN changedAt[c] ELSE 0]
  <2>1. found \in [Topics -> 0..MaxTime] /\ clusters \in SUBSET Topics
    BY DEF TeamWikiTypeOK
  <2>2. \A s \in {"drafting", "sweeping"} : \A todo \in SUBSET Topics : \A mark \in BOOLEAN :
           [at |-> s, seen |-> found, todo |-> todo, drafted |-> {}, mark |-> mark] \in BuildStates
    BY <2>1, StagesAreTyped
  <2>3. \E s \in BuildStates : Become(b, s)
    <3>1. Idle \in BuildStates
      BY DEF BuildStates
    <3> QED BY <2>1, <2>2, <3>1 DEF EndBuild
  <2>4. /\ build' \in [Builders -> BuildStates]
        /\ building' \in {"clear", "fresh", "stale"}
        /\ excused' \in SUBSET Topics
        /\ overlapped' \in BOOLEAN
    <3>1. build' \in [Builders -> BuildStates]
      BY <2>3, BecomeIsTyped
    <3>2. building' \in {"clear", "fresh", "stale"}
      BY DEF EndBuild, TeamWikiTypeOK
    <3>3. excused' \in SUBSET Topics /\ overlapped' \in BOOLEAN
      BY DEF TeamWikiTypeOK
    <3> QED BY <3>1, <3>2, <3>3
  <2> QED BY <2>4 DEF TeamWikiTypeOK
<1>7. ASSUME NEW b \in Builders, NEW c \in Topics, DraftFails(b, c) PROVE TeamWikiTypeOK'
  <2>1. build[b] \in [at : {"drafting", "sweeping", "marking"}, seen : [Topics -> 0..MaxTime],
                     todo : SUBSET Topics, drafted : SUBSET Topics, mark : BOOLEAN]
    <3>1. build[b] \in BuildStates /\ build[b].at = "drafting"
      BY <1>7 DEF DraftFails, TeamWikiTypeOK
    <3> QED BY <3>1 DEF BuildStates, Idle
  <2>2. [build[b] EXCEPT !.todo = build[b].todo \ {c}] \in BuildStates
    BY <2>1 DEF BuildStates
  <2>3. build' \in [Builders -> BuildStates]
    BY <1>7, <2>2, BecomeIsTyped DEF DraftFails
  <2> QED BY <1>7, <2>3 DEF DraftFails, TeamWikiTypeOK
<1>8. ASSUME NEW b \in Builders, NEW c \in Topics, DraftArticle(b, c) PROVE TeamWikiTypeOK'
  <2>1. article[c] \in ArticleRows \cup {NoArticle}
    BY DEF TeamWikiTypeOK
  <2>2. build' \in [Builders -> BuildStates]
    BY <1>8, <2>1, WorkIsTyped, StagesAreTyped, BecomeIsTyped DEF DraftArticle
  <2> QED BY <1>8, <2>2 DEF DraftArticle, TeamWikiTypeOK
<1>9. ASSUME NEW b \in Builders, StoreArticle(b) PROVE TeamWikiTypeOK'
  <2> USE <1>9 DEF StoreArticle
  <2> DEFINE c == build[b].topic
             row == build[b].row
             text == [by |-> "llm", nr |-> build[b].seen[c]]
             drafting(done) ==
               [at |-> "drafting", seen |-> build[b].seen, todo |-> build[b].todo,
                drafted |-> build[b].drafted \cup done, mark |-> build[b].mark]
  <2>1. /\ c \in Topics
        /\ row \in ArticleRows \cup {NoArticle}
        /\ b \in AtWork
        /\ build[b].seen \in [Topics -> 0..MaxTime]
    BY WorkIsTyped
  <2>2. build[b].seen[c] \in 1..MaxTime
    BY <2>1 DEF DraftsHaveMaterial, Writing
  <2>3. text \in ArticleTexts
    BY <2>2 DEF ArticleTexts
  <2>4. drafting({c}) \in BuildStates /\ drafting({}) \in BuildStates
    BY <2>1, WorkIsTyped, StagesAreTyped
  <2>5. build' \in [Builders -> BuildStates]
    BY <2>4, BecomeIsTyped
  <2>6. excused' \in SUBSET Topics
    BY <2>1 DEF TeamWikiTypeOK
  <2>7. CASE UNCHANGED articleVars
    BY <2>5, <2>6, <2>7 DEF TeamWikiTypeOK
  <2>8. CASE row # NoArticle /\ Replace(c, row, text, "llm") /\ UNCHANGED <<lastRow, lastEdit>>
    BY <2>1, <2>3, <2>5, <2>6, <2>8, ReplaceIsTyped DEF TeamWikiTypeOK
  <2>9. CASE /\ lastRow < MaxRows
             /\ lastRow' = lastRow + 1
             /\ article' = [article EXCEPT ![c] =
                              [id |-> lastRow + 1, text |-> text, kind |-> "llm"]]
             /\ UNCHANGED <<kept, lastEdit>>
    <3>1. lastRow' \in 0..MaxRows /\ lastRow + 1 \in 1..MaxRows
      BY <2>9 DEF TeamWikiTypeOK
    <3>2. [id |-> lastRow + 1, text |-> text, kind |-> "llm"] \in ArticleRows
      BY <2>3, <3>1 DEF ArticleRows
    <3>3. article' \in [Topics -> ArticleRows \cup {NoArticle}]
      BY <2>9, <3>2 DEF TeamWikiTypeOK
    <3> QED BY <2>5, <2>6, <2>9, <3>1, <3>3 DEF TeamWikiTypeOK
  <2> QED BY <2>7, <2>8, <2>9
<1>10. ASSUME NEW b \in Builders, SelectStale(b) PROVE TeamWikiTypeOK'
  <2>1. {article[c].id : c \in {x \in Topics : Stale(b, x)}} \in SUBSET (1..MaxRows)
    BY DEF Stale, TeamWikiTypeOK, ArticleRows
  <2>2. build' \in [Builders -> BuildStates]
    BY <1>10, <2>1, WorkIsTyped, StagesAreTyped, BecomeIsTyped DEF SelectStale
  <2> QED BY <1>10, <2>2 DEF SelectStale, TeamWikiTypeOK
<1>11. ASSUME NEW b \in Builders, DeleteStale(b) PROVE TeamWikiTypeOK'
  <2>1. build' \in [Builders -> BuildStates]
    BY <1>11, WorkIsTyped, StagesAreTyped, BecomeIsTyped DEF DeleteStale
  <2>2. /\ kept' \in [1..MaxRows -> SUBSET ArticleTexts]
        /\ article' \in [Topics -> ArticleRows \cup {NoArticle}]
    BY <1>11 DEF DeleteStale, TeamWikiTypeOK
  <2> QED BY <1>11, <2>1, <2>2 DEF DeleteStale, TeamWikiTypeOK
<1>12. ASSUME NEW b \in Builders, FinishBuild(b) PROVE TeamWikiTypeOK'
  <2> USE <1>12 DEF FinishBuild, EndBuild
  <2>1. Idle \in BuildStates
    BY DEF BuildStates
  <2>2. build' \in [Builders -> BuildStates]
    BY <2>1, BecomeIsTyped
  <2>3. building' \in {"clear", "fresh", "stale"}
    BY DEF TeamWikiTypeOK
  <2>5. clock' \in 0..MaxTime /\ lastBuilt' \in 0..MaxTime
    BY DEF TeamWikiTypeOK
  <2>4. excused' \in SUBSET Topics /\ overlapped' \in BOOLEAN
    BY DEF TeamWikiTypeOK
  <2> QED BY <2>2, <2>3, <2>4, <2>5 DEF TeamWikiTypeOK
<1>13. CASE KillBuilds
  <2>1. Idle \in BuildStates
    BY DEF BuildStates
  <2>2. dated' \in [Topics -> 0..MaxTime]
    BY <1>13 DEF KillBuilds
  <2>3. build' \in [Builders -> BuildStates] /\ edit' \in [Editors -> {NotEditing} \cup [topic : Topics, row : ArticleRows]]
    BY <1>13, <2>1 DEF KillBuilds
  <2> QED BY <1>13, <2>2, <2>3 DEF KillBuilds, TeamWikiTypeOK
<1>17. ASSUME NEW b \in Builders, BuildRaises(b) PROVE TeamWikiTypeOK'
  <2> USE <1>17 DEF BuildRaises, EndBuild
  <2>1. Idle \in BuildStates
    BY DEF BuildStates
  <2>2. build' \in [Builders -> BuildStates]
    BY <2>1, BecomeIsTyped
  <2>3. building' \in {"clear", "fresh", "stale"} /\ overlapped' \in BOOLEAN
    BY DEF TeamWikiTypeOK
  <2> QED BY <2>2, <2>3 DEF TeamWikiTypeOK
<1>14. ASSUME NEW e \in Editors, NEW c \in Topics, ReadForEdit(e, c) PROVE TeamWikiTypeOK'
  <2>1. article[c] \in ArticleRows
    BY <1>14 DEF ReadForEdit, TeamWikiTypeOK
  <2> QED BY <1>14, <2>1 DEF ReadForEdit, TeamWikiTypeOK
<1>15. ASSUME NEW e \in Editors, StoreEdit(e) PROVE TeamWikiTypeOK'
  <2> USE <1>15 DEF StoreEdit
  <2> DEFINE c == edit[e].topic
             row == edit[e].row
             text == [by |-> "human", nr |-> lastEdit + 1]
  <2>1. c \in Topics /\ row \in ArticleRows
    BY DEF TeamWikiTypeOK
  <2>2. edit' \in [Editors -> {NotEditing} \cup [topic : Topics, row : ArticleRows]]
    BY DEF TeamWikiTypeOK
  <2>3. CASE UNCHANGED articleVars
    BY <2>2, <2>3 DEF TeamWikiTypeOK
  <2>4. CASE /\ lastEdit < MaxEdits
             /\ lastEdit' = lastEdit + 1
             /\ Replace(c, row, text, "human")
             /\ UNCHANGED lastRow
    <3>1. lastEdit' \in 0..MaxEdits /\ text \in ArticleTexts
      BY <2>4 DEF TeamWikiTypeOK, ArticleTexts
    <3> QED BY <2>1, <2>2, <2>4, <3>1, ReplaceIsTyped DEF TeamWikiTypeOK
  <2> QED BY <2>3, <2>4
<1>16. CASE UNCHANGED wikiVars
  BY <1>16 DEF wikiVars, TeamWikiTypeOK
<1> QED BY <1>1, <1>2, <1>3, <1>4, <1>5, <1>6, <1>7, <1>8, <1>9, <1>10, <1>11, <1>12, <1>13,
           <1>14, <1>15, <1>16, <1>17 DEF TeamWikiNext

-----------------------------------------------------------------------------
(* The wiki: no change is forgotten *)

\* Who is spared depends on the dates, the mark and what is thin.
LEMMA SparedStays ==
  ASSUME UNCHANGED <<changedAt, thin, lastBuilt>>
  PROVE  \A c \in Topics : Spared(c)' <=> Spared(c)
BY DEF Spared, Stamp, WholeSecond

\* A step that neither the builds at work nor the properties notice.
LEMMA QuietStep ==
  ASSUME WikiInv, UNCHANGED <<changedAt, thin, lastBuilt, article, excused, overlapped>>,
         AtWork' = AtWork, \A b \in AtWork : build'[b] = build[b]
  PROVE  WikiInv'
BY SparedStays DEF WikiInv, DraftsHaveMaterial, SweepsComeLast, OverlapsAreKnown,
   BuildsCoverTheirTopics, DraftsAreKept, RowsAreAsRead, TopicsAreTold, Tells, Writing

\* A build that is not at work moves to a state in which it is not at work either.
LEMMA NotAtWork ==
  ASSUME TeamWikiTypeOK, NEW b \in Builders,
         build[b].at \in {"idle", "requested", "queued", "due"},
         NEW s \in {Idle, [at |-> "requested"], [at |-> "queued"], [at |-> "due"]}, Become(b, s)
  PROVE  AtWork' = AtWork /\ \A a \in AtWork : build'[a] = build[a]
<1>1. /\ build'[b].at \in {"idle", "requested", "queued", "due"}
      /\ \A a \in Builders \ {b} : build'[a] = build[a]
  BY DEF Become, TeamWikiTypeOK, Idle
<1> QED BY <1>1 DEF AtWork

\* A build at work goes on; what it has to show for it is the conditions.
LEMMA BuildGoesOn ==
  ASSUME TeamWikiTypeOK, WikiInv, NEW b \in AtWork, NEW s, Become(b, s),
         s.at \in {"drafting", "writing", "sweeping", "deleting", "marking"},
         s.seen = build[b].seen, s.mark = build[b].mark,
         UNCHANGED <<changedAt, thin, lastBuilt, overlapped>>,
         excused \subseteq excused', excused' \subseteq Topics,
         s.todo \cup s.drafted \cup (IF s.at = "writing" THEN {s.topic} ELSE {})
            \subseteq build[b].todo \cup build[b].drafted \cup Writing(b),
         (build[b].todo \cup build[b].drafted \cup Writing(b)) \ excused'
            \subseteq s.todo \cup s.drafted \cup (IF s.at = "writing" THEN {s.topic} ELSE {}),
         s.at \notin {"drafting", "writing"} => s.todo = {},
         ~overlapped => \A c \in s.drafted : Tells(c, build[b].seen[c])',
         ~overlapped /\ s.at = "writing"
            => article'[s.topic] = s.row
               \/ /\ s.row # NoArticle
                  /\ article'[s.topic] # NoArticle
                  /\ article'[s.topic].kind = "human",
         \A c \in Topics \ excused' :
            Spared(c) \/ Tells(c, changedAt[c])'
  PROVE  WikiInv'
<1>1. /\ build'[b] = s
      /\ \A a \in Builders \ {b} : build'[a] = build[a]
      /\ b \in Builders
  BY DEF Become, TeamWikiTypeOK, AtWork
<1>2. AtWork' = AtWork
  BY <1>1 DEF AtWork
<1>3. Writing(b)' = IF s.at = "writing" THEN {s.topic} ELSE {}
  BY <1>1 DEF Writing
<1>4. \A a \in AtWork \ {b} : build'[a] = build[a] /\ Writing(a)' = Writing(a)
  BY <1>1 DEF Writing, AtWork
<1>5. ~overlapped => AtWork = {b}
  BY DEF WikiInv, OverlapsAreKnown
<1>7. DraftsHaveMaterial'
  <2>1. \A a \in AtWork \ {b} : \A c \in build'[a].todo \cup build'[a].drafted \cup Writing(a)' :
           build'[a].seen[c] # 0
    BY <1>4 DEF WikiInv, DraftsHaveMaterial
  <2>2. \A c \in build'[b].todo \cup build'[b].drafted \cup Writing(b)' : build'[b].seen[c] # 0
    BY <1>1, <1>3 DEF WikiInv, DraftsHaveMaterial
  <2> QED BY <1>2, <2>1, <2>2 DEF DraftsHaveMaterial
<1>8. SweepsComeLast'
  BY <1>1, <1>2, <1>4 DEF WikiInv, SweepsComeLast
<1>9. OverlapsAreKnown'
  BY <1>2 DEF WikiInv, OverlapsAreKnown
<1>10. BuildsCoverTheirTopics'
  <2> SUFFICES ASSUME ~overlapped, NEW c \in Topics \ excused'
               PROVE  /\ changedAt[c] \in {0, s.seen[c]} \/ c \in thin
                      /\ s.mark /\ s.seen[c] # 0 => c \in s.todo \cup s.drafted \cup Writing(b)'
    BY <1>1, <1>2, <1>5 DEF BuildsCoverTheirTopics
  <2>1. /\ changedAt[c] \in {0, build[b].seen[c]} \/ c \in thin
        /\ build[b].mark /\ build[b].seen[c] # 0
              => c \in build[b].todo \cup build[b].drafted \cup Writing(b)
    BY DEF WikiInv, BuildsCoverTheirTopics
  <2> QED BY <1>3, <2>1
<1>11. DraftsAreKept'
  <2> SUFFICES ASSUME ~overlapped, NEW c \in s.drafted PROVE Tells(c, s.seen[c])'
    BY <1>1, <1>2, <1>5 DEF DraftsAreKept, Tells
  <2>1. Tells(c, build[b].seen[c])'
    OBVIOUS
  <2> QED BY <1>1, <2>1 DEF Tells
<1>12. RowsAreAsRead'
  BY <1>1, <1>2, <1>3, <1>5 DEF RowsAreAsRead
<1>13. TopicsAreTold'
  BY SparedStays DEF TopicsAreTold, Tells
<1> QED BY <1>7, <1>8, <1>9, <1>10, <1>11, <1>12, <1>13 DEF WikiInv

\* A build may begin to work, alone or beside others.
LEMMA StartIsCovered ==
  ASSUME TeamWikiTypeOK, WikiInv, NEW b \in Builders, StartBuild(b)
  PROVE  WikiInv'
<1> USE DEF StartBuild, UnchangedMaterial, articleVars
<1>1. b \notin AtWork
  BY DEF AtWork
<1>2. CASE EndBuild(b) /\ UNCHANGED <<excused, overlapped>>
  BY <1>2, NotAtWork, QuietStep DEF EndBuild
<1> DEFINE clusters == {c \in Topics : changedAt[c] # 0 /\ c \notin thin}
           found == [c \in Topics |-> IF c \in clusters THEN changedAt[c] ELSE 0]
<1>3. ASSUME NEW st \in {"sweeping", "drafting"}, NEW todo \in SUBSET Topics, NEW mark \in BOOLEAN,
             Become(b, [at |-> st, seen |-> found, todo |-> todo, drafted |-> {}, mark |-> mark]),
             st = "sweeping" => todo = {},
             \A c \in todo : c \in clusters,
             mark => todo = clusters,
             excused' = IF AtWork = {} THEN excused ELSE Topics,
             overlapped' = (AtWork # {})
      PROVE  WikiInv'
  <2> USE <1>3
  <2> DEFINE s == [at |-> st, seen |-> found, todo |-> todo, drafted |-> {}, mark |-> mark]
  <2>1. build'[b] = s /\ \A a \in Builders \ {b} : build'[a] = build[a]
    BY DEF Become, TeamWikiTypeOK
  <2>2. AtWork' = AtWork \cup {b}
    BY <2>1 DEF AtWork
  <2>3. /\ \A a \in AtWork : build'[a] = build[a] /\ Writing(a)' = Writing(a)
        /\ Writing(b)' = {}
    <3>1. \A a \in AtWork : a \in Builders \ {b}
      BY <1>1 DEF AtWork
    <3>2. \A a \in AtWork : build'[a] = build[a]
      BY <2>1, <3>1
    <3>3. Writing(b)' = {}
      BY <2>1 DEF Writing
    <3> QED BY <3>2, <3>3 DEF Writing
  <2>4. ~overlapped' => AtWork' = {b}
    BY <2>2
  <2>6. DraftsHaveMaterial'
    <3>1. \A a \in AtWork : \A c \in build'[a].todo \cup build'[a].drafted \cup Writing(a)' :
             build'[a].seen[c] # 0
      BY <2>3 DEF WikiInv, DraftsHaveMaterial
    <3>2. \A c \in build'[b].todo \cup build'[b].drafted \cup Writing(b)' : build'[b].seen[c] # 0
      BY <2>1, <2>3
    <3> QED BY <2>2, <3>1, <3>2 DEF DraftsHaveMaterial
  <2>7. SweepsComeLast'
    BY <2>1, <2>2, <2>3 DEF WikiInv, SweepsComeLast
  <2>8. OverlapsAreKnown'
    BY <2>4 DEF OverlapsAreKnown
  <2>9. BuildsCoverTheirTopics'
    <3> SUFFICES ASSUME NEW c \in Topics
                 PROVE  /\ changedAt[c] \in {0, s.seen[c]} \/ c \in thin
                        /\ s.mark /\ s.seen[c] # 0 => c \in s.todo
      BY <2>1, <2>4 DEF BuildsCoverTheirTopics
    <3> QED OBVIOUS
  <2>10. DraftsAreKept'
    BY <2>1, <2>4 DEF DraftsAreKept
  <2>11. RowsAreAsRead'
    BY <2>3, <2>4 DEF RowsAreAsRead
  <2>12. TopicsAreTold'
    BY SparedStays DEF WikiInv, TopicsAreTold, Tells
  <2> QED BY <2>6, <2>7, <2>8, <2>9, <2>10, <2>11, <2>12 DEF WikiInv
<1>4. CASE /\ \/ Become(b, [at |-> "sweeping", seen |-> found, todo |-> {}, drafted |-> {}, mark |-> FALSE])
              \/ Become(b, [at |-> "drafting", seen |-> found, todo |-> clusters, drafted |-> {}, mark |-> TRUE])
           /\ excused' = IF AtWork = {} THEN excused ELSE Topics
           /\ overlapped' = (AtWork # {})
  <2>1. {} \in SUBSET Topics /\ clusters \in SUBSET Topics
    OBVIOUS
  <2> HIDE DEF clusters, found, StartBuild
  <2>2. CASE Become(b, [at |-> "sweeping", seen |-> found, todo |-> {}, drafted |-> {}, mark |-> FALSE])
    BY <1>3, <1>4, <2>1, <2>2
  <2>3. CASE Become(b, [at |-> "drafting", seen |-> found, todo |-> clusters, drafted |-> {}, mark |-> TRUE])
    BY <1>3, <1>4, <2>1, <2>3
  <2> QED BY <1>4, <2>2, <2>3
<1> QED BY <1>2, <1>4


\* A draft ends up in its article, or its topic is excused.
LEMMA StoringIsCovered ==
  ASSUME TeamWikiTypeOK, WikiInv, NEW b \in Builders, StoreArticle(b),
         NEW c, c = build[b].topic, NEW seen, seen = build[b].seen
  PROVE  WikiInv'
<1> USE DEF StoreArticle, UnchangedMaterial
<1> DEFINE row == build[b].row
           text == [by |-> "llm", nr |-> seen[c]]
           drafting(done) ==
             [at |-> "drafting", seen |-> seen, todo |-> build[b].todo,
              drafted |-> build[b].drafted \cup done, mark |-> build[b].mark]
<1>1. /\ b \in AtWork
      /\ c \in Topics
      /\ row \in ArticleRows \cup {NoArticle}
      /\ Writing(b) = {c}
  BY WorkIsTyped DEF Writing
<1>2. /\ ~overlapped => \A d \in build[b].drafted : Tells(d, seen[d])
      /\ ~overlapped => (\/ article[c] = row
                         \/ row # NoArticle /\ article[c] # NoArticle /\ article[c].kind = "human")
      /\ ~overlapped => (c \in excused \/ changedAt[c] \in {0, seen[c]} \/ c \in thin)
      /\ overlapped => excused = Topics
      /\ \A d \in Topics \ excused :
            Spared(d) \/ Tells(d, changedAt[d])
  BY <1>1 DEF WikiInv, DraftsAreKept, RowsAreAsRead, BuildsCoverTheirTopics, OverlapsAreKnown, TopicsAreTold
<1>3. excused \subseteq excused' /\ excused' \subseteq Topics
  BY <1>1 DEF TeamWikiTypeOK
<1>4. build[b].at = "writing" /\ UNCHANGED <<changedAt, thin, lastBuilt, overlapped>>
  OBVIOUS
<1>5. ASSUME Become(b, drafting({c})), UNCHANGED excused,
             ~overlapped => Tells(c, seen[c])',
             \A d \in Topics \ {c} : article'[d] = article[d],
             article'[c] = article[c] \/ Tells(c, seen[c])'
      PROVE  WikiInv'
  <2> DEFINE s == drafting({c})
  <2>0. build'[b].seen = seen
    BY <1>5 DEF Become, TeamWikiTypeOK
  <2>1. ~overlapped => \A d \in s.drafted : Tells(d, seen[d])'
    BY <1>1, <1>2, <1>5, WorkIsTyped, <1>4 DEF Tells
  <2>2. \A d \in Topics \ excused' :
           Spared(d) \/ Tells(d, changedAt[d])'
    <3> SUFFICES ASSUME NEW d \in Topics \ excused
                 PROVE  Spared(d) \/ Tells(d, changedAt[d])'
      BY <1>5
    <3>1. CASE article'[d] = article[d]
      BY <1>2, <1>4, <3>1 DEF Tells
    <3>2. CASE d = c /\ Tells(c, seen[c])'
      BY <1>2, <1>4, <2>0, <3>2 DEF Tells, Spared
    <3> QED BY <1>5, <3>1, <3>2
  <2>3. /\ s.at = "drafting" /\ s.seen = seen /\ s.mark = build[b].mark
        /\ s.todo \cup s.drafted = build[b].todo \cup build[b].drafted \cup {c}
    OBVIOUS
  <2> HIDE DEF drafting, row, text, StoreArticle
  <2> QED BY <1>1, <1>3, <1>4, <1>5, <2>0, <2>1, <2>2, <2>3, BuildGoesOn, SMTT(40) DEF s
<1>6. CASE row # NoArticle /\ row.text = text /\ UNCHANGED <<articleVars, excused>> /\ Become(b, drafting({c}))
  <2>1. build'[b].seen = seen /\ article' = article
    BY <1>6 DEF Become, TeamWikiTypeOK, articleVars
  <2>2. ~overlapped => Tells(c, seen[c])'
    BY <1>2, <1>6, <2>1, SMTT(40) DEF Tells
  <2> QED BY <1>5, <1>6, <2>1, <2>2
<1>7. CASE /\ \E id : article' = [article EXCEPT ![c] = [id |-> id, text |-> text, kind |-> "llm"]] /\ id \in 1..MaxRows
           /\ UNCHANGED excused
           /\ Become(b, drafting({c}))
  <2>1. PICK id \in 1..MaxRows : article' = [article EXCEPT ![c] = [id |-> id, text |-> text, kind |-> "llm"]]
    BY <1>7
  <2>2. build'[b].seen = seen
    BY <1>7 DEF Become, TeamWikiTypeOK
  <2>3. /\ article'[c] = [id |-> id, text |-> text, kind |-> "llm"]
        /\ \A d \in Topics \ {c} : article'[d] = article[d]
    BY <1>1, <2>1 DEF TeamWikiTypeOK
  <2>4. article'[c] # NoArticle
    BY <2>3, TeamWikiAssumption DEF NoArticle, TeamWikiAssumption
  <2>5. Tells(c, seen[c])'
    BY <2>2, <2>3, <2>4 DEF Tells
  <2> QED BY <1>5, <1>7, <2>3, <2>5
<1>8. CASE excused' = excused \cup {c} /\ UNCHANGED articleVars /\ Become(b, drafting({}))
  <2> DEFINE s == drafting({})
  <2>0. build'[b].seen = seen /\ article' = article
    BY <1>8 DEF Become, TeamWikiTypeOK, articleVars
  <2>1. ~overlapped => \A d \in s.drafted : Tells(d, seen[d])'
    BY <1>2, <2>0 DEF Tells
  <2>2. \A d \in Topics \ excused' :
           Spared(d) \/ Tells(d, changedAt[d])'
    BY <1>2, <1>3, <1>4, <2>0 DEF Tells
  <2>3. /\ s.at = "drafting" /\ s.seen = seen /\ s.mark = build[b].mark
        /\ s.todo \cup s.drafted = build[b].todo \cup build[b].drafted
        /\ c \in excused'
    BY <1>8
  <2> HIDE DEF drafting, row, text, StoreArticle
  <2> QED BY <1>1, <1>3, <1>4, <1>8, <2>0, <2>1, <2>2, <2>3, BuildGoesOn DEF s
<1>9. row # NoArticle => row.id \in 1..MaxRows
  BY <1>1 DEF ArticleRows
<1>10. lastRow < MaxRows => lastRow + 1 \in 1..MaxRows
  BY TeamWikiAssumption DEF TeamWikiTypeOK, TeamWikiAssumption
<1> QED BY <1>6, <1>7, <1>8, <1>9, <1>10 DEF Replace


\* Every step of the wiki keeps the invariant.
LEMMA WikiInvStep ==
  ASSUME TeamWikiTypeOK, WikiInv, [TeamWikiNext]_wikiVars
  PROVE  WikiInv'
<1> USE DEF UnchangedMaterial, articleVars
<1>1. ASSUME NEW c \in Topics, StampChange(c) PROVE WikiInv'
  BY <1>1, QuietStep DEF StampChange, AtWork
<1>2. ASSUME NEW c \in Topics, CommitChange(c) \/ RemoveMaterial(c) PROVE WikiInv'
  <2>1. /\ \A d \in Topics \ {c} : changedAt'[d] = changedAt[d] /\ (d \in thin' <=> d \in thin)
        /\ excused \subseteq excused' /\ excused' \subseteq Topics
        /\ AtWork' = AtWork
        /\ \A b \in AtWork : Writing(b)' = Writing(b)
        /\ UNCHANGED <<lastBuilt, build, overlapped, article>>
    <3> USE DEF AtWork, Writing, TeamWikiTypeOK
    <3>1. CASE CommitChange(c)
      BY <3>1 DEF CommitChange
    <3>2. CASE RemoveMaterial(c)
      BY <3>2 DEF RemoveMaterial
    <3> QED BY <1>2, <3>1, <3>2
  <2>2. DraftsHaveMaterial' /\ SweepsComeLast' /\ OverlapsAreKnown'
    BY <2>1 DEF WikiInv, DraftsHaveMaterial, SweepsComeLast, OverlapsAreKnown
  <2>3. BuildsCoverTheirTopics'
    <3>1. c \in excused' \/ AtWork = {} \/ changedAt'[c] = 0 \/ c \in thin'
      BY <1>2 DEF CommitChange, RemoveMaterial, TeamWikiTypeOK
    <3> QED BY <2>1, <3>1 DEF WikiInv, BuildsCoverTheirTopics
  <2>4. DraftsAreKept' /\ RowsAreAsRead'
    BY <2>1 DEF WikiInv, DraftsAreKept, RowsAreAsRead, Tells
  <2>5. TopicsAreTold'
    <3>1. c \in excused' \/ Spared(c)'
      BY <1>2 DEF CommitChange, RemoveMaterial, Spared, TeamWikiTypeOK
    <3>2. \A d \in Topics \ {c} : Spared(d)' <=> Spared(d)
      BY <2>1 DEF Spared, Stamp, WholeSecond
    <3> QED BY <2>1, <3>1, <3>2 DEF WikiInv, TopicsAreTold, Tells
  <2> QED BY <2>2, <2>3, <2>4, <2>5 DEF WikiInv
<1>3. ASSUME NEW b \in Builders, RequestBuild(b) \/ QueueBuild(b) PROVE WikiInv'
  BY <1>3, NotAtWork, QuietStep DEF RequestBuild, QueueBuild, Idle
<1>4. CASE FindDue
  <2>1. "worker" \in Builders
    BY DEF Builders
  <2> QED BY <1>4, <2>1, NotAtWork, QuietStep DEF FindDue, Idle
<1>5. CASE FlagGrowsStale
  BY <1>5, QuietStep DEF FlagGrowsStale, AtWork
<1>6. ASSUME NEW b \in Builders, StartBuild(b) PROVE WikiInv'
  BY <1>6, StartIsCovered
<1>7. ASSUME NEW b \in Builders, StoreArticle(b) PROVE WikiInv'
  BY <1>7, StoringIsCovered
<1>8. ASSUME NEW b \in Builders, NEW c \in Topics, DraftFails(b, c) PROVE WikiInv'
  <2> USE <1>8 DEF DraftFails
  <2> DEFINE s == [build[b] EXCEPT !.todo = build[b].todo \ {c}]
  <2>1. build[b] \in [at : {"drafting", "sweeping", "marking"}, seen : [Topics -> 0..MaxTime],
                     todo : SUBSET Topics, drafted : SUBSET Topics, mark : BOOLEAN]
    <3>1. build[b] \in BuildStates /\ build[b].at = "drafting"
      BY DEF TeamWikiTypeOK
    <3> QED BY <3>1 DEF BuildStates, Idle
  <2>2. /\ s.at = "drafting" /\ s.seen = build[b].seen /\ s.mark = build[b].mark
        /\ s.drafted = build[b].drafted /\ s.todo = build[b].todo \ {c}
        /\ build'[b] = s
    BY <2>1 DEF Become, TeamWikiTypeOK
  <2>3. b \in AtWork /\ Writing(b) = {}
    BY DEF AtWork, Writing
  <2>4. /\ ~overlapped => \A d \in s.drafted : Tells(d, build[b].seen[d])'
        /\ \A d \in Topics \ excused' :
              Spared(d) \/ Tells(d, changedAt[d])'
    BY <2>2, <2>3 DEF WikiInv, DraftsAreKept, TopicsAreTold, Tells
  <2>5. excused \subseteq excused' /\ excused' \subseteq Topics /\ c \in excused'
    BY DEF TeamWikiTypeOK
  <2>6. Become(b, s) /\ UNCHANGED <<changedAt, thin, lastBuilt, overlapped>>
    OBVIOUS
  <2> HIDE DEF s, DraftFails
  <2> QED BY <2>2, <2>3, <2>4, <2>5, <2>6, BuildGoesOn
<1>9. ASSUME NEW b \in Builders, NEW c \in Topics, DraftArticle(b, c) PROVE WikiInv'
  <2> USE <1>9 DEF DraftArticle
  <2> DEFINE s == [at |-> "writing", seen |-> build[b].seen, todo |-> build[b].todo \ {c},
                   drafted |-> build[b].drafted, mark |-> build[b].mark, topic |-> c, row |-> article[c]]
  <2>1. b \in AtWork /\ Writing(b) = {}
    BY DEF AtWork, Writing
  <2>2. build'[b] = s
    BY DEF Become, TeamWikiTypeOK
  <2>3. /\ ~overlapped => \A d \in s.drafted : Tells(d, build[b].seen[d])'
        /\ \A d \in Topics \ excused' :
              Spared(d) \/ Tells(d, changedAt[d])'
    BY <2>1, <2>2 DEF WikiInv, DraftsAreKept, TopicsAreTold, Tells
  <2>4. /\ excused \subseteq excused' /\ excused' \subseteq Topics
        /\ Become(b, s) /\ UNCHANGED <<changedAt, thin, lastBuilt, overlapped>>
        /\ article'[s.topic] = s.row
        /\ s.todo \cup s.drafted \cup {s.topic} = build[b].todo \cup build[b].drafted
        /\ s.at = "writing" /\ s.seen = build[b].seen /\ s.mark = build[b].mark
    BY DEF TeamWikiTypeOK
  <2> HIDE DEF s, DraftArticle
  <2> QED BY <2>1, <2>3, <2>4, BuildGoesOn
<1>10. ASSUME NEW b \in Builders, SelectStale(b) PROVE WikiInv'
  <2> USE <1>10 DEF SelectStale
  <2> DEFINE s == [at |-> "deleting", seen |-> build[b].seen, todo |-> {},
                   drafted |-> build[b].drafted, mark |-> build[b].mark,
                   ids |-> {article[c].id : c \in {x \in Topics : Stale(b, x)}}]
  <2>1. b \in AtWork /\ Writing(b) = {} /\ build[b].todo = {}
    BY DEF AtWork, Writing, WikiInv, SweepsComeLast
  <2>2. build'[b] = s
    BY DEF Become, TeamWikiTypeOK
  <2>3. /\ ~overlapped => \A d \in s.drafted : Tells(d, build[b].seen[d])'
        /\ \A d \in Topics \ excused' :
              Spared(d) \/ Tells(d, changedAt[d])'
    BY <2>1, <2>2 DEF WikiInv, DraftsAreKept, TopicsAreTold, Tells
  <2>4. /\ excused \subseteq excused' /\ excused' \subseteq Topics
        /\ Become(b, s) /\ UNCHANGED <<changedAt, thin, lastBuilt, overlapped>>
        /\ s.todo = {} /\ s.drafted = build[b].drafted
        /\ s.at = "deleting" /\ s.seen = build[b].seen /\ s.mark = build[b].mark
    BY DEF TeamWikiTypeOK
  <2> HIDE DEF s, SelectStale
  <2> QED BY <2>1, <2>3, <2>4, BuildGoesOn
<1>11. ASSUME NEW b \in Builders, DeleteStale(b) PROVE WikiInv'
  <2> USE <1>11 DEF DeleteStale
  <2> DEFINE s == [at |-> "marking", seen |-> build[b].seen, todo |-> {},
                   drafted |-> build[b].drafted, mark |-> build[b].mark]
  <2>1. b \in AtWork /\ Writing(b) = {} /\ build[b].todo = {}
    BY DEF AtWork, Writing, WikiInv, SweepsComeLast
  <2>2. build'[b] = s
    BY DEF Become, TeamWikiTypeOK
  <2>3. /\ build[b].seen \in [Topics -> 0..MaxTime]
        /\ build[b].drafted \in SUBSET Topics
    BY WorkIsTyped
  <2>4. \A d \in Topics : article'[d] = article[d] \/ build[b].seen[d] = 0
    BY DEF Swept, Stale
  <2>5. ~overlapped => \A d \in s.drafted : Tells(d, build[b].seen[d])'
    BY <2>1, <2>2, <2>3, <2>4 DEF WikiInv, DraftsAreKept, DraftsHaveMaterial, Tells
  <2>6. \A d \in Topics \ excused' :
           Spared(d) \/ Tells(d, changedAt[d])'
    <3> SUFFICES ASSUME NEW d \in Topics \ excused
                 PROVE  Spared(d) \/ Tells(d, changedAt[d])'
      OBVIOUS
    <3>1. CASE article'[d] = article[d]
      BY <3>1 DEF WikiInv, TopicsAreTold, Tells
    <3>2. CASE build[b].seen[d] = 0
      BY <2>1, <3>2 DEF WikiInv, OverlapsAreKnown, BuildsCoverTheirTopics, Spared
    <3> QED BY <2>4, <3>1, <3>2
  <2>7. /\ excused \subseteq excused' /\ excused' \subseteq Topics
        /\ Become(b, s) /\ UNCHANGED <<changedAt, thin, lastBuilt, overlapped>>
        /\ s.todo = {} /\ s.drafted = build[b].drafted
        /\ s.at = "marking" /\ s.seen = build[b].seen /\ s.mark = build[b].mark
    BY DEF TeamWikiTypeOK
  <2> HIDE DEF s, DeleteStale
  <2> QED BY <2>1, <2>5, <2>6, <2>7, BuildGoesOn
<1>12. ASSUME NEW b \in Builders, FinishBuild(b) PROVE WikiInv'
  <2> USE <1>12 DEF FinishBuild, EndBuild
  <2>1. /\ b \in AtWork /\ Writing(b) = {} /\ build[b].todo = {}
    BY DEF AtWork, Writing, WikiInv, SweepsComeLast
  <2>2. build'[b] = Idle /\ \A a \in Builders \ {b} : build'[a] = build[a]
    BY DEF Become, TeamWikiTypeOK
  <2>3. AtWork' = AtWork \ {b}
    BY <2>2 DEF AtWork, Idle
  <2>4. \A a \in AtWork \ {b} : build'[a] = build[a] /\ Writing(a)' = Writing(a)
    BY <2>2 DEF Writing, AtWork
  <2>5. ~overlapped' => AtWork' = {}
    BY <2>1, <2>3 DEF WikiInv, OverlapsAreKnown
  <2>8. DraftsHaveMaterial' /\ SweepsComeLast'
    BY <2>3, <2>4 DEF WikiInv, DraftsHaveMaterial, SweepsComeLast
  <2>9. OverlapsAreKnown'
    BY <2>5 DEF WikiInv, OverlapsAreKnown
  <2>10. BuildsCoverTheirTopics' /\ DraftsAreKept' /\ RowsAreAsRead'
    BY <2>5 DEF BuildsCoverTheirTopics, DraftsAreKept, RowsAreAsRead
  <2>11. TopicsAreTold'
    <3> SUFFICES ASSUME NEW c \in Topics \ excused'
                 PROVE  Spared(c)' \/ Tells(c, changedAt[c])
      BY DEF TopicsAreTold, Tells
    <3>1. ~overlapped
      BY DEF WikiInv, OverlapsAreKnown
    <3>2. CASE c \in excused
      BY <2>1, <3>1, <3>2 DEF WikiInv, DraftsAreKept
    <3>3. CASE c \notin excused /\ build[b].mark
      BY <2>1, <3>1, <3>3 DEF WikiInv, BuildsCoverTheirTopics, DraftsAreKept, Spared
    <3>4. CASE c \notin excused /\ ~build[b].mark
      <4>1. Spared(c)' <=> Spared(c)
        BY <3>4, SparedStays
      <4> QED BY <3>4, <4>1 DEF WikiInv, TopicsAreTold
    <3> QED BY <3>2, <3>3, <3>4
  <2> QED BY <2>8, <2>9, <2>10, <2>11 DEF WikiInv
<1>13. CASE KillBuilds
  <2>1. AtWork' = {}
    BY <1>13 DEF KillBuilds, AtWork, Idle
  <2>2. \A c \in Topics : Spared(c)' <=> Spared(c)
    BY <1>13, SparedStays DEF KillBuilds
  <2> QED BY <1>13, <2>1, <2>2 DEF KillBuilds, WikiInv, DraftsHaveMaterial, SweepsComeLast,
          OverlapsAreKnown, BuildsCoverTheirTopics, DraftsAreKept, RowsAreAsRead, TopicsAreTold, Tells
<1>17. ASSUME NEW b \in Builders, BuildRaises(b) PROVE WikiInv'
  <2> USE <1>17 DEF BuildRaises, EndBuild
  <2>1. build'[b] = Idle /\ \A a \in Builders \ {b} : build'[a] = build[a]
    BY DEF Become, TeamWikiTypeOK
  <2>2. AtWork' = AtWork \ {b}
    BY <2>1 DEF AtWork, Idle
  <2>3. \A a \in AtWork' : a \in AtWork /\ build'[a] = build[a] /\ Writing(a)' = Writing(a)
    BY <2>1, <2>2 DEF Writing, AtWork
  <2>4. overlapped' \/ AtWork' = {} \/ (AtWork' = AtWork /\ ~overlapped)
    BY <2>2 DEF WikiInv, OverlapsAreKnown
  <2>5. DraftsHaveMaterial' /\ SweepsComeLast'
    BY <2>3 DEF WikiInv, DraftsHaveMaterial, SweepsComeLast
  <2>6. OverlapsAreKnown'
    BY <2>3, <2>4 DEF WikiInv, OverlapsAreKnown
  <2>7. BuildsCoverTheirTopics' /\ DraftsAreKept' /\ RowsAreAsRead'
    BY <2>3, <2>4 DEF WikiInv, BuildsCoverTheirTopics, DraftsAreKept, RowsAreAsRead, Tells
  <2>8. TopicsAreTold'
    BY SparedStays DEF WikiInv, TopicsAreTold, Tells
  <2> QED BY <2>5, <2>6, <2>7, <2>8 DEF WikiInv
<1>14. ASSUME NEW e \in Editors, NEW c \in Topics, ReadForEdit(e, c) PROVE WikiInv'
  BY <1>14, QuietStep DEF ReadForEdit, AtWork
<1>15. ASSUME NEW e \in Editors, StoreEdit(e) PROVE WikiInv'
  <2> USE <1>15 DEF StoreEdit
  <2>1. CASE UNCHANGED articleVars
    BY <2>1, QuietStep DEF AtWork
  <2>2. CASE SameRow(edit[e].topic, edit[e].row) /\ UNCHANGED lastRow
             /\ Replace(edit[e].topic, edit[e].row, [by |-> "human", nr |-> lastEdit + 1], "human")
    <3>1. PICK c \in Topics, row \in ArticleRows : c = edit[e].topic /\ row = edit[e].row
      BY DEF TeamWikiTypeOK
    <3>2. /\ article[c] # NoArticle
          /\ article'[c] # NoArticle
          /\ article'[c].kind = "human"
          /\ \A d \in Topics \ {c} : article'[d] = article[d]
      <4>1. row.id # 0 /\ article[c].id = row.id
        BY <2>2, <3>1, TeamWikiAssumption DEF ArticleRows, TeamWikiAssumption, SameRow
      <4>2. article' = [article EXCEPT ![c] = [id |-> row.id,
                          text |-> [by |-> "human", nr |-> lastEdit + 1], kind |-> "human"]]
        BY <2>2, <3>1 DEF Replace
      <4>3. article'[c] = [id |-> row.id, text |-> [by |-> "human", nr |-> lastEdit + 1], kind |-> "human"]
        BY <4>2 DEF TeamWikiTypeOK
      <4> QED BY <4>1, <4>2, <4>3 DEF NoArticle, TeamWikiTypeOK
    <3>3. /\ UNCHANGED <<changedAt, thin, lastBuilt, build, excused, overlapped>>
          /\ AtWork' = AtWork /\ \A b \in AtWork : Writing(b)' = Writing(b)
      BY DEF AtWork, Writing
    <3>4. DraftsHaveMaterial' /\ SweepsComeLast' /\ OverlapsAreKnown'
          /\ BuildsCoverTheirTopics'
      BY <3>3 DEF WikiInv, DraftsHaveMaterial, SweepsComeLast, OverlapsAreKnown,
         BuildsCoverTheirTopics
    <3>5. DraftsAreKept'
      <4>1. \A b \in AtWork : build[b].drafted \in SUBSET Topics
        BY WorkHasStages, WorkIsTyped
      <4> QED BY <3>2, <3>3, <4>1 DEF WikiInv, DraftsAreKept, Tells
    <3>6. RowsAreAsRead'
      <4>1. \A b \in AtWork : Writing(b) \in SUBSET Topics
        BY WorkHasStages, WorkIsTyped DEF Writing
      <4> QED BY <3>2, <3>3, <4>1 DEF WikiInv, RowsAreAsRead
    <3>7. TopicsAreTold'
      BY <3>2, <3>3, SparedStays DEF WikiInv, TopicsAreTold, Tells
    <3> QED BY <3>4, <3>5, <3>6, <3>7 DEF WikiInv
  <2> QED BY <2>1, <2>2
<1>16. CASE UNCHANGED wikiVars
  BY <1>16, QuietStep DEF wikiVars, AtWork
<1> QED BY <1>1, <1>2, <1>3, <1>4, <1>5, <1>6, <1>7, <1>8, <1>9, <1>10, <1>11, <1>12, <1>13,
           <1>14, <1>15, <1>16, <1>17 DEF TeamWikiNext

\* The variables of the wiki keep their types, and a build that is alone at work knows
\* of every topic what the properties below are about.
THEOREM TeamWikiIsSound == TeamWikiSpec => [](TeamWikiTypeOK /\ WikiInv)
<1>1. TeamWikiInit => TeamWikiTypeOK /\ WikiInv
  <2> SUFFICES ASSUME TeamWikiInit PROVE TeamWikiTypeOK /\ WikiInv
    OBVIOUS
  <2>1. AtWork = {}
    BY DEF TeamWikiInit, AtWork, Idle
  <2>2. WikiInv
    BY <2>1 DEF TeamWikiInit, WikiInv, Spared, DraftsHaveMaterial, SweepsComeLast,
       OverlapsAreKnown, BuildsCoverTheirTopics, DraftsAreKept, RowsAreAsRead, TopicsAreTold
  <2>3. TeamWikiTypeOK
    <3>1. Idle \in BuildStates
      BY DEF BuildStates
    <3> USE DEF TeamWikiInit
    <3>2. /\ changedAt \in [Topics -> 0..MaxTime] /\ dated \in [Topics -> 0..MaxTime]
          /\ thin \subseteq Topics /\ clock \in 0..MaxTime
          /\ lastBuilt \in 0..MaxTime /\ lastRow \in 0..MaxRows /\ lastEdit \in 0..MaxEdits
      BY TeamWikiAssumption DEF TeamWikiAssumption
    <3>3. article \in [Topics -> ArticleRows \cup {NoArticle}] /\ kept \in [1..MaxRows -> SUBSET ArticleTexts]
      OBVIOUS
    <3>4. /\ build \in [Builders -> BuildStates]
          /\ edit \in [Editors -> {NotEditing} \cup [topic : Topics, row : ArticleRows]]
      BY <3>1
    <3> QED BY <3>2, <3>3, <3>4 DEF TeamWikiTypeOK
  <2> QED BY <2>2, <2>3
<1>2. TeamWikiTypeOK /\ WikiInv /\ [TeamWikiNext]_wikiVars => (TeamWikiTypeOK /\ WikiInv)'
  BY WikiTypesStep, WikiInvStep DEF WikiInv
<1> QED BY <1>1, <1>2, PTL DEF TeamWikiSpec

\* While a topic has newer material than its article, the change-gate opens for the
\* next build at dawn.
THEOREM ChangesReachTheWiki == TeamWikiSpec => []NoChangeIsForgotten
<1>1. WikiInv => NoChangeIsForgotten
  BY DEF WikiInv, TopicsAreTold, Spared, Tells, NoChangeIsForgotten, NewContent
<1> QED BY <1>1, TeamWikiIsSound, PTL

\* The sweep takes articles of the model only.
THEOREM SweepsSpareHumans == TeamWikiSpec => HumanArticlesAreNotSwept
<1>1. TeamWikiTypeOK /\ WikiInv /\ [TeamWikiNext]_wikiVars
        => [\A c \in Topics :
              article[c] # NoArticle /\ article'[c] = NoArticle
              => article[c].kind = "llm"]_wikiVars
  <2> SUFFICES ASSUME TeamWikiTypeOK, WikiInv, TeamWikiNext, NEW c \in Topics,
                      article[c] # NoArticle, article'[c] = NoArticle
               PROVE  article[c].kind = "llm"
    OBVIOUS
  <2> USE TeamWikiAssumption DEF TeamWikiAssumption
  <2>1. ASSUME NEW d, NEW row \in ArticleRows, NEW text, NEW kind, Replace(d, row, text, kind)
        PROVE  FALSE
    <3>1. row.id # 0
      BY DEF ArticleRows
    <3> QED BY <2>1, <3>1 DEF Replace, TeamWikiTypeOK, NoArticle
  <2>2. ASSUME NEW b \in Builders, StoreArticle(b) PROVE FALSE
    <3>1. build[b].row \in ArticleRows \cup {NoArticle}
      BY <2>2, WorkIsTyped DEF StoreArticle
    <3>2. CASE article' = [article EXCEPT ![build[b].topic] =
                             [id |-> lastRow + 1, text |-> [by |-> "llm",
                                nr |-> build[b].seen[build[b].topic]], kind |-> "llm"]]
      BY <3>2 DEF TeamWikiTypeOK, NoArticle
    <3> QED BY <2>1, <2>2, <3>1, <3>2 DEF StoreArticle, articleVars
  <2>3. ASSUME NEW e \in Editors, StoreEdit(e) PROVE FALSE
    <3>1. edit[e].row \in ArticleRows
      BY <2>3 DEF StoreEdit, TeamWikiTypeOK
    <3> QED BY <2>1, <2>3, <3>1 DEF StoreEdit, articleVars
  <2>4. PICK b \in Builders : DeleteStale(b)
    BY <2>2, <2>3 DEF TeamWikiNext, StampChange, CommitChange, RemoveMaterial, BuildRaises, RequestBuild, QueueBuild, StartBuild,
       DraftFails, DraftArticle, SelectStale, FinishBuild, FlagGrowsStale, FindDue, KillBuilds,
       ReadForEdit, articleVars
  <2> QED BY <2>4 DEF DeleteStale, Swept, Stale
<1> QED BY <1>1, TeamWikiIsSound, PTL DEF TeamWikiSpec, HumanArticlesAreNotSwept
-----------------------------------------------------------------------------
(* Wiki and membership together *)

\* A behaviour of the composition is, for each of the two, one of its own or one in
\* which it stands still.
THEOREM TeamsRefineTheirParts == TeamSpec => TeamWikiSpec /\ TeamInvitesSpec
<1>1. TeamInit => TeamWikiInit /\ TeamInvitesInit
  BY DEF TeamInit
<1>2. [TeamNext]_teamVars => [TeamWikiNext]_wikiVars /\ [TeamInvitesNext]_inviteVars
  BY DEF TeamNext, teamVars
<1> QED BY <1>1, <1>2, PTL DEF TeamSpec, TeamWikiSpec, TeamInvitesSpec

\* A team's wiki and its membership keep their types.
THEOREM TeamsTypeCorrect == TeamSpec => []TeamTypeOK
<1>1. TeamInit => focus \in {"wiki", "invites"}
  BY DEF TeamInit
<1>2. focus \in {"wiki", "invites"} /\ [TeamNext]_teamVars => (focus \in {"wiki", "invites"})'
  BY DEF TeamNext, teamVars
<1>3. focus \in {"wiki", "invites"} /\ TeamWikiTypeOK /\ TeamInvitesTypeOK => TeamTypeOK
  BY DEF TeamTypeOK
<1> QED
  BY <1>1, <1>2, <1>3, TeamsRefineTheirParts, TeamWikiIsSound, TeamInvitesTypeCorrect, PTL
     DEF TeamSpec
=============================================================================
