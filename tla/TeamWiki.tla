------------------------------- MODULE TeamWiki -------------------------------
(***************************************************************************)
(* The wiki a language model writes for a team: one article per topic of   *)
(* the team's documents and memories, edited by people, rebuilt at dawn by *)
(* team_wiki_worker or on request of the owner.                            *)
(*                                                                         *)
(* A build reads the material once, drafts topic after topic, sweeps what  *)
(* it has not produced and marks the team built.  Writers of an article    *)
(* read its row, and store the old text and the new one in a transaction   *)
(* that names the row by its id.                                           *)
(*                                                                         *)
(* Material is dated when its writer reads the clock and appears when it   *)
(* commits; memories are dated in whole seconds.  Abstracted: a topic has  *)
(* one writer at a time, its clusters have slugs of their own, the same    *)
(* text is not kept twice, and a build reads team, memories and documents  *)
(* in one step.                                                            *)
(***************************************************************************)
EXTENDS Integers, FiniteSets

CONSTANTS
    Topics,      \* clusters of documents or memories; each has one slug
    MemoryTopics,\* the topics that memories belong to
    Owners,      \* tasks: builds requested by the owner
    Editors,     \* tasks: requests of people editing articles
    MaxTime,     \* bound: the instants clocks show
    Second,      \* instants to a second
    MaxRows,     \* bound: article rows ever inserted
    MaxEdits     \* bound: edits by people

ASSUME TeamWikiAssumption ==
    /\ MemoryTopics \subseteq Topics
    /\ MaxTime \in Nat /\ MaxRows \in Nat /\ MaxEdits \in Nat
    /\ Second \in Nat \ {0}

Builders == Owners \cup {"worker"}

VARIABLES
    changedAt, \* per topic when its newest material was dated, 0 without material
    dated,  \* per topic the date of a change on its way to the store, or 0
    thin,      \* topics with too little text for an article
    clock,     \* the latest instant anybody has read
    lastBuilt, \* Team.last_wiki_built_at, 0 for NULL
    building,  \* Team.wiki_building_since: clear, fresh or stale
    article,   \* TeamWikiArticle row of each slug, or NoArticle
    kept,      \* texts in TeamWikiRevision, per article row
    lastRow,
    lastEdit,
    build,     \* what each build is doing
    edit,      \* what each editor has read
    excused,   \* topics that changed while a build ran or late, failed, or met two builds
    overlapped \* a build at work has overlapped with another

articleVars == <<article, kept, lastRow, lastEdit>>
wikiVars == <<changedAt, dated, thin, clock, lastBuilt, building, article, kept, lastRow, lastEdit,
              build, edit, excused, overlapped>>

NoArticle == [id |-> 0]
Idle == [at |-> "idle"]
NotEditing == [topic |-> "none"]

\* A text of the model is named after the material it was drafted from, one of
\* a person after the edit.
ArticleTexts == [by : {"llm"}, nr : 1..MaxTime] \cup [by : {"human"}, nr : 1..MaxEdits]

ArticleRows == [id : 1..MaxRows, text : ArticleTexts, kind : {"llm", "human"}]

BuildStates ==
    {Idle} \cup [at : {"requested", "queued", "due"}]
    \cup [at : {"drafting", "sweeping", "marking"}, seen : [Topics -> 0..MaxTime], todo : SUBSET Topics, drafted : SUBSET Topics,
          mark : BOOLEAN]
    \cup [at : {"writing"}, seen : [Topics -> 0..MaxTime],
          todo : SUBSET Topics, drafted : SUBSET Topics, mark : BOOLEAN,
          topic : Topics, row : ArticleRows \cup {NoArticle}]
    \cup [at : {"deleting"}, seen : [Topics -> 0..MaxTime],
          todo : SUBSET Topics, drafted : SUBSET Topics, mark : BOOLEAN,
          ids : SUBSET (1..MaxRows)]

TeamWikiTypeOK ==
    /\ changedAt \in [Topics -> 0..MaxTime]
    /\ dated \in [Topics -> 0..MaxTime]
    /\ thin \subseteq Topics
    /\ clock \in 0..MaxTime
    /\ lastBuilt \in 0..MaxTime
    /\ building \in {"clear", "fresh", "stale"}
    /\ article \in [Topics -> ArticleRows \cup {NoArticle}]
    /\ kept \in [1..MaxRows -> SUBSET ArticleTexts]
    /\ lastRow \in 0..MaxRows
    /\ lastEdit \in 0..MaxEdits
    /\ build \in [Builders -> BuildStates]
    /\ edit \in [Editors -> {NotEditing} \cup [topic : Topics, row : ArticleRows]]
    /\ excused \subseteq Topics
    /\ overlapped \in BOOLEAN

TeamWikiInit ==
    /\ changedAt = [c \in Topics |-> 0]
    /\ dated = [c \in Topics |-> 0]
    /\ thin = {}
    /\ clock = 0
    /\ lastBuilt = 0
    /\ building = "clear"
    /\ article = [c \in Topics |-> NoArticle]
    /\ kept = [n \in 1..MaxRows |-> {}]
    /\ lastRow = 0
    /\ lastEdit = 0
    /\ build = [b \in Builders |-> Idle]
    /\ edit = [e \in Editors |-> NotEditing]
    /\ excused = {}
    /\ overlapped = FALSE

UnchangedMaterial == UNCHANGED <<changedAt, dated, thin, clock>>
Become(b, state) == build' = [build EXCEPT ![b] = state]

\* Builds that have read the material and not yet ended.
AtWork == {b \in Builders : build[b].at \notin {"idle", "requested", "queued", "due"}}

-----------------------------------------------------------------------------
(* The team's material *)

\* The first instant of the second that t falls in: int(time.time()).
WholeSecond(t) == t - ((t - 1) % Second)

\* The updated_at the gate compares: whole seconds for a memory of the vector
\* store, an instant for a document's row.
Stamp(c) == IF c \in MemoryTopics THEN WholeSecond(changedAt[c]) ELSE changedAt[c]

\* A document or a memory of the topic is dated, before it is written ...
StampChange(c) ==
    /\ dated[c] = 0
    /\ \E now \in (clock + 1)..MaxTime :
          /\ clock' = now
          /\ dated' = [dated EXCEPT ![c] = now]
    /\ UNCHANGED <<changedAt, thin, lastBuilt, building, build, edit, excused, overlapped>>
    /\ UNCHANGED articleVars

\* ... and committed, which leaves the topic with enough text or with too little.
\* Excused from then on: a change beside a build, and one that the mark of the
\* last build is not older than.
CommitChange(c) ==
    /\ dated[c] # 0
    /\ changedAt' = [changedAt EXCEPT ![c] = dated[c]]
    /\ dated' = [dated EXCEPT ![c] = 0]
    /\ thin' \in {thin \cup {c}, thin \ {c}}
    /\ excused' = IF AtWork = {} /\ Stamp(c)' > lastBuilt THEN excused ELSE excused \cup {c}
    /\ UNCHANGED <<clock, lastBuilt, building, build, edit, overlapped>>
    /\ UNCHANGED articleVars

\* An item is deleted: the last of its topic, or one without which too little is left.
RemoveMaterial(c) ==
    /\ changedAt[c] # 0
    /\ \/ /\ changedAt' = [changedAt EXCEPT ![c] = 0]
          /\ thin' = thin \ {c}
       \/ /\ c \notin thin
          /\ thin' = thin \cup {c}
          /\ UNCHANGED changedAt
    /\ UNCHANGED <<dated, clock, lastBuilt, building, build, edit, excused, overlapped>>
    /\ UNCHANGED articleVars

\* Mutant of NewContent: only documents are looked at.
NewDocuments(since) == \E c \in Topics \ MemoryTopics : Stamp(c) > since

\* _team_has_new_content, _memories_changed_since: something is dated later than
\* the last build; for a team never built, anything is.
NewContent(since) == \E c \in Topics : changedAt[c] # 0 /\ Stamp(c) > since

-----------------------------------------------------------------------------
(* Builds *)

\* route_team_wiki_build: the flag is read ...
RequestBuild(b) ==
    /\ b \in Owners
    /\ build[b] = Idle
    /\ building # "fresh"
    /\ Become(b, [at |-> "requested"])
    /\ UnchangedMaterial /\ UNCHANGED articleVars
    /\ UNCHANGED <<lastBuilt, building, edit, excused, overlapped>>

\* ... and set in another transaction, and the build becomes a task.
QueueBuild(b) ==
    /\ build[b].at = "requested"
    /\ building' = "fresh"
    /\ Become(b, [at |-> "queued"])
    /\ UnchangedMaterial /\ UNCHANGED articleVars
    /\ UNCHANGED <<lastBuilt, edit, excused, overlapped>>

\* Twenty minutes later the flag is taken for a dead build's.
FlagGrowsStale ==
    /\ building = "fresh"
    /\ building' = "stale"
    /\ UnchangedMaterial /\ UNCHANGED articleVars
    /\ UNCHANGED <<lastBuilt, build, edit, excused, overlapped>>

\* run_team_wiki_worker, _teams_due_for_wiki: at dawn, twenty hours after the
\* last build, with something new.  The flag is neither read nor set.
FindDue ==
    /\ build["worker"] = Idle
    /\ NewContent(lastBuilt)
    /\ Become("worker", [at |-> "due"])
    /\ UnchangedMaterial /\ UNCHANGED articleVars
    /\ UNCHANGED <<lastBuilt, building, edit, excused, overlapped>>

\* A build ends; a requested one clears the flag, whoever has set it.
EndBuild(b) ==
    /\ Become(b, Idle)
    /\ building' = IF b \in Owners THEN "clear" ELSE building

\* build_team_wiki: team and material are read.
StartBuild(b) ==
    /\ build[b].at \in {"queued", "due"}
    /\ LET clusters == {c \in Topics : changedAt[c] # 0 /\ c \notin thin}
           gateSkip == b \notin Owners /\ lastBuilt # 0 /\ ~NewContent(lastBuilt)
           reading(state, todo, mark) ==
              [at |-> state,
               seen |-> [c \in Topics |-> IF c \in clusters THEN changedAt[c] ELSE 0],
               todo |-> todo, drafted |-> {}, mark |-> mark]
       IN  \/ /\ clusters # {}
              /\ IF gateSkip THEN Become(b, reading("sweeping", {}, FALSE))
                 ELSE Become(b, reading("drafting", clusters, TRUE))
              /\ excused' = IF AtWork = {} THEN excused ELSE Topics
              /\ overlapped' = (AtWork # {})
              /\ UNCHANGED building
           \* No topic worth an article, or the owner has registered no provider.
           \/ /\ clusters = {} \/ ~gateSkip
              /\ EndBuild(b)
              /\ UNCHANGED <<excused, overlapped>>
    /\ UnchangedMaterial /\ UNCHANGED articleVars
    /\ UNCHANGED <<lastBuilt, edit>>

\* No answer, or a text too thin to be an article: the topic counts as failed.
DraftFails(b, c) ==
    /\ build[b].at = "drafting"
    /\ c \in build[b].todo
    /\ Become(b, [build[b] EXCEPT !.todo = @ \ {c}])
    /\ excused' = excused \cup {c}
    /\ UnchangedMaterial /\ UNCHANGED articleVars
    /\ UNCHANGED <<lastBuilt, building, edit, overlapped>>

\* Draft, critique, revision and judgement end with a text; _upsert_article
\* reads the row.
DraftArticle(b, c) ==
    /\ build[b].at = "drafting"
    /\ c \in build[b].todo
    /\ Become(b, [at |-> "writing", seen |-> build[b].seen,
                  todo |-> build[b].todo \ {c}, drafted |-> build[b].drafted,
                  mark |-> build[b].mark, topic |-> c, row |-> article[c]])
    /\ UnchangedMaterial /\ UNCHANGED articleVars
    /\ UNCHANGED <<lastBuilt, building, edit, excused, overlapped>>

\* The row read is still the one of its slug.
SameRow(c, row) == article[c].id = row.id

\* The old text goes to the revisions and the new one into the row.
Replace(c, row, text, kind) ==
    /\ kept' = [kept EXCEPT ![row.id] = @ \cup {row.text}]
    /\ article' = [article EXCEPT ![c] = [id |-> row.id, text |-> text, kind |-> kind]]

\* _upsert_article: insert or replace; an identical text changes nothing.  The
\* unique slug, or the missing row, makes it fail.
StoreArticle(b) ==
    /\ build[b].at = "writing"
    /\ LET c == build[b].topic
           row == build[b].row
           text == [by |-> "llm", nr |-> build[b].seen[c]]
           drafting(done) ==
              [at |-> "drafting", seen |-> build[b].seen,
               todo |-> build[b].todo, drafted |-> build[b].drafted \cup done,
               mark |-> build[b].mark]
       IN  \/ /\ row # NoArticle /\ row.text = text
              /\ UNCHANGED <<articleVars, excused>>
              /\ Become(b, drafting({c}))
           \/ /\ row # NoArticle /\ row.text # text
              /\ SameRow(c, row)
              /\ Replace(c, row, text, "llm")
              /\ UNCHANGED <<lastRow, lastEdit, excused>>
              /\ Become(b, drafting({c}))
           \/ /\ row = NoArticle /\ article[c] = NoArticle
              /\ lastRow < MaxRows
              /\ lastRow' = lastRow + 1
              /\ article' = [article EXCEPT ![c] =
                               [id |-> lastRow + 1, text |-> text, kind |-> "llm"]]
              /\ UNCHANGED <<kept, lastEdit, excused>>
              /\ Become(b, drafting({c}))
           \/ /\ ~SameRow(c, row)
              /\ row # NoArticle => row.text # text
              /\ excused' = excused \cup {c}
              /\ UNCHANGED articleVars
              /\ Become(b, drafting({}))
    /\ UnchangedMaterial
    /\ UNCHANGED <<lastBuilt, building, edit, overlapped>>

\* What the sweep is after: articles of the model whose topic the build does not
\* know.  (Articles too thin to be one are written by no current build.)
Stale(b, c) == article[c] # NoArticle /\ article[c].kind = "llm" /\ build[b].seen[c] = 0

\* _sweep_stale_llm_articles: the rows are selected ...
SelectStale(b) ==
    /\ \/ build[b].at = "sweeping"
       \/ build[b].at = "drafting" /\ build[b].todo = {}
    /\ Become(b, [at |-> "deleting", seen |-> build[b].seen,
                  todo |-> {}, drafted |-> build[b].drafted, mark |-> build[b].mark,
                  ids |-> {article[c].id : c \in {x \in Topics : Stale(b, x)}}])
    /\ UnchangedMaterial /\ UNCHANGED articleVars
    /\ UNCHANGED <<lastBuilt, building, edit, excused, overlapped>>

\* Mutant of Swept: the selected rows are deleted, whatever has become of them.
SweptById(b, c) == article[c].id \in build[b].ids

\* Rows are deleted by the condition, which is evaluated again.
Swept(b, c) == build[b].ids # {} /\ Stale(b, c)

\* ... then the revisions of the selected rows and the articles are deleted in
\* one transaction.
DeleteStale(b) ==
    /\ build[b].at = "deleting"
    /\ kept' = [n \in 1..MaxRows |-> IF n \in build[b].ids THEN {} ELSE kept[n]]
    /\ article' = [c \in Topics |-> IF Swept(b, c) THEN NoArticle ELSE article[c]]
    /\ Become(b, [at |-> "marking", seen |-> build[b].seen,
                  todo |-> {}, drafted |-> build[b].drafted, mark |-> build[b].mark])
    /\ UnchangedMaterial
    /\ UNCHANGED <<lastRow, lastEdit, lastBuilt, building, edit, excused, overlapped>>

\* _mark_team_built, at the time of the end, failures or not; a build that the
\* gate has stopped does not get there.
FinishBuild(b) ==
    /\ build[b].at = "marking"
    /\ IF build[b].mark THEN \E now \in clock..MaxTime : clock' = now /\ lastBuilt' = now
       ELSE UNCHANGED <<clock, lastBuilt>>
    /\ EndBuild(b)
    /\ excused' = IF overlapped THEN excused
                  ELSE excused \ {c \in build[b].drafted : changedAt[c] = build[b].seen[c]}
    /\ overlapped' = (overlapped /\ AtWork # {b})
    /\ UNCHANGED <<changedAt, dated, thin, edit>>
    /\ UNCHANGED articleVars

\* Whatever of a build is not guarded raises: a query, the reading of a cluster's
\* sources, a write.  The build ends without its mark.
BuildRaises(b) ==
    /\ build[b].at \notin {"idle", "requested"}
    /\ EndBuild(b)
    /\ overlapped' = (overlapped /\ AtWork # {b})
    /\ UnchangedMaterial /\ UNCHANGED articleVars
    /\ UNCHANGED <<lastBuilt, edit, excused>>

\* The process is killed; the flag stays, requests on their way are lost.
KillBuilds ==
    /\ build # [b \in Builders |-> Idle]
    /\ build' = [b \in Builders |-> Idle]
    /\ edit' = [e \in Editors |-> NotEditing]
    /\ dated' = [c \in Topics |-> 0]
    /\ UNCHANGED <<changedAt, thin, clock>> /\ UNCHANGED articleVars
    /\ UNCHANGED <<lastBuilt, building, excused>>
    /\ overlapped' = FALSE

-----------------------------------------------------------------------------
(* People *)

\* route_update_team_wiki_article.
ReadForEdit(e, c) ==
    /\ edit[e] = NotEditing
    /\ article[c] # NoArticle
    /\ edit' = [edit EXCEPT ![e] = [topic |-> c, row |-> article[c]]]
    /\ UnchangedMaterial /\ UNCHANGED articleVars
    /\ UNCHANGED <<lastBuilt, building, build, excused, overlapped>>

StoreEdit(e) ==
    /\ edit[e] # NotEditing
    /\ LET c == edit[e].topic
           row == edit[e].row
       IN  \/ /\ SameRow(c, row)
              /\ lastEdit < MaxEdits
              /\ lastEdit' = lastEdit + 1
              /\ Replace(c, row, [by |-> "human", nr |-> lastEdit + 1], "human")
              /\ UNCHANGED lastRow
           \/ /\ ~SameRow(c, row)
              /\ UNCHANGED articleVars
    /\ edit' = [edit EXCEPT ![e] = NotEditing]
    /\ UnchangedMaterial
    /\ UNCHANGED <<lastBuilt, building, build, excused, overlapped>>

TeamWikiNext ==
    \/ \E c \in Topics : StampChange(c) \/ CommitChange(c) \/ RemoveMaterial(c)
    \/ \E b \in Builders :
          \/ RequestBuild(b) \/ QueueBuild(b) \/ StartBuild(b)
          \/ \E c \in Topics : DraftFails(b, c) \/ DraftArticle(b, c)
          \/ StoreArticle(b) \/ SelectStale(b) \/ DeleteStale(b) \/ FinishBuild(b)
          \/ BuildRaises(b)
    \/ FlagGrowsStale \/ FindDue \/ KillBuilds
    \/ \E e \in Editors : StoreEdit(e) \/ \E c \in Topics : ReadForEdit(e, c)

TeamWikiSpec == TeamWikiInit /\ [][TeamWikiNext]_wikiVars

-----------------------------------------------------------------------------

\* No change is forgotten: while a topic has newer material than its article, the
\* change-gate opens for the next build at dawn (_team_has_new_content), which
\* drafts every topic anew.  Excused are topics too thin for an article, failed
\* drafts, builds that overlap (the mark is set at the end whatever was drafted),
\* and changes that the code does lose: those that appear beside a build, or are
\* dated no later than the last one when they do.
NoChangeIsForgotten ==
    \A c \in Topics \ (excused \cup thin) :
        \/ NewContent(lastBuilt)
        \/ changedAt[c] = 0
        \/ /\ article[c] # NoArticle
           /\ article[c].kind = "llm" => article[c].text.nr = changedAt[c]

\* "Human-edited articles are never touched" by the sweep: an article that goes
\* is one of the model, also when somebody edits it between the selection of
\* the stale rows and their deletion.
HumanArticlesAreNotSwept ==
    [][\A c \in Topics :
          article[c] # NoArticle /\ article'[c] = NoArticle
          => article[c].kind = "llm"]_wikiVars

-----------------------------------------------------------------------------
(* A claim of the repository that the code does not keep *)

\* _team_has_new_content: "True if any team document - or [...] any team memory -
\* was updated after since", "Memory changes matter too: [...] that should still
\* trigger a rebuild".  The dates of memories are cut to the second, the mark of a
\* build is not: what is saved in the second of the mark does not open the gate.
MemoryChangesTrigger ==
    \A c \in MemoryTopics : changedAt[c] > lastBuilt => NewContent(lastBuilt)
=============================================================================
