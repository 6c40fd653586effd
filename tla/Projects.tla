------------------------------- MODULE Projects -------------------------------
(***************************************************************************)
(* Which project a folder belongs to.  A project is found by its folder    *)
(* (cwd), or, if it dates from before folders were recorded, by its slug;  *)
(* otherwise it is created.  Slugs are unique per user, folders are not.   *)
(* `piloci backfill-cwd` stamps the old projects with the folder of most   *)
(* of their sessions and moves the others out.                             *)
(*                                                                         *)
(* One user; every query and every transaction is a step.  Left    *)
(* out: uploads with a token of one project, which file any folder under   *)
(* that project.                                                           *)
(***************************************************************************)
EXTENDS Integers, FiniteSets

CONSTANTS
    Folders,     \* directories sessions run in, after project_root has collapsed them
    Uploads,     \* tasks: uploads that resolve their folder
    Inits,       \* tasks: calls of the init tool
    MaxProjects, \* bound: projects ever made
    MaxFiled     \* bound: sessions ever stored

ASSUME ProjectsAssumption ==
    /\ MaxProjects \in Nat \ {0}
    /\ MaxFiled \in Nat
    /\ Folders \cap {"plain", "null", "none"} = {}

\* The interesting folders have one name: all of them slugify the same, to
\* "plain"; the other slug of a folder ends in a hash of its path.
Slugs == {"plain"} \cup Folders

Projects == 1..MaxProjects
Sessions == 1..MaxFiled

VARIABLES
    project,     \* Project rows: slug and cwd
    lastProject,
    unfoldered,  \* projects that were made without a folder
    session,     \* RawSession rows: the folder the transcript names, the project
    lastFiled,
    task,        \* what each upload or init is doing
    backfill     \* what the backfill is doing

projectVars == <<project, lastProject, unfoldered, session, lastFiled, task, backfill>>

NoProject == [slug |-> "none"]
ProjectRows == [slug : Slugs, cwd : Folders \cup {"null"}]
NoSession == [folder |-> "none"]
Idle == [at |-> "idle"]

Tasks == Uploads \cup Inits

TaskStates ==
    {Idle} \cup [at : {"unmatched", "inserting", "conflict", "hashing", "retrying"}, folder : Folders]
    \cup [at : {"claiming", "found"}, folder : Folders, project : Projects]

BackfillStates ==
    {Idle} \cup [at : {"listed"}, todo : SUBSET Projects]
    \cup [at : {"grouped", "splitting"}, todo : SUBSET Projects, project : Projects,
          main : Folders, groups : [Folders -> SUBSET Sessions]]
    \cup [at : {"unowned"}, todo : SUBSET Projects, project : Projects, main : Folders,
          groups : [Folders -> SUBSET Sessions], folder : Folders]
    \cup [at : {"missing"}, todo : SUBSET Projects, project : Projects, main : Folders,
          groups : [Folders -> SUBSET Sessions], folder : Folders, slug : Slugs]
    \cup [at : {"moving"}, todo : SUBSET Projects, project : Projects, main : Folders,
          groups : [Folders -> SUBSET Sessions], folder : Folders, target : Projects]

ProjectsTypeOK ==
    /\ project \in [Projects -> ProjectRows \cup {NoProject}]
    /\ lastProject \in 0..MaxProjects
    /\ unfoldered \subseteq Projects
    /\ session \in [Sessions -> [folder : Folders, project : Projects] \cup {NoSession}]
    /\ lastFiled \in 0..MaxFiled
    /\ task \in [Tasks -> TaskStates]
    /\ backfill \in BackfillStates

\* A fresh database, or one with a project in which the sessions of any two
\* folders of one name have met.
ProjectsInit ==
    /\ \/ /\ project = [n \in Projects |-> NoProject]
          /\ lastProject = 0
          /\ unfoldered = {}
          /\ session = [s \in Sessions |-> NoSession]
          /\ lastFiled = 0
       \/ /\ MaxFiled >= 2
          /\ project = [n \in Projects |->
                          IF n = 1 THEN [slug |-> "plain", cwd |-> "null"] ELSE NoProject]
          /\ lastProject = 1
          /\ unfoldered = {1}
          /\ \E f, g \in Folders :
                session = [s \in Sessions |->
                             CASE s = 1 -> [folder |-> f, project |-> 1]
                               [] s = 2 -> [folder |-> g, project |-> 1]
                               [] OTHER -> NoSession]
          /\ lastFiled = 2
    /\ task = [t \in Tasks |-> Idle]
    /\ backfill = Idle

There(n) == project[n] # NoProject
Taken(slug) == \E n \in Projects : project[n].slug = slug
OfFolder(f) == {n \in Projects : There(n) /\ project[n].cwd = f}

SameFiled == UNCHANGED <<session, lastFiled>>
SameProjects == UNCHANGED <<project, lastProject, unfoldered>>
TaskGoes(t, state) == task' = [task EXCEPT ![t] = state]

Insert(slug, cwd) ==
    /\ lastProject < MaxProjects
    /\ lastProject' = lastProject + 1
    /\ project' = [project EXCEPT ![lastProject + 1] = [slug |-> slug, cwd |-> cwd]]
    /\ unfoldered' = IF cwd = "null" THEN unfoldered \cup {lastProject + 1} ELSE unfoldered

Stamp(n, f) ==
    /\ project' = [project EXCEPT ![n].cwd = f]
    /\ UNCHANGED <<lastProject, unfoldered>>

-----------------------------------------------------------------------------
(* Resolving a folder *)

\* Mutant of LegacyMatches: whatever project has the slug.
SlugMatches == {n \in Projects : There(n) /\ project[n].slug = "plain"}

LegacyMatches ==
    {n \in Projects : There(n) /\ project[n].slug = "plain" /\ project[n].cwd = "null"}

\* _resolve_or_create_project: an exact match wins, any of them if there are several.
Resolve(t, f) ==
    /\ t \in Uploads
    /\ task[t] = Idle
    /\ \/ \E n \in OfFolder(f) : TaskGoes(t, [at |-> "found", folder |-> f, project |-> n])
       \/ OfFolder(f) = {} /\ TaskGoes(t, [at |-> "unmatched", folder |-> f])
    /\ SameProjects /\ SameFiled
    /\ UNCHANGED backfill

\* Its second query, for a project that has no folder yet.
LookForLegacy(t) ==
    /\ task[t].at = "unmatched"
    /\ LET f == task[t].folder
       IN  \/ \E n \in LegacyMatches :
                TaskGoes(t, [at |-> IF project[n].cwd = "null" THEN "claiming" ELSE "found",
                             folder |-> f, project |-> n])
           \/ LegacyMatches = {} /\ TaskGoes(t, [at |-> "inserting", folder |-> f])
    /\ SameProjects /\ SameFiled
    /\ UNCHANGED backfill

\* handle_init finds nothing in its list, which may be five minutes old, and
\* calls create_project_fn.
InitMisses(t, f) ==
    /\ t \in Inits
    /\ task[t] = Idle
    /\ TaskGoes(t, [at |-> "inserting", folder |-> f])
    /\ SameProjects /\ SameFiled
    /\ UNCHANGED backfill

\* The folder is stamped on the row read before, by its id: it may have got
\* another folder meanwhile, or be gone.
Claim(t) ==
    /\ task[t].at = "claiming"
    /\ LET n == task[t].project
       IN  IF There(n)
           THEN /\ Stamp(n, task[t].folder)
                /\ TaskGoes(t, IF t \in Uploads THEN [task[t] EXCEPT !.at = "found"] ELSE Idle)
           ELSE SameProjects /\ TaskGoes(t, Idle)
    /\ SameFiled
    /\ UNCHANGED backfill

\* The project is created; its slug may be taken.
CreateProject(t) ==
    /\ task[t].at = "inserting"
    /\ LET f == task[t].folder
       IN  IF Taken("plain")
           THEN /\ TaskGoes(t, [at |-> IF t \in Uploads THEN "hashing" ELSE "conflict", folder |-> f])
                /\ SameProjects
           ELSE /\ Insert("plain", f)
                /\ TaskGoes(t, IF t \in Inits THEN Idle
                           ELSE [at |-> "found", folder |-> f, project |-> lastProject + 1])
    /\ SameFiled
    /\ UNCHANGED backfill

\* create_project_fn looks at the project in its way: the same folder's is
\* returned, one without a folder is claimed, and one of another folder left.
LookAtConflict(t) ==
    /\ task[t].at = "conflict"
    /\ LET f == task[t].folder
           rows == {n \in Projects : project[n].slug = "plain"}
       IN  \/ rows = {} /\ TaskGoes(t, [at |-> "retrying", folder |-> f])
           \/ \E n \in rows :
                 TaskGoes(t, CASE project[n].cwd = f -> Idle
                           [] project[n].cwd = "null" ->
                                [at |-> "claiming", folder |-> f, project |-> n]
                           [] OTHER -> [at |-> "hashing", folder |-> f])
    /\ SameProjects /\ SameFiled
    /\ UNCHANGED backfill

\* The second attempt, with the hash; a second collision is an error of an upload.
CreateHashed(t) ==
    /\ task[t].at = "hashing"
    /\ LET f == task[t].folder
       IN  IF Taken(f)
           THEN /\ TaskGoes(t, IF t \in Inits THEN [at |-> "retrying", folder |-> f] ELSE Idle)
                /\ SameProjects
           ELSE /\ Insert(f, f)
                /\ TaskGoes(t, IF t \in Inits THEN Idle
                           ELSE [at |-> "found", folder |-> f, project |-> lastProject + 1])
    /\ SameFiled
    /\ UNCHANGED backfill

\* create_project_fn ends with the first insert again, to have it raise: if the
\* slug is free by now the project is made, and the tool reports a failure.
RetryInsert(t) ==
    /\ task[t].at = "retrying"
    /\ IF Taken("plain") THEN SameProjects ELSE Insert("plain", task[t].folder)
    /\ TaskGoes(t, Idle)
    /\ SameFiled
    /\ UNCHANGED backfill

\* The session of an upload that has resolved its folder is stored; the foreign
\* key refuses a project that is gone.
FileSession(t) ==
    /\ task[t].at = "found"
    /\ IF There(task[t].project)
       THEN /\ lastFiled < MaxFiled
            /\ lastFiled' = lastFiled + 1
            /\ session' = [session EXCEPT ![lastFiled + 1] =
                             [folder |-> task[t].folder, project |-> task[t].project]]
       ELSE SameFiled
    /\ TaskGoes(t, Idle)
    /\ SameProjects
    /\ UNCHANGED backfill

\* route_create_project; the MCP tool of old did the same without a folder.
CreateByHand(cwd) ==
    /\ ~Taken("plain")
    /\ Insert("plain", cwd)
    /\ SameFiled
    /\ UNCHANGED <<task, backfill>>

\* route_delete_project: its sessions go with it.
DeleteByHand(n) ==
    /\ There(n)
    /\ project' = [project EXCEPT ![n] = NoProject]
    /\ session' = [s \in Sessions |->
                     IF session[s] # NoSession /\ session[s].project = n THEN NoSession
                     ELSE session[s]]
    /\ UNCHANGED <<lastProject, unfoldered, lastFiled, task, backfill>>

-----------------------------------------------------------------------------
(* backfill_cwd *)

Filed(n, f) ==
    {s \in Sessions : session[s] # NoSession /\ session[s].project = n /\ session[s].folder = f}

ListProjects ==
    /\ backfill = Idle
    /\ \E n \in Projects : There(n) /\ project[n].cwd = "null"
    /\ backfill' = [at |-> "listed",
                    todo |-> {n \in Projects : There(n) /\ project[n].cwd = "null"}]
    /\ SameProjects /\ SameFiled
    /\ UNCHANGED task

\* The sessions of the next project by folder; the folder of most of them is its
\* main one.  A project without sessions is left as it is.
GroupSessions(n) ==
    /\ backfill.at = "listed"
    /\ n \in backfill.todo
    /\ LET groups == [f \in Folders |-> Filed(n, f)]
           rest == backfill.todo \ {n}
       IN  \/ /\ \A f \in Folders : groups[f] = {}
              /\ backfill' = IF rest = {} THEN Idle ELSE [at |-> "listed", todo |-> rest]
           \/ \E main \in Folders :
                 /\ groups[main] # {}
                 /\ \A f \in Folders : Cardinality(groups[f]) <= Cardinality(groups[main])
                 /\ backfill' = [at |-> "grouped", todo |-> rest, project |-> n,
                                 main |-> main, groups |-> groups]
    /\ SameProjects /\ SameFiled
    /\ UNCHANGED task

\* The project gets its main folder, in a transaction of its own; if the row is
\* gone the backfill ends with an exception.
StampMain ==
    /\ backfill.at = "grouped"
    /\ IF There(backfill.project)
       THEN /\ Stamp(backfill.project, backfill.main)
            /\ backfill' = [backfill EXCEPT !.at = "splitting",
                                            !.groups[backfill.main] = {}]
       ELSE SameProjects /\ backfill' = Idle
    /\ SameFiled
    /\ UNCHANGED task

\* Where the sessions of another folder go: to the project of that folder (two
\* of them are an exception), or to a new one.
LookForTarget(f) ==
    /\ backfill.at = "splitting"
    /\ backfill.groups[f] # {}
    /\ LET base == [todo |-> backfill.todo, project |-> backfill.project,
                    main |-> backfill.main, groups |-> backfill.groups, folder |-> f]
       IN  backfill' =
              CASE Cardinality(OfFolder(f)) > 1 -> Idle
                [] Cardinality(OfFolder(f)) = 1 ->
                     [at |-> "moving", todo |-> base.todo, project |-> base.project,
                      main |-> base.main, groups |-> base.groups, folder |-> f,
                      target |-> CHOOSE n \in OfFolder(f) : TRUE]
                [] OTHER ->
                     [at |-> "unowned", todo |-> base.todo, project |-> base.project,
                      main |-> base.main, groups |-> base.groups, folder |-> f]
    /\ SameProjects /\ SameFiled
    /\ UNCHANGED task

\* A slug that is free now.
ChooseSlug ==
    /\ backfill.at = "unowned"
    /\ backfill' = [at |-> "missing", todo |-> backfill.todo, project |-> backfill.project,
                    main |-> backfill.main, groups |-> backfill.groups,
                    folder |-> backfill.folder,
                    slug |-> IF Taken("plain") THEN backfill.folder ELSE "plain"]
    /\ SameProjects /\ SameFiled
    /\ UNCHANGED task

MakeTarget ==
    /\ backfill.at = "missing"
    /\ IF Taken(backfill.slug) THEN SameProjects /\ backfill' = Idle
       ELSE /\ Insert(backfill.slug, backfill.folder)
            /\ backfill' = [at |-> "moving", todo |-> backfill.todo,
                            project |-> backfill.project, main |-> backfill.main,
                            groups |-> backfill.groups, folder |-> backfill.folder,
                            target |-> lastProject + 1]
    /\ SameFiled
    /\ UNCHANGED task

\* The sessions named when they were grouped are moved, those still there.
MoveSessions ==
    /\ backfill.at = "moving"
    /\ LET f == backfill.folder
           moved == {s \in backfill.groups[f] : session[s] # NoSession}
       IN  IF There(backfill.target) \/ moved = {}
           THEN /\ session' = [s \in Sessions |->
                                 IF s \in moved THEN [session[s] EXCEPT !.project = backfill.target]
                                 ELSE session[s]]
                /\ backfill' = [at |-> "splitting", todo |-> backfill.todo,
                                project |-> backfill.project, main |-> backfill.main,
                                groups |-> [backfill.groups EXCEPT ![f] = {}]]
           ELSE UNCHANGED session /\ backfill' = Idle
    /\ SameProjects
    /\ UNCHANGED <<lastFiled, task>>

NextProject ==
    /\ backfill.at = "splitting"
    /\ \A f \in Folders : backfill.groups[f] = {}
    /\ backfill' = IF backfill.todo = {} THEN Idle ELSE [at |-> "listed", todo |-> backfill.todo]
    /\ SameProjects /\ SameFiled
    /\ UNCHANGED task

\* The command is interrupted between two transactions.
KillBackfill ==
    /\ backfill # Idle
    /\ backfill' = Idle
    /\ SameProjects /\ SameFiled
    /\ UNCHANGED task

ProjectsNext ==
    \/ \E t \in Tasks :
          \/ \E f \in Folders : Resolve(t, f) \/ InitMisses(t, f)
          \/ LookForLegacy(t) \/ Claim(t) \/ CreateProject(t) \/ LookAtConflict(t)
          \/ CreateHashed(t) \/ RetryInsert(t) \/ FileSession(t)
    \/ \E cwd \in Folders \cup {"null"} : CreateByHand(cwd)
    \/ \E n \in Projects : DeleteByHand(n) \/ GroupSessions(n)
    \/ \E f \in Folders : LookForTarget(f)
    \/ ListProjects \/ StampMain \/ ChooseSlug \/ MakeTarget \/ MoveSessions \/ NextProject \/ KillBackfill

ProjectsSpec == ProjectsInit /\ [][ProjectsNext]_projectVars

-----------------------------------------------------------------------------

\* Two folders of one name do not merge: in a project that was made for a folder
\* there are only sessions of that folder, whatever uploads that resolve their
\* folder, inits, a backfill and deletions do at the same time.  (A project made
\* without a folder may be claimed for two of them at once.)
FoldersStayApart ==
    \A s \in Sessions :
        session[s] # NoSession /\ session[s].project \notin unfoldered
        => project[session[s].project].cwd = session[s].folder
=============================================================================
