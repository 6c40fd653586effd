---------------------------- MODULE MemoryStore ----------------------------
(***************************************************************************)
(* The memories: rows of one LanceDB table, shared by all projects and     *)
(* teams, and the counter each project keeps in SQLite.  They are written  *)
(* by the REST and v1 routes, by the MCP memory tool, in a personal or in  *)
(* a team's session, and by the distillation worker, all of them tasks of  *)
(* one event loop that give way to each other at every call of a store.    *)
(* There is no transaction over two calls: what a task read may be         *)
(* outdated when it writes.                                                *)
(*                                                                         *)
(* A request performs one operation; an operation of several store calls   *)
(* is several steps.                                                       *)
(***************************************************************************)
EXTENDS Integers, FiniteSets

CONSTANTS
    MemoryRequests, \* bound: one operation each
    MemoryProjects,
    MemoryTeams,
    Texts,    \* the contents; near-identical ones are the same
    Tags

ASSUME MemoryStoreAssumption ==
    /\ IsFiniteSet(MemoryRequests)
    /\ MemoryProjects # {}
    /\ MemoryProjects \cap MemoryTeams = {}
    /\ "none" \notin MemoryProjects \cup MemoryTeams \* what no row belongs to
    /\ Texts # {}
    /\ Tags # {}

\* The uuids handed out, in order.  An operation creates one memory at most.
MemoryIds == 1..Cardinality(MemoryRequests)

\* What a row belongs to.  A row of a team holds the team where a personal one
\* holds a sentinel, and the filters of the two kinds never meet.
Scopes == MemoryProjects \cup MemoryTeams

MemoryRow == [project : Scopes, text : Texts, vector : Texts, tags : Tags]
NoMemory == [project |-> "none"]

StoreSteps == {"new", "insert", "update", "write", "retag", "erase", "uncount",
          "zero", "store", "count", "stored", "refreshed", "done"}

VARIABLES
    memories,  \* the table: the row of every id, or NoMemory
    used,  \* how many ids were handed out
    count, \* Project.memory_count
    step,  \* where a request is; "stored", "refreshed" and "done" are answers
    arg    \* what it is about: project, id, text, tags, and its kind

StoreArg == [project : Scopes, id : MemoryIds \cup {0}, text : Texts, tags : Tags,
        kind : {"rest", "mcp"}]

storeVars == <<memories, used, count, step, arg>>

StoreTypeOK ==
    /\ memories \in [MemoryIds -> MemoryRow \cup {NoMemory}]
    /\ used \in 0..Cardinality(MemoryRequests)
    /\ count \in [MemoryProjects -> Nat]
    /\ step \in [MemoryRequests -> StoreSteps]
    /\ arg \in [MemoryRequests -> StoreArg]

StoreInit ==
    /\ memories = [i \in MemoryIds |-> NoMemory]
    /\ used = 0
    /\ count = [p \in MemoryProjects |-> 0]
    /\ step = [r \in MemoryRequests |-> "new"]
    /\ arg \in [MemoryRequests -> {a \in StoreArg : a.id = 0 /\ a.kind = "rest"}]

-----------------------------------------------------------------------------
(* The store's calls *)

\* The rows of a project or of a team.
Of(p) == {i \in MemoryIds : memories[i].project = p}

\* Mutant of Finds: the filter is on the id alone.
FindsAnywhere(p, i) == memories[i] # NoMemory

\* _memory_filter_sql and _team_memory_filter_sql: the row with an id, if it is
\* of the project, or of the team.
Finds(p, i) == i \in Of(p)

\* save_many: a row under a fresh id, the vector computed from its text.
SaveRow(a) ==
    /\ used' = used + 1
    /\ memories' = [memories EXCEPT ![used + 1] =
                  [project |-> a.project, text |-> a.text, vector |-> a.text,
                   tags |-> a.tags]]

Personal(r) == arg[r].project \in MemoryProjects
OfTeam(r) == arg[r].project \in MemoryTeams

GoTo(r, s) == step' = [step EXCEPT ![r] = s]

-----------------------------------------------------------------------------
(* Saving *)

\* POST /api/memories: saved as it is; the counter is not touched.
CreateMemory(r) ==
    /\ step[r] = "new" /\ Personal(r)
    /\ SaveRow(arg[r])
    /\ GoTo(r, "stored")
    /\ UNCHANGED <<count, arg>>

\* The memory tool, and POST /api/v1/memory: look for a near-identical memory,
\* to refresh it instead of duplicating it.
Remember(r) ==
    LET similar == {i \in Of(arg[r].project) : memories[i].vector = arg[r].text}
    IN  /\ step[r] = "new" /\ Personal(r)
        /\ \/ /\ similar = {}
              /\ GoTo(r, "insert")
              /\ UNCHANGED arg
           \/ \E i \in similar :
                 /\ GoTo(r, "update")
                 /\ \E g \in {arg[r].tags, memories[i].tags} :
                       arg' = [arg EXCEPT ![r].id = i, ![r].tags = g, ![r].kind = "mcp"]
        /\ UNCHANGED <<memories, used, count>>

\* None was there when it looked.
RememberNew(r) ==
    /\ step[r] = "insert"
    /\ SaveRow(arg[r])
    /\ GoTo(r, "stored")
    /\ UNCHANGED <<count, arg>>

\* _save_memories: the lookup; it may raise, or miss a copy that has aged.
DistilLookup(r) ==
    /\ step[r] = "new" /\ Personal(r)
    /\ \/ GoTo(r, "store")
       \/ /\ \E i \in Of(arg[r].project) : memories[i].vector = arg[r].text
          /\ GoTo(r, "done")
    /\ UNCHANGED <<memories, used, count, arg>>

DistilSave(r) ==
    /\ step[r] = "store"
    /\ SaveRow(arg[r])
    /\ GoTo(r, "count")
    /\ UNCHANGED <<count, arg>>

\* The transaction at the end of _process_one.
DistilCount(r) ==
    /\ step[r] = "count"
    /\ count' = [count EXCEPT ![arg[r].project] = @ + 1]
    /\ GoTo(r, "done")
    /\ UNCHANGED <<memories, used, arg>>

-----------------------------------------------------------------------------
(* Updating *)

\* PATCH with a content: its vector is computed before the store is called.
PatchMemory(r) ==
    /\ step[r] = "new" /\ Personal(r)
    /\ \E i \in 1..used : arg' = [arg EXCEPT ![r].id = i, ![r].kind = "rest"]
    /\ GoTo(r, "update")
    /\ UNCHANGED <<memories, used, count>>

\* MemoryStore.update, first call: the row is read; tags that a PATCH does not
\* set are carried over (the memory tool sets them, from its own lookup).  The
\* memory tool does not look at the answer False.
UpdateRead(r) ==
    LET a == arg[r]
        kept == IF a.kind = "rest" THEN {memories[a.id].tags} ELSE {}
    IN  /\ step[r] = "update"
        /\ IF Finds(a.project, a.id)
           THEN /\ \E g \in {a.tags} \cup kept : arg' = [arg EXCEPT ![r].tags = g]
                /\ GoTo(r, "write")
           ELSE /\ GoTo(r, IF a.kind = "mcp" THEN "refreshed" ELSE "done")
                /\ UNCHANGED arg
        /\ UNCHANGED <<memories, used, count>>

\* Mutant of UpdateWrite: the text is replaced and its vector is not.
UpdateTextOnly(r) ==
    LET a == arg[r]
    IN  /\ step[r] = "write"
        /\ memories' = IF Finds(a.project, a.id)
                   THEN [memories EXCEPT ![a.id].text = a.text, ![a.id].tags = a.tags]
                   ELSE memories
        /\ GoTo(r, IF a.kind = "mcp" THEN "refreshed" ELSE "done")
        /\ UNCHANGED <<used, count, arg>>

\* Second call, of update and of team_update: merge_insert on the id alone, which inserts what it does not match.
UpdateWrite(r) ==
    LET a == arg[r]
    IN  /\ step[r] = "write"
        /\ memories' = [memories EXCEPT ![a.id] =
                      [project |-> a.project, text |-> a.text, vector |-> a.text,
                       tags |-> a.tags]]
        /\ GoTo(r, IF a.kind = "mcp" THEN "refreshed" ELSE "done")
        /\ UNCHANGED <<used, count, arg>>

\* PATCH of the tags, or of the metadata, without a content: one UPDATE of the
\* columns (metadata is merged with what was read and is not in the model).
Retag(r) ==
    /\ step[r] = "new" /\ Personal(r)
    /\ \E i \in 1..used :
          memories' = IF Finds(arg[r].project, i)
                  THEN [memories EXCEPT ![i].tags = arg[r].tags] ELSE memories
    /\ GoTo(r, "done")
    /\ UNCHANGED <<used, count, arg>>

-----------------------------------------------------------------------------
(* Deleting *)

\* DELETE; only the REST route goes on to the counter.
DeleteMemory(r) ==
    /\ step[r] = "new" /\ Personal(r)
    /\ \E i \in 1..used, kind \in {"rest", "mcp"} :
          IF Finds(arg[r].project, i)
          THEN /\ memories' = [memories EXCEPT ![i] = NoMemory]
               /\ GoTo(r, IF kind = "rest" THEN "uncount" ELSE "done")
          ELSE GoTo(r, "done") /\ UNCHANGED memories
    /\ UNCHANGED <<used, count, arg>>

\* Mutant of Uncount: the decrement is unguarded.
UncountBlindly(r) ==
    /\ step[r] = "uncount"
    /\ count' = [count EXCEPT ![arg[r].project] = @ - 1]
    /\ GoTo(r, "done")
    /\ UNCHANGED <<memories, used, arg>>

\* UPDATE ... SET memory_count = memory_count - 1 WHERE memory_count > 0.
Uncount(r) ==
    LET p == arg[r].project
    IN  /\ step[r] = "uncount"
        /\ count' = [count EXCEPT ![p] = IF @ > 0 THEN @ - 1 ELSE @]
        /\ GoTo(r, "done")
        /\ UNCHANGED <<memories, used, arg>>

\* POST /api/memories/clear.
Clear(r) ==
    LET p == arg[r].project
    IN  /\ step[r] = "new" /\ Personal(r)
        /\ memories' = [i \in MemoryIds |-> IF i \in Of(p) THEN NoMemory ELSE memories[i]]
        /\ GoTo(r, IF Of(p) # {} THEN "zero" ELSE "done")
        /\ UNCHANGED <<used, count, arg>>

Zero(r) ==
    /\ step[r] = "zero"
    /\ count' = [count EXCEPT ![arg[r].project] = 0]
    /\ GoTo(r, "done")
    /\ UNCHANGED <<memories, used, arg>>

-----------------------------------------------------------------------------
(* The memories of a team.  The caller is a member; the author of a memory *)
(* may change it and delete it, and so may the team's owner.               *)

\* The memory tool in a team's session: no lookup, no counter.
TeamSave(r) ==
    /\ step[r] = "new" /\ OfTeam(r)
    /\ SaveRow(arg[r])
    /\ GoTo(r, "stored")
    /\ UNCHANGED <<count, arg>>

\* PATCH: team_update reads the row and refuses another's, unless the team's
\* owner asks.  With a content it goes on to the merge_insert of UpdateWrite,
\* carrying over the tags it read if none are given; without one, to TeamRetag.
TeamPatch(r) ==
    /\ step[r] = "new" /\ OfTeam(r)
    /\ \E i \in 1..used :
          \/ /\ Finds(arg[r].project, i)
             /\ \E g \in {arg[r].tags, memories[i].tags} :
                   arg' = [arg EXCEPT ![r].id = i, ![r].tags = g]
             /\ \E s \in {"write", "retag"} : GoTo(r, s)
          \/ GoTo(r, "done") /\ UNCHANGED arg
    /\ UNCHANGED <<memories, used, count>>

\* An UPDATE by the team's filter: a row that is gone stays gone.
TeamRetag(r) ==
    LET a == arg[r]
    IN  /\ step[r] = "retag"
        /\ memories' = IF Finds(a.project, a.id)
                       THEN [memories EXCEPT ![a.id].tags = a.tags] ELSE memories
        /\ GoTo(r, "done")
        /\ UNCHANGED <<used, count, arg>>

\* DELETE, and forget of the memory tool: team_delete reads and checks the same way.
TeamForget(r) ==
    /\ step[r] = "new" /\ OfTeam(r)
    /\ \E i \in 1..used :
          \/ /\ Finds(arg[r].project, i)
             /\ arg' = [arg EXCEPT ![r].id = i]
             /\ GoTo(r, "erase")
          \/ GoTo(r, "done") /\ UNCHANGED arg
    /\ UNCHANGED <<memories, used, count>>

TeamErase(r) ==
    LET a == arg[r]
    IN  /\ step[r] = "erase"
        /\ memories' = IF Finds(a.project, a.id)
                       THEN [memories EXCEPT ![a.id] = NoMemory] ELSE memories
        /\ GoTo(r, "done")
        /\ UNCHANGED <<used, count, arg>>

\* The request is cancelled, or the process dies: no step is made up for.
Abandon(r) ==
    /\ step[r] \notin {"new", "stored", "refreshed", "done"}
    /\ GoTo(r, "done")
    /\ UNCHANGED <<memories, used, count, arg>>

StoreNext ==
    \E r \in MemoryRequests :
        \/ CreateMemory(r)
        \/ Remember(r)
        \/ RememberNew(r)
        \/ DistilLookup(r)
        \/ DistilSave(r)
        \/ DistilCount(r)
        \/ PatchMemory(r)
        \/ UpdateRead(r)
        \/ UpdateWrite(r)
        \/ Retag(r)
        \/ DeleteMemory(r)
        \/ Uncount(r)
        \/ Clear(r)
        \/ Zero(r)
        \/ TeamSave(r)
        \/ TeamPatch(r)
        \/ TeamRetag(r)
        \/ TeamForget(r)
        \/ TeamErase(r)
        \/ Abandon(r)

StoreSpec == StoreInit /\ [][StoreNext]_storeVars

-----------------------------------------------------------------------------
(* Properties *)

\* The vector of a stored memory is that of the text stored with it, however
\* the updates interleave: a search never matches a text that is gone.
VectorMatchesText ==
    \A i \in MemoryIds : memories[i] # NoMemory => memories[i].vector = memories[i].text

\* "Project isolation": no request changes a row of another project or team, although
\* the second call of an update addresses the row by its id alone, long after
\* the first one checked the project.
ForeignRowsUntouched ==
    [][\A r \in MemoryRequests, i \in MemoryIds :
         (step'[r] # step[r] /\ memories[i] # NoMemory /\ memories[i].project # arg[r].project)
         => memories'[i] = memories[i]]_storeVars
=============================================================================
