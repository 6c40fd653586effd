------------------------------ MODULE TeamDocs ------------------------------
(***************************************************************************)
(* The documents of one team: rows in SQLite, the bytes of binary files in *)
(* a content-addressed blob store, the searchable chunks in LanceDB and    *)
(* the LOCI.md map of the team, which background tasks bring up to date    *)
(* after each change.                                                      *)
(*                                                                         *)
(* A request reads its document in one database call and writes it in a    *)
(* later one.  The write lists the columns that differ from what was read  *)
(* and is keyed on the id alone.  When it is committed the request starts  *)
(* its two tasks and forgets them.                                         *)
(***************************************************************************)
EXTENDS Integers, FiniteSets

CONSTANTS
    MaxRequests, \* bound: requests that change documents
    Paths,       \* LOCI.md is not among them
    Texts,       \* a content stands for its hash
    Binaries,
    ChunkCount,  \* how many chunks a content has in the index
    None

ASSUME TeamDocsAssumption ==
    /\ MaxRequests \in Nat
    /\ Texts \cap Binaries = {}
    /\ ChunkCount \in [Texts \cup Binaries -> Nat]
    /\ \A b \in Binaries : ChunkCount[b] = 1
    /\ None \notin Texts \cup Binaries \cup Paths

Requests == 1..MaxRequests
Bodies == Texts \cup Binaries

\* A request creates one document at most: its id is the request's number.
Ids == Requests

\* body: content_hash; blob: storage_key; live: not is_deleted.
Doc == [path : Paths, body : Bodies, blob : Binaries \cup {None}, live : BOOLEAN]
NoDoc == [live |-> FALSE]

Slots == 1..(CHOOSE n \in {ChunkCount[b] : b \in Bodies} :
                \A b \in Bodies : ChunkCount[b] <= n)

Request == [op : {"upload", "save", "edit", "delete"}, id : Ids,
            path : Paths \cup {None}, body : Bodies \cup {None}, seen : Doc \cup {NoDoc}]
NoRequest == [op |-> "none", id |-> 0]

VARIABLES
    docs,     \* team_documents
    blobs,    \* the files of the blob store
    chunks,   \* the index: what is in each chunk of a document
    loci,     \* the paths LOCI.md lists, or None if there is no LOCI.md
    step,     \* "new", "write", "finish" or "done"
    req,      \* what the request is about and what it has read
    task,     \* its index task: "clear", "insert", "remove" or "none"
    map,      \* its map task: "read", "write" or "none"
    snapshot, \* what the map task has read: live paths and the present map
    disturbed \* history: the documents (0 is the map) whose changes overlapped,
              \* whose tasks failed, or that a save without tasks changed

requestVars == <<step, req>>
taskVars == <<task, map, snapshot>>
vars == <<docs, blobs, chunks, loci, requestVars, taskVars, disturbed>>

NoChunks == [i \in Slots |-> None]
NoSnapshot == [paths |-> {}, old |-> None]

TypeOK ==
    /\ docs \in [Ids -> Doc \cup {NoDoc}]
    /\ blobs \subseteq Binaries
    /\ chunks \in [Ids -> [Slots -> Bodies \cup {None}]]
    /\ loci \in (SUBSET Paths) \cup {None}
    /\ step \in [Requests -> {"new", "write", "finish", "done"}]
    /\ req \in [Requests -> Request \cup {NoRequest}]
    /\ task \in [Requests -> {"none", "clear", "insert", "remove"}]
    /\ map \in [Requests -> {"none", "read", "write"}]
    /\ \A r \in Requests : map[r] = "write" => snapshot[r].paths \subseteq Paths
    /\ disturbed \subseteq Ids \cup {0}

Init ==
    /\ docs = [d \in Ids |-> NoDoc]
    /\ blobs = {}
    /\ chunks = [d \in Ids |-> NoChunks]
    /\ loci = None
    /\ step = [r \in Requests |-> "new"]
    /\ req = [r \in Requests |-> NoRequest]
    /\ task = [r \in Requests |-> "none"]
    /\ map = [r \in Requests |-> "none"]
    /\ snapshot = [r \in Requests |-> NoSnapshot]
    /\ disturbed = {}

-----------------------------------------------------------------------------
(* Helpers *)

Live == {d \in Ids : docs[d].live}
LivePaths == {docs[d].path : d \in Live}

\* Which request comes first does not matter: they come in order.
CanStart(r) == step[r] = "new" /\ \A q \in 1..(r - 1) : step[q] # "new"

InFlight(r) == step[r] \in {"write", "finish"} \/ task[r] # "none" \/ map[r] # "none"

\* An index task for d is running or about to be started.
IndexPending(q, d) == req[q].id = d /\ (step[q] = "finish" \/ task[q] # "none")

\* History, when a document is changed: a map is about to be written without
\* the change ...
MapRace == IF \E q \in Requests : map[q] = "write" THEN {0} ELSE {}

\* ... and when r changes d: d is not what r has read, or an older index task
\* may come after that of r.
Races(r, d) ==
    MapRace \cup (IF docs[d] # req[r].seen \/ \E q \in Requests \ {r} : IndexPending(q, d)
                  THEN {d} ELSE {})

\* What an UPDATE makes of a column: it is not listed if the value assigned is
\* the one that was read.
Assigned(current, read, new) == IF new = read THEN current ELSE new

\* Mutant of BlobOf: text gets a storage_key as well.
BlobOfAny(b) == b

\* storage_key: the hash of the bytes, for what is not UTF-8.
BlobOf(b) == IF b \in Binaries THEN b ELSE None

-----------------------------------------------------------------------------
(* The routes and the tool *)

\* Mutant of InsertDoc: the path index covers no row.
InsertUnchecked(r, p, b) ==
    /\ docs' = [docs EXCEPT ![r] = [path |-> p, body |-> b, blob |-> BlobOf(b), live |-> TRUE]]
    /\ step' = [step EXCEPT ![r] = "finish"]
    /\ disturbed' = disturbed \cup MapRace

\* INSERT and commit: the unique index on the paths of live documents lets it
\* pass, or the request fails.
InsertDoc(r, p, b) ==
    IF p \in LivePaths
    THEN step' = [step EXCEPT ![r] = "done"] /\ UNCHANGED <<docs, disturbed>>
    ELSE /\ docs' = [docs EXCEPT ![r] =
                       [path |-> p, body |-> b, blob |-> BlobOf(b), live |-> TRUE]]
         /\ step' = [step EXCEPT ![r] = "finish"]
         /\ disturbed' = disturbed \cup MapRace

\* POST documents.
CreateDocument(r) ==
    /\ CanStart(r)
    /\ \E p \in Paths, b \in Texts :
          /\ req' = [req EXCEPT ![r] = [op |-> "upload", id |-> r, path |-> p, body |-> b,
                                        seen |-> NoDoc]]
          /\ InsertDoc(r, p, b)
    /\ UNCHANGED <<blobs, chunks, loci, taskVars>>

\* r looks for a live document at p, which is to get content b.
ReadByPath(r, op, p, b) ==
    \E d \in Ids, seen \in {docs[i] : i \in Live} \cup {NoDoc} :
        /\ \/ d \in Live /\ docs[d].path = p /\ seen = docs[d]
           \/ d = r /\ p \notin LivePaths /\ seen = NoDoc
        /\ req' = [req EXCEPT ![r] = [op |-> op, id |-> d, path |-> p, body |-> b,
                                      seen |-> seen]]
        /\ step' = [step EXCEPT ![r] = IF op = "save" /\ seen.live /\ seen.body = b
                                       THEN "done" ELSE "write"]

\* POST files: the bytes are saved before the row is written.
UploadRead(r) ==
    /\ CanStart(r)
    /\ \E p \in Paths, b \in Bodies :
          /\ ReadByPath(r, "upload", p, b)
          /\ blobs' = blobs \cup ({b} \cap Binaries)
    /\ UNCHANGED <<docs, chunks, loci, taskVars, disturbed>>

\* The doc tool of the MCP server; it does nothing if the content is the same.
SaveRead(r) ==
    /\ CanStart(r)
    /\ \E p \in Paths, b \in Texts : ReadByPath(r, "save", p, b)
    /\ UNCHANGED <<docs, blobs, chunks, loci, taskVars, disturbed>>

\* PUT documents/{id}: a parent_hash that is not the document's is a conflict.
\* It is compared with the row that was read, and not again when the row is
\* written: two edits with the same base are both accepted.
EditRead(r) ==
    /\ CanStart(r)
    /\ \E d \in Live, b \in Texts, conflict \in BOOLEAN :
          /\ req' = [req EXCEPT ![r] = [op |-> "edit", id |-> d, path |-> None, body |-> b,
                                        seen |-> docs[d]]]
          /\ step' = [step EXCEPT ![r] = IF conflict THEN "done" ELSE "write"]
    /\ UNCHANGED <<docs, blobs, chunks, loci, taskVars, disturbed>>

\* DELETE documents/{id}.
DeleteRead(r) ==
    /\ CanStart(r)
    /\ \E d \in Live :
          req' = [req EXCEPT ![r] = [op |-> "delete", id |-> d, path |-> None, body |-> None,
                                    seen |-> docs[d]]]
    /\ step' = [step EXCEPT ![r] = "write"]
    /\ UNCHANGED <<docs, blobs, chunks, loci, taskVars, disturbed>>

\* UPDATE of the row that was found: an upload sets storage_key as well.
Overwrite(r) ==
    LET a == req[r]
    IN  docs' = [docs EXCEPT
                   ![a.id].body = Assigned(@, a.seen.body, a.body),
                   ![a.id].blob = IF a.op = "upload"
                                  THEN Assigned(@, a.seen.blob, BlobOf(a.body)) ELSE @]

Write(r) ==
    LET a == req[r]
    IN  /\ step[r] = "write"
        /\ a.op \in {"upload", "save", "edit"}
        /\ IF a.seen.live
           THEN /\ Overwrite(r)
                /\ step' = [step EXCEPT ![r] = "finish"]
                /\ disturbed' = disturbed \cup Races(r, a.id)
           ELSE InsertDoc(r, a.path, a.body)
        /\ UNCHANGED <<blobs, chunks, loci, req, taskVars>>

DeleteWrite(r) ==
    /\ step[r] = "write"
    /\ req[r].op = "delete"
    /\ docs' = [docs EXCEPT ![req[r].id].live = FALSE]
    /\ step' = [step EXCEPT ![r] = "finish"]
    /\ disturbed' = disturbed \cup Races(r, req[r].id)
    /\ UNCHANGED <<blobs, chunks, loci, req, taskVars>>

\* Mutant of Finish: a deletion does not have the map redrawn.
FinishQuietly(r) ==
    LET op == req[r].op
    IN  /\ step[r] = "finish"
        /\ step' = [step EXCEPT ![r] = "done"]
        /\ blobs' = IF op = "delete" THEN blobs \ {req[r].seen.blob} ELSE blobs
        /\ task' = [task EXCEPT ![r] = CASE op = "save" -> "none"
                                         [] op = "delete" -> "remove"
                                         [] OTHER -> "clear"]
        /\ map' = [map EXCEPT ![r] = IF op \in {"save", "delete"} THEN "none" ELSE "read"]
        /\ disturbed' = disturbed \cup (IF op = "save" THEN {req[r].id, 0} ELSE {})
        /\ UNCHANGED <<docs, chunks, loci, req, snapshot>>

\* After the commit, in one go: a deletion drops the bytes; a route starts an
\* index task and a map task, the tool none.
Finish(r) ==
    LET op == req[r].op
    IN  /\ step[r] = "finish"
        /\ step' = [step EXCEPT ![r] = "done"]
        /\ blobs' = IF op = "delete" THEN blobs \ {req[r].seen.blob} ELSE blobs
        /\ task' = [task EXCEPT ![r] = CASE op = "save" -> "none"
                                         [] op = "delete" -> "remove"
                                         [] OTHER -> "clear"]
        /\ map' = [map EXCEPT ![r] = IF op = "save" THEN "none" ELSE "read"]
        /\ disturbed' = disturbed \cup (IF op = "save" THEN {req[r].id, 0} ELSE {})
        /\ UNCHANGED <<docs, chunks, loci, req, snapshot>>

-----------------------------------------------------------------------------
(* The index task *)

\* Mutant of TaskClear: only an empty content removes old chunks.
ClearOnlyIfEmpty(r) ==
    /\ task[r] \in {"clear", "remove"}
    /\ IF task[r] = "clear" /\ ChunkCount[req[r].body] > 0
       THEN task' = [task EXCEPT ![r] = "insert"] /\ UNCHANGED chunks
       ELSE /\ chunks' = [chunks EXCEPT ![req[r].id] = NoChunks]
            /\ task' = [task EXCEPT ![r] = "none"]
    /\ UNCHANGED <<docs, blobs, loci, requestVars, map, snapshot, disturbed>>

\* The chunks of the document are deleted: all there is to do for a document
\* that is deleted or empty.
TaskClear(r) ==
    /\ task[r] \in {"clear", "remove"}
    /\ chunks' = [chunks EXCEPT ![req[r].id] = NoChunks]
    /\ task' = [task EXCEPT ![r] = IF task[r] = "clear" /\ ChunkCount[req[r].body] > 0
                                   THEN "insert" ELSE "none"]
    /\ UNCHANGED <<docs, blobs, loci, requestVars, map, snapshot, disturbed>>

\* The new ones are merged in, each at its number.
TaskInsert(r) ==
    /\ task[r] = "insert"
    /\ chunks' = [chunks EXCEPT ![req[r].id] =
                     [i \in Slots |-> IF i <= ChunkCount[req[r].body] THEN req[r].body ELSE @[i]]]
    /\ task' = [task EXCEPT ![r] = "none"]
    /\ UNCHANGED <<docs, blobs, loci, requestVars, map, snapshot, disturbed>>

\* An exception is logged and the task is over.
TaskFails(r) ==
    /\ task[r] # "none"
    /\ task' = [task EXCEPT ![r] = "none"]
    /\ disturbed' = disturbed \cup {req[r].id}
    /\ UNCHANGED <<docs, blobs, chunks, loci, requestVars, map, snapshot>>

-----------------------------------------------------------------------------
(* The map task *)

MapRead(r) ==
    /\ map[r] = "read"
    /\ snapshot' = [snapshot EXCEPT ![r] = [paths |-> LivePaths, old |-> loci]]
    /\ map' = [map EXCEPT ![r] = "write"]
    /\ UNCHANGED <<docs, blobs, chunks, loci, requestVars, task, disturbed>>

\* Insert LOCI.md (the unique index refuses a second one), update it, or leave
\* it alone if it lists the same.
MapWrite(r) ==
    LET new == snapshot[r].paths
        old == snapshot[r].old
    IN  /\ map[r] = "write"
        /\ loci' = IF new = old \/ (old = None /\ loci # None) THEN loci ELSE new
        /\ map' = [map EXCEPT ![r] = "none"]
        /\ snapshot' = [snapshot EXCEPT ![r] = NoSnapshot]
        /\ UNCHANGED <<docs, blobs, chunks, requestVars, task, disturbed>>

MapFails(r) ==
    /\ map[r] # "none"
    /\ map' = [map EXCEPT ![r] = "none"]
    /\ snapshot' = [snapshot EXCEPT ![r] = NoSnapshot]
    /\ disturbed' = disturbed \cup {0}
    /\ UNCHANGED <<docs, blobs, chunks, loci, requestVars, task>>

\* The process stops: requests and tasks are gone.
Crash ==
    LET lost == {r \in Requests : InFlight(r)}
    IN  /\ lost # {}
        /\ step' = [r \in Requests |-> IF r \in lost THEN "done" ELSE step[r]]
        /\ task' = [r \in Requests |-> "none"]
        /\ map' = [r \in Requests |-> "none"]
        /\ snapshot' = [r \in Requests |-> NoSnapshot]
        /\ disturbed' = disturbed \cup {0} \cup {req[r].id : r \in lost}
        /\ UNCHANGED <<docs, blobs, chunks, loci, req>>

Next ==
    \/ \E r \in Requests :
          \/ CreateDocument(r) \/ UploadRead(r) \/ SaveRead(r) \/ EditRead(r) \/ DeleteRead(r)
          \/ Write(r) \/ DeleteWrite(r) \/ Finish(r)
          \/ TaskClear(r) \/ TaskInsert(r) \/ TaskFails(r)
          \/ MapRead(r) \/ MapWrite(r) \/ MapFails(r)
    \/ Crash

Spec == Init /\ [][Next]_vars

-----------------------------------------------------------------------------
(* Properties *)

\* Live documents have different paths, however creates, uploads and saves of
\* one path interleave.
OnePathOneDocument ==
    \A c, d \in Live : c # d => docs[c].path # docs[d].path

\* Once the index tasks of a document are through, and if its changes did not
\* overlap, the index has exactly the chunks of its present content: none of a
\* longer revision, none of a deleted document.
IndexIsFresh ==
    \A d \in Ids \ disturbed :
        (~\E q \in Requests : IndexPending(q, d)) =>
            chunks[d] = [i \in Slots |-> IF docs[d].live /\ i <= ChunkCount[docs[d].body]
                                         THEN docs[d].body ELSE None]

\* Once the map tasks are through LOCI.md lists the live documents, unless a
\* change fell between the read and the write of a map task.
MapIsFresh ==
    0 \in disturbed
    \/ (\E q \in Requests : step[q] = "finish" \/ map[q] # "none")
    \/ (\A d \in Ids : docs[d] = NoDoc)
    \/ loci = LivePaths

\* What route_delete_document counts on ("not shared across rows here"): the
\* bytes of a live document are in the store.  They are not: two documents of
\* a team with the same bytes share them.
LiveBlobsExist ==
    \A d \in Live : docs[d].blob \in blobs \cup {None}
=============================================================================
