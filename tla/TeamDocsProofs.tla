---------------------------- MODULE TeamDocsProofs ----------------------------
(***************************************************************************)
(* Safety of a team's documents, of their index and of their map, for      *)
(* every number of requests and every set of paths and contents.           *)
(***************************************************************************)
EXTENDS TeamDocs, TLAPS

-----------------------------------------------------------------------------
(* The inductive invariants *)

\* A request has tasks only when it is done, knows what it is about once it has
\* begun, and has no document to its number before it writes.
StepsAreInOrder ==
    \A r \in Requests :
        /\ step[r] # "done" => task[r] = "none" /\ map[r] = "none"
        /\ step[r] # "new" => req[r] \in Request
        /\ step[r] \in {"new", "write"} => docs[r] = NoDoc

\* What a map task has read.
SnapshotsAreTyped ==
    snapshot \in [Requests -> [paths : SUBSET Paths, old : (SUBSET Paths) \cup {None}]]

\* A request that is to write, has just written or has an index task is about a
\* document that is there, or that it is going to insert under its own number.
WorkHasADocument ==
    \A r \in Requests :
        step[r] \in {"write", "finish"} \/ task[r] # "none" =>
            /\ req[r].op # "delete" => req[r].body \in Bodies
            /\ step[r] = "write" /\ ~req[r].seen.live =>
                  /\ req[r].id = r
                  /\ req[r].path \in Paths
                  /\ req[r].op \in {"upload", "save"}
            /\ step[r] # "write" \/ req[r].seen.live => docs[req[r].id] # NoDoc
            /\ task[r] = "remove" => req[r].op = "delete"
            /\ task[r] \in {"clear", "insert"} => req[r].op # "delete"

\* The chunks of a document with content of its own.
ChunksOf(doc) ==
    [i \in Slots |-> IF doc.live /\ i <= ChunkCount[doc.body] THEN doc.body ELSE None]

\* Of the tasks of a document whose changes did not overlap one at most is under
\* way, and it works on the present content.
IndexInv ==
    \A d \in Ids \ disturbed :
        /\ \A p, q \in Requests : IndexPending(p, d) /\ IndexPending(q, d) => p = q
        /\ (~\E q \in Requests : IndexPending(q, d)) => chunks[d] = ChunksOf(docs[d])
        /\ \A q \in Requests :
              IndexPending(q, d) =>
                  /\ docs[d].live <=> req[q].op # "delete"
                  /\ docs[d].live => docs[d].body = req[q].body
                  /\ task[q] = "insert" => chunks[d] = NoChunks

\* A map task that is about to write has read what is live now; the map is as it
\* read it, or another task has drawn it since.
MapInv ==
    0 \notin disturbed =>
        /\ \A r \in Requests :
              map[r] = "write" =>
                  /\ snapshot[r].paths = LivePaths
                  /\ snapshot[r].old = loci \/ loci = LivePaths
        /\ MapIsFresh

DocsInv ==
    /\ SnapshotsAreTyped
    /\ StepsAreInOrder
    /\ WorkHasADocument
    /\ OnePathOneDocument
    /\ IndexInv
    /\ MapInv

-----------------------------------------------------------------------------
(* Types *)

\* A document that was read and a request about it are what they should be.
LEMMA RequestIsTyped ==
  ASSUME NEW op \in {"upload", "save", "edit", "delete"}, NEW d \in Ids,
         NEW p \in Paths \cup {None}, NEW b \in Bodies \cup {None}, NEW seen \in Doc \cup {NoDoc}
  PROVE  [op |-> op, id |-> d, path |-> p, body |-> b, seen |-> seen] \in Request
BY DEF Request

\* What reading by path comes to.
LEMMA ReadByPathEffect ==
  ASSUME TypeOK, NEW r \in Requests, NEW op \in {"upload", "save"}, NEW p \in Paths,
         NEW b \in Bodies, ReadByPath(r, op, p, b)
  PROVE  /\ req'[r] \in Request
         /\ req' \in [Requests -> Request \cup {NoRequest}]
         /\ step' \in [Requests -> {"new", "write", "finish", "done"}]
         /\ step'[r] \in {"write", "done"}
         /\ \A q \in Requests \ {r} : req'[q] = req[q] /\ step'[q] = step[q]
         /\ req'[r].op = op /\ req'[r].body = b /\ req'[r].path = p
         /\ \/ ~req'[r].seen.live /\ req'[r].id = r
            \/ docs[req'[r].id] # NoDoc
<1>1. PICK d \in Ids, seen \in {docs[i] : i \in Live} \cup {NoDoc} :
        /\ \/ d \in Live /\ docs[d].path = p /\ seen = docs[d]
           \/ d = r /\ p \notin LivePaths /\ seen = NoDoc
        /\ req' = [req EXCEPT ![r] = [op |-> op, id |-> d, path |-> p, body |-> b, seen |-> seen]]
        /\ step' = [step EXCEPT ![r] = IF op = "save" /\ seen.live /\ seen.body = b
                                       THEN "done" ELSE "write"]
  BY DEF ReadByPath
<1>2. seen \in Doc \cup {NoDoc}
  BY DEF Live, TypeOK
<1>3. [op |-> op, id |-> d, path |-> p, body |-> b, seen |-> seen] \in Request
  BY <1>2, RequestIsTyped
<1>4. /\ req'[r] = [op |-> op, id |-> d, path |-> p, body |-> b, seen |-> seen]
      /\ req' \in [Requests -> Request \cup {NoRequest}]
  BY <1>1, <1>3 DEF TypeOK
<1>5. \/ ~seen.live /\ d = r
      \/ docs[d] # NoDoc
  BY <1>1 DEF NoDoc, Live
<1>6. /\ step' \in [Requests -> {"new", "write", "finish", "done"}]
      /\ step'[r] \in {"write", "done"}
      /\ \A q \in Requests \ {r} : req'[q] = req[q] /\ step'[q] = step[q]
  BY <1>1 DEF TypeOK
<1> QED BY <1>3, <1>4, <1>5, <1>6

\* What inserting a document comes to.
LEMMA InsertEffect ==
  ASSUME TypeOK, NEW r \in Requests, NEW p \in Paths, NEW b \in Bodies, InsertDoc(r, p, b)
  PROVE  /\ step' \in [Requests -> {"new", "write", "finish", "done"}]
         /\ \A q \in Requests \ {r} : step'[q] = step[q]
         /\ \/ /\ step'[r] = "done"
               /\ UNCHANGED <<docs, disturbed>>
            \/ /\ step'[r] = "finish"
               /\ p \notin LivePaths
               /\ docs' \in [Ids -> Doc \cup {NoDoc}]
               /\ docs'[r] \in Doc /\ docs'[r].live /\ docs'[r].path = p /\ docs'[r].body = b
               /\ \A d \in Ids \ {r} : docs'[d] = docs[d]
               /\ disturbed' = disturbed \cup MapRace
<1>1. CASE p \in LivePaths
  BY <1>1 DEF InsertDoc, TypeOK
<1>2. CASE p \notin LivePaths
  <2>1. [path |-> p, body |-> b, blob |-> BlobOf(b), live |-> TRUE] \in Doc
    BY DEF Doc, BlobOf
  <2>2. docs' = [docs EXCEPT ![r] = [path |-> p, body |-> b, blob |-> BlobOf(b), live |-> TRUE]]
    BY <1>2 DEF InsertDoc
  <2>3. r \in Ids
    BY DEF Ids
  <2>4. docs'[r] = [path |-> p, body |-> b, blob |-> BlobOf(b), live |-> TRUE]
    BY <2>2, <2>3 DEF TypeOK
  <2>5. /\ docs' \in [Ids -> Doc \cup {NoDoc}]
        /\ \A d \in Ids \ {r} : docs'[d] = docs[d]
    BY <2>1, <2>2, <2>3 DEF TypeOK
  <2>6. /\ step' \in [Requests -> {"new", "write", "finish", "done"}]
        /\ step'[r] = "finish"
        /\ \A q \in Requests \ {r} : step'[q] = step[q]
        /\ disturbed' = disturbed \cup MapRace
    BY <1>2 DEF InsertDoc, TypeOK
  <2> QED BY <1>2, <2>1, <2>4, <2>5, <2>6
<1> QED BY <1>1, <1>2

\* What overwriting a document comes to.
LEMMA OverwriteEffect ==
  ASSUME TypeOK, NEW r \in Requests, req[r] \in Request, req[r].body \in Bodies,
         req[r].seen.live, docs[req[r].id] # NoDoc, Overwrite(r)
  PROVE  /\ docs' \in [Ids -> Doc \cup {NoDoc}]
         /\ \A d \in Ids \ {req[r].id} : docs'[d] = docs[d]
         /\ docs'[req[r].id] \in Doc
         /\ docs'[req[r].id].live = docs[req[r].id].live
         /\ docs'[req[r].id].path = docs[req[r].id].path
         /\ docs[req[r].id] = req[r].seen => docs'[req[r].id].body = req[r].body
<1>1. PICK d \in Ids : d = req[r].id
  BY DEF Request
<1>2. docs[d] \in Doc
  BY <1>1 DEF TypeOK
<1>3. req[r].seen \in Doc
  BY DEF Request, NoDoc
<1>4. PICK blob : blob = IF req[r].op = "upload"
                         THEN Assigned(docs[d].blob, req[r].seen.blob, BlobOf(req[r].body))
                         ELSE docs[d].blob
  OBVIOUS
<1>5. PICK body : body = Assigned(docs[d].body, req[r].seen.body, req[r].body)
  OBVIOUS
<1>6. body \in Bodies /\ blob \in Binaries \cup {None}
  BY <1>2, <1>4, <1>5 DEF Assigned, BlobOf, Doc
<1>7. docs' = [docs EXCEPT ![d] = [docs[d] EXCEPT !.body = body, !.blob = blob]]
  BY <1>1, <1>4, <1>5 DEF Overwrite, TypeOK
<1>8. [docs[d] EXCEPT !.body = body, !.blob = blob] \in Doc
  BY <1>2, <1>6 DEF Doc
<1>9. docs[d] = req[r].seen => body = req[r].body
  BY <1>5 DEF Assigned
<1>10. docs'[d] = [docs[d] EXCEPT !.body = body, !.blob = blob]
  BY <1>7 DEF TypeOK
<1>11. docs'[d].live = docs[d].live /\ docs'[d].path = docs[d].path /\ docs'[d].body = body
  BY <1>2, <1>10 DEF Doc
<1> QED BY <1>1, <1>7, <1>8, <1>9, <1>10, <1>11 DEF TypeOK

\* The live paths are paths.
LEMMA LivePathsAreTyped == ASSUME TypeOK PROVE LivePaths \in SUBSET Paths
BY DEF TypeOK, LivePaths, Live, Doc, NoDoc

\* Every step keeps the types.
LEMMA DocsTypesStep ==
  ASSUME TypeOK, SnapshotsAreTyped, StepsAreInOrder, WorkHasADocument, [Next]_vars
  PROVE  TypeOK' /\ SnapshotsAreTyped'
<1> USE DEF requestVars, taskVars, SnapshotsAreTyped
<1>0. NoSnapshot \in [paths : SUBSET Paths, old : (SUBSET Paths) \cup {None}]
  <2>1. {} \in SUBSET Paths
    OBVIOUS
  <2>2. None \in (SUBSET Paths) \cup {None}
    BY Zenon
  <2> QED BY <2>1, <2>2, Zenon DEF NoSnapshot
<1>1. ASSUME NEW r \in Requests, CreateDocument(r) PROVE TypeOK' /\ SnapshotsAreTyped'
  <2>1. PICK p \in Paths, b \in Texts :
          /\ req' = [req EXCEPT ![r] = [op |-> "upload", id |-> r, path |-> p, body |-> b, seen |-> NoDoc]]
          /\ InsertDoc(r, p, b)
    BY <1>1 DEF CreateDocument
  <2>2. b \in Bodies /\ r \in Ids
    BY DEF Bodies, Ids
  <2>3. [op |-> "upload", id |-> r, path |-> p, body |-> b, seen |-> NoDoc] \in Request
    BY <2>2, RequestIsTyped
  <2>4. req' \in [Requests -> Request \cup {NoRequest}]
    BY <2>1, <2>3 DEF TypeOK
  <2>5. /\ docs' \in [Ids -> Doc \cup {NoDoc}]
        /\ step' \in [Requests -> {"new", "write", "finish", "done"}]
        /\ disturbed' \subseteq Ids \cup {0}
    BY <2>1, <2>2, InsertEffect DEF TypeOK, MapRace
  <2> QED BY <1>1, <2>4, <2>5 DEF CreateDocument, TypeOK
<1>2. ASSUME NEW r \in Requests, UploadRead(r) \/ SaveRead(r) PROVE TypeOK' /\ SnapshotsAreTyped'
  <2>1. PICK op \in {"upload", "save"} : \E p \in Paths, b \in Bodies : ReadByPath(r, op, p, b)
    BY <1>2 DEF UploadRead, SaveRead, Bodies
  <2>2. /\ req' \in [Requests -> Request \cup {NoRequest}]
        /\ step' \in [Requests -> {"new", "write", "finish", "done"}]
    BY <2>1, ReadByPathEffect
  <2>3. blobs' \subseteq Binaries
    BY <1>2 DEF UploadRead, SaveRead, TypeOK
  <2> QED BY <1>2, <2>2, <2>3 DEF UploadRead, SaveRead, TypeOK
<1>3. ASSUME NEW r \in Requests, EditRead(r) \/ DeleteRead(r) PROVE TypeOK' /\ SnapshotsAreTyped'
  <2>1. PICK op \in {"edit", "delete"} : \E d \in Live, b \in Bodies \cup {None} :
          req' = [req EXCEPT ![r] = [op |-> op, id |-> d, path |-> None, body |-> b, seen |-> docs[d]]]
    BY <1>3 DEF EditRead, DeleteRead, Bodies
  <2>2. PICK d \in Live, b \in Bodies \cup {None} :
          req' = [req EXCEPT ![r] = [op |-> op, id |-> d, path |-> None, body |-> b, seen |-> docs[d]]]
    BY <2>1
  <2>3. [op |-> op, id |-> d, path |-> None, body |-> b, seen |-> docs[d]] \in Request
    BY RequestIsTyped DEF Live, TypeOK
  <2>4. req' \in [Requests -> Request \cup {NoRequest}]
    BY <2>2, <2>3 DEF TypeOK
  <2>5. step' \in [Requests -> {"new", "write", "finish", "done"}]
    BY <1>3 DEF EditRead, DeleteRead, TypeOK
  <2> QED BY <1>3, <2>4, <2>5 DEF EditRead, DeleteRead, TypeOK
<1>4. ASSUME NEW r \in Requests, Write(r) PROVE TypeOK' /\ SnapshotsAreTyped'
  <2>1. req[r] \in Request /\ req[r].body \in Bodies
    BY <1>4 DEF Write, StepsAreInOrder, WorkHasADocument
  <2>2. CASE req[r].seen.live
    <3>1. docs' \in [Ids -> Doc \cup {NoDoc}]
      BY <1>4, <2>1, <2>2, OverwriteEffect DEF Write, WorkHasADocument
    <3>2. disturbed' \subseteq Ids \cup {0}
      BY <1>4, <2>1, <2>2 DEF Write, Races, MapRace, TypeOK, Request
    <3> QED BY <1>4, <2>2, <3>1, <3>2 DEF Write, TypeOK
  <2>3. CASE ~req[r].seen.live
    <3>1. req[r].path \in Paths /\ InsertDoc(r, req[r].path, req[r].body)
      BY <1>4, <2>3 DEF Write, WorkHasADocument
    <3>2. /\ docs' \in [Ids -> Doc \cup {NoDoc}]
          /\ step' \in [Requests -> {"new", "write", "finish", "done"}]
          /\ disturbed' \subseteq Ids \cup {0}
      BY <2>1, <3>1, InsertEffect DEF TypeOK, MapRace
    <3> QED BY <1>4, <3>2 DEF Write, TypeOK
  <2> QED BY <2>2, <2>3
<1>5. ASSUME NEW r \in Requests, DeleteWrite(r) PROVE TypeOK' /\ SnapshotsAreTyped'
  <2>1. PICK d \in Ids : d = req[r].id
    BY <1>5 DEF DeleteWrite, StepsAreInOrder, Request
  <2>2. [docs[d] EXCEPT !.live = FALSE] \in Doc
    <3>1. docs[d] \in Doc
      BY <1>5, <2>1, SMTT(40) DEF DeleteWrite, WorkHasADocument, TypeOK
    <3> QED BY <3>1 DEF Doc
  <2>3. docs' = [docs EXCEPT ![d] = [docs[d] EXCEPT !.live = FALSE]]
    BY <1>5, <2>1 DEF DeleteWrite, TypeOK
  <2>4. docs' \in [Ids -> Doc \cup {NoDoc}]
    BY <2>2, <2>3 DEF TypeOK
  <2>5. disturbed' \subseteq Ids \cup {0}
    BY <1>5, <2>1 DEF DeleteWrite, Races, MapRace, TypeOK
  <2> QED BY <1>5, <2>4, <2>5 DEF DeleteWrite, TypeOK
<1>6. ASSUME NEW r \in Requests, Finish(r) PROVE TypeOK' /\ SnapshotsAreTyped'
  <2>1. req[r].id \in Ids
    BY <1>6 DEF Finish, StepsAreInOrder, Request
  <2>2. /\ blobs' \subseteq Binaries /\ disturbed' \subseteq Ids \cup {0}
        /\ step' \in [Requests -> {"new", "write", "finish", "done"}]
        /\ task' \in [Requests -> {"none", "clear", "insert", "remove"}]
        /\ map' \in [Requests -> {"none", "read", "write"}]
    BY <1>6, <2>1 DEF Finish, TypeOK
  <2>3. \A q \in Requests : map'[q] = "write" => map[q] = "write"
    BY <1>6 DEF Finish, TypeOK
  <2> QED BY <1>6, <2>2, <2>3 DEF Finish, TypeOK
<1>7. ASSUME NEW r \in Requests, TaskClear(r) PROVE TypeOK' /\ SnapshotsAreTyped'
  <2>1. /\ chunks' \in [Ids -> [Slots -> Bodies \cup {None}]]
        /\ task' \in [Requests -> {"none", "clear", "insert", "remove"}]
    BY <1>7 DEF TaskClear, TypeOK, NoChunks
  <2> QED BY <1>7, <2>1 DEF TaskClear, TypeOK
<1>8. ASSUME NEW r \in Requests, TaskInsert(r) PROVE TypeOK' /\ SnapshotsAreTyped'
  <2>1. PICK d \in Ids, b \in Bodies : d = req[r].id /\ b = req[r].body
    BY <1>8 DEF TaskInsert, StepsAreInOrder, WorkHasADocument, Request, TypeOK
  <2>2. [i \in Slots |-> IF i <= ChunkCount[b] THEN b ELSE chunks[d][i]] \in [Slots -> Bodies \cup {None}]
    BY DEF TypeOK
  <2>3. chunks' = [chunks EXCEPT ![d] =
                     [i \in Slots |-> IF i <= ChunkCount[b] THEN b ELSE chunks[d][i]]]
    BY <1>8, <2>1 DEF TaskInsert, TypeOK
  <2>4. chunks' \in [Ids -> [Slots -> Bodies \cup {None}]]
    BY <2>2, <2>3 DEF TypeOK
  <2>5. task' \in [Requests -> {"none", "clear", "insert", "remove"}]
    BY <1>8 DEF TaskInsert, TypeOK
  <2> QED BY <1>8, <2>4, <2>5 DEF TaskInsert, TypeOK
<1>9. ASSUME NEW r \in Requests, TaskFails(r) PROVE TypeOK' /\ SnapshotsAreTyped'
  <2>1. req[r].id \in Ids
    BY <1>9 DEF TaskFails, StepsAreInOrder, Request
  <2> QED BY <1>9, <2>1 DEF TaskFails, TypeOK
<1>10. ASSUME NEW r \in Requests, MapRead(r) PROVE TypeOK' /\ SnapshotsAreTyped'
  <2>1. snapshot' \in [Requests -> [paths : SUBSET Paths, old : (SUBSET Paths) \cup {None}]]
    BY <1>10, LivePathsAreTyped DEF MapRead, TypeOK
  <2>2. map' \in [Requests -> {"none", "read", "write"}]
    BY <1>10 DEF MapRead, TypeOK
  <2>3. \A q \in Requests : snapshot'[q].paths \subseteq Paths
    BY <2>1
  <2> QED BY <1>10, <2>1, <2>2, <2>3 DEF MapRead, TypeOK
<1>11. ASSUME NEW r \in Requests, MapWrite(r) \/ MapFails(r) PROVE TypeOK' /\ SnapshotsAreTyped'
  <2>1. snapshot' \in [Requests -> [paths : SUBSET Paths, old : (SUBSET Paths) \cup {None}]]
    BY <1>11, <1>0 DEF MapWrite, MapFails
  <2>2. map' \in [Requests -> {"none", "read", "write"}]
    BY <1>11 DEF MapWrite, MapFails, TypeOK
  <2>3. \A q \in Requests : snapshot'[q].paths \subseteq Paths
    BY <2>1
  <2>4. loci' \in (SUBSET Paths) \cup {None} /\ disturbed' \subseteq Ids \cup {0}
    BY <1>11 DEF MapWrite, MapFails, TypeOK
  <2> QED BY <1>11, <2>1, <2>2, <2>3, <2>4 DEF MapWrite, MapFails, TypeOK
<1>12. CASE Crash
  <2>1. \A r \in Requests : InFlight(r) => req[r].id \in Ids
    BY DEF InFlight, StepsAreInOrder, Request
  <2>2. disturbed' \subseteq Ids \cup {0}
    BY <1>12, <2>1 DEF Crash, TypeOK
  <2>3. /\ step' \in [Requests -> {"new", "write", "finish", "done"}]
        /\ snapshot' \in [Requests -> [paths : SUBSET Paths, old : (SUBSET Paths) \cup {None}]]
        /\ \A q \in Requests : map'[q] # "write"
    BY <1>12, <1>0 DEF Crash, TypeOK
  <2> QED BY <1>12, <2>2, <2>3 DEF Crash, TypeOK
<1>13. CASE UNCHANGED vars
  BY <1>13 DEF vars, TypeOK
<1> QED BY <1>1, <1>2, <1>3, <1>4, <1>5, <1>6, <1>7, <1>8, <1>9, <1>10, <1>11, <1>12, <1>13 DEF Next

-----------------------------------------------------------------------------
(* The requests *)

\* Every step keeps the requests in order and about a document.
LEMMA RequestsStep ==
  ASSUME TypeOK, StepsAreInOrder, WorkHasADocument, [Next]_vars
  PROVE  StepsAreInOrder' /\ WorkHasADocument'
<1> USE DEF requestVars, taskVars
<1>1. ASSUME NEW r \in Requests, step[r] = "new", step'[r] \in {"write", "done"},
             req'[r] \in Request,
             step'[r] = "write" /\ req'[r].op # "delete" => req'[r].body \in Bodies,
             step'[r] = "write" =>
                IF req'[r].seen.live THEN docs[req'[r].id] # NoDoc
                ELSE /\ req'[r].id = r /\ req'[r].path \in Paths
                     /\ req'[r].op \in {"upload", "save"},
             \A q \in Requests \ {r} : req'[q] = req[q] /\ step'[q] = step[q],
             UNCHANGED <<docs, taskVars>>
      PROVE  StepsAreInOrder' /\ WorkHasADocument'
  <2>1. StepsAreInOrder'
    BY <1>1 DEF StepsAreInOrder
  <2>2. WorkHasADocument'
    BY <1>1 DEF WorkHasADocument, StepsAreInOrder
  <2> QED BY <2>1, <2>2
<1>2. ASSUME NEW r \in Requests, UploadRead(r) \/ SaveRead(r)
      PROVE  StepsAreInOrder' /\ WorkHasADocument'
  <2>1. PICK op \in {"upload", "save"} : \E p \in Paths, b \in Bodies : ReadByPath(r, op, p, b)
    BY <1>2 DEF UploadRead, SaveRead, Bodies
  <2>2. PICK p \in Paths, b \in Bodies : ReadByPath(r, op, p, b)
    BY <2>1
  <2>3. IF req'[r].seen.live THEN docs[req'[r].id] # NoDoc ELSE req'[r].id = r
    <3>1. PICK d \in Ids, seen \in {docs[i] : i \in Live} \cup {NoDoc} :
            /\ \/ d \in Live /\ docs[d].path = p /\ seen = docs[d]
               \/ d = r /\ p \notin LivePaths /\ seen = NoDoc
            /\ req' = [req EXCEPT ![r] = [op |-> op, id |-> d, path |-> p, body |-> b, seen |-> seen]]
      BY <2>2 DEF ReadByPath
    <3>2. req'[r] = [op |-> op, id |-> d, path |-> p, body |-> b, seen |-> seen]
      BY <3>1 DEF TypeOK
    <3> QED BY <3>1, <3>2 DEF NoDoc, Live
  <2>4. step[r] = "new" /\ UNCHANGED <<docs, taskVars>>
    BY <1>2 DEF UploadRead, SaveRead, CanStart
  <2> QED BY <1>1, <2>2, <2>3, <2>4, ReadByPathEffect
<1>3. ASSUME NEW r \in Requests, EditRead(r) \/ DeleteRead(r)
      PROVE  StepsAreInOrder' /\ WorkHasADocument'
  <2>1. PICK op \in {"edit", "delete"} : \E d \in Live, b \in Bodies \cup {None} :
          /\ req' = [req EXCEPT ![r] = [op |-> op, id |-> d, path |-> None, body |-> b, seen |-> docs[d]]]
          /\ op = "edit" => b \in Bodies
    BY <1>3 DEF EditRead, DeleteRead, Bodies
  <2>2. PICK d \in Live, b \in Bodies \cup {None} :
          /\ req' = [req EXCEPT ![r] = [op |-> op, id |-> d, path |-> None, body |-> b, seen |-> docs[d]]]
          /\ op = "edit" => b \in Bodies
    BY <2>1
  <2>3. [op |-> op, id |-> d, path |-> None, body |-> b, seen |-> docs[d]] \in Request
    BY RequestIsTyped DEF Live, TypeOK
  <2>4. /\ req'[r] = [op |-> op, id |-> d, path |-> None, body |-> b, seen |-> docs[d]]
        /\ \A q \in Requests \ {r} : req'[q] = req[q]
    BY <2>2 DEF TypeOK
  <2>5. docs[d].live /\ docs[d] # NoDoc
    BY DEF Live, NoDoc
  <2>6. /\ step[r] = "new" /\ step'[r] \in {"write", "done"}
        /\ \A q \in Requests \ {r} : step'[q] = step[q]
        /\ UNCHANGED <<docs, taskVars>>
    BY <1>3 DEF EditRead, DeleteRead, CanStart, TypeOK
  <2> QED BY <1>1, <2>2, <2>3, <2>4, <2>5, <2>6
<1>4. ASSUME NEW r \in Requests, step[r] \in {"new", "write"}, step'[r] \in {"finish", "done"},
             req'[r] \in Request, req'[r].op # "delete" => req'[r].body \in Bodies,
             step'[r] = "finish" => docs'[req'[r].id] # NoDoc,
             \A q \in Requests \ {r} : req'[q] = req[q] /\ step'[q] = step[q],
             \A d \in Ids : docs'[d] = NoDoc => docs[d] = NoDoc,
             \A d \in Ids \ {r} : docs[d] = NoDoc => docs'[d] = NoDoc,
             UNCHANGED taskVars
      PROVE  StepsAreInOrder' /\ WorkHasADocument'
  <2>1. StepsAreInOrder'
    BY <1>4 DEF StepsAreInOrder, Ids
  <2>2. WorkHasADocument'
    <3> SUFFICES ASSUME NEW q \in Requests, step'[q] \in {"write", "finish"} \/ task'[q] # "none"
                 PROVE  /\ req'[q].op # "delete" => req'[q].body \in Bodies
                        /\ step'[q] = "write" /\ ~req'[q].seen.live =>
                              /\ req'[q].id = q
                              /\ req'[q].path \in Paths
                              /\ req'[q].op \in {"upload", "save"}
                        /\ step'[q] # "write" \/ req'[q].seen.live => docs'[req'[q].id] # NoDoc
                        /\ task'[q] = "remove" => req'[q].op = "delete"
                        /\ task'[q] \in {"clear", "insert"} => req'[q].op # "delete"
      BY DEF WorkHasADocument
    <3>1. CASE q = r
      BY <1>4, <3>1 DEF StepsAreInOrder
    <3>2. CASE q # r
      <4>1. req[q] \in Request /\ req[q].id \in Ids
        BY <1>4, <3>2 DEF StepsAreInOrder, Request
      <4> QED BY <1>4, <3>2, <4>1 DEF WorkHasADocument
    <3> QED BY <3>1, <3>2
  <2> QED BY <2>1, <2>2
<1>5. ASSUME NEW r \in Requests, CreateDocument(r) PROVE StepsAreInOrder' /\ WorkHasADocument'
  <2>1. PICK p \in Paths, b \in Texts :
          /\ req' = [req EXCEPT ![r] = [op |-> "upload", id |-> r, path |-> p, body |-> b, seen |-> NoDoc]]
          /\ InsertDoc(r, p, b)
    BY <1>5 DEF CreateDocument
  <2>2. b \in Bodies /\ r \in Ids
    BY DEF Bodies, Ids
  <2>3. [op |-> "upload", id |-> r, path |-> p, body |-> b, seen |-> NoDoc] \in Request
    BY <2>2, RequestIsTyped
  <2>4. /\ req'[r] = [op |-> "upload", id |-> r, path |-> p, body |-> b, seen |-> NoDoc]
        /\ \A q \in Requests \ {r} : req'[q] = req[q]
    BY <2>1 DEF TypeOK
  <2>5. step[r] = "new" /\ UNCHANGED taskVars
    BY <1>5 DEF CreateDocument, CanStart
  <2>6. /\ step'[r] \in {"finish", "done"}
        /\ \A q \in Requests \ {r} : step'[q] = step[q]
        /\ step'[r] = "finish" => docs'[r] # NoDoc
        /\ \A d \in Ids \ {r} : docs'[d] = docs[d]
        /\ docs'[r] = docs[r] \/ docs'[r] # NoDoc
    BY <2>1, <2>2, InsertEffect DEF Doc, NoDoc
  <2> QED BY <1>4, <2>2, <2>3, <2>4, <2>5, <2>6
<1>6. ASSUME NEW r \in Requests, Write(r) PROVE StepsAreInOrder' /\ WorkHasADocument'
  <2>1. /\ req[r] \in Request /\ req[r].body \in Bodies /\ r \in Ids
        /\ step[r] = "write" /\ UNCHANGED <<req, taskVars>>
    BY <1>6 DEF Write, StepsAreInOrder, WorkHasADocument, Ids
  <2>2. CASE req[r].seen.live
    <3>1. docs[req[r].id] # NoDoc /\ Overwrite(r) /\ step' = [step EXCEPT ![r] = "finish"]
      BY <1>6, <2>2 DEF Write, WorkHasADocument
    <3>2. /\ step'[r] = "finish"
          /\ \A q \in Requests \ {r} : step'[q] = step[q]
      BY <3>1 DEF TypeOK
    <3>3. /\ \A d \in Ids \ {req[r].id} : docs'[d] = docs[d]
          /\ docs'[req[r].id] # NoDoc
      BY <2>1, <2>2, <3>1, OverwriteEffect DEF Doc, NoDoc
    <3> QED BY <1>4, <2>1, <3>1, <3>2, <3>3
  <2>3. CASE ~req[r].seen.live
    <3>1. /\ req[r].path \in Paths /\ req[r].id = r
          /\ InsertDoc(r, req[r].path, req[r].body)
      BY <1>6, <2>3 DEF Write, WorkHasADocument
    <3>2. /\ step'[r] \in {"finish", "done"}
          /\ \A q \in Requests \ {r} : step'[q] = step[q]
          /\ step'[r] = "finish" => docs'[r] # NoDoc
          /\ \A d \in Ids \ {r} : docs'[d] = docs[d]
          /\ docs'[r] = docs[r] \/ docs'[r] # NoDoc
      BY <2>1, <3>1, InsertEffect DEF Doc, NoDoc
    <3> QED BY <1>4, <2>1, <3>1, <3>2
  <2> QED BY <2>2, <2>3
<1>7. ASSUME NEW r \in Requests, DeleteWrite(r) PROVE StepsAreInOrder' /\ WorkHasADocument'
  <2>1. PICK d \in Ids : d = req[r].id
    BY <1>7 DEF DeleteWrite, StepsAreInOrder, Request
  <2>2. /\ req[r] \in Request /\ req[r].op = "delete" /\ step[r] = "write"
        /\ UNCHANGED <<req, taskVars>>
        /\ docs[d] \in Doc /\ docs[d] # NoDoc
    BY <1>7, <2>1 DEF DeleteWrite, StepsAreInOrder, WorkHasADocument, TypeOK
  <2>3. docs' = [docs EXCEPT ![d] = [docs[d] EXCEPT !.live = FALSE]]
    BY <1>7, <2>1 DEF DeleteWrite, TypeOK
  <2>4. /\ \A c \in Ids \ {d} : docs'[c] = docs[c]
        /\ docs'[d] \in Doc
    BY <2>2, <2>3 DEF TypeOK, Doc
  <2>5. docs'[d] # NoDoc
    BY <2>4 DEF Doc, NoDoc
  <2>6. step'[r] = "finish" /\ \A q \in Requests \ {r} : step'[q] = step[q]
    BY <1>7 DEF DeleteWrite, TypeOK
  <2> QED BY <1>4, <2>1, <2>2, <2>4, <2>5, <2>6
<1>8. ASSUME NEW r \in Requests, Finish(r) PROVE StepsAreInOrder' /\ WorkHasADocument'
  <2>1. /\ step[r] = "finish" /\ step'[r] = "done"
        /\ task'[r] \in {"none", "remove", "clear"}
        /\ task'[r] = "remove" <=> req[r].op = "delete"
        /\ \A q \in Requests \ {r} : step'[q] = step[q] /\ task'[q] = task[q] /\ map'[q] = map[q]
        /\ UNCHANGED <<docs, req>>
    BY <1>8 DEF Finish, TypeOK
  <2>2. StepsAreInOrder'
    BY <2>1 DEF StepsAreInOrder
  <2>3. WorkHasADocument'
    BY <2>1 DEF WorkHasADocument
  <2> QED BY <2>2, <2>3
<1>9. ASSUME NEW r \in Requests, task[r] # "none", UNCHANGED <<docs, step, req, map>>,
             task'[r] = "insert" => task[r] = "clear",
             task'[r] \in {"insert", "none"},
             \A q \in Requests \ {r} : task'[q] = task[q]
      PROVE  StepsAreInOrder' /\ WorkHasADocument'
  <2>1. StepsAreInOrder'
    BY <1>9 DEF StepsAreInOrder
  <2>2. WorkHasADocument'
    BY <1>9 DEF WorkHasADocument
  <2> QED BY <2>1, <2>2
<1>10. ASSUME NEW r \in Requests, TaskClear(r) \/ TaskInsert(r) \/ TaskFails(r)
       PROVE  StepsAreInOrder' /\ WorkHasADocument'
  <2>1. /\ task[r] # "none" /\ UNCHANGED <<docs, step, req, map>>
        /\ task'[r] = "insert" => task[r] = "clear"
        /\ task'[r] \in {"insert", "none"}
        /\ \A q \in Requests \ {r} : task'[q] = task[q]
    BY <1>10 DEF TaskClear, TaskInsert, TaskFails, TypeOK
  <2> QED BY <1>9, <2>1
<1>11. ASSUME NEW r \in Requests, MapRead(r) \/ MapWrite(r) \/ MapFails(r)
       PROVE  StepsAreInOrder' /\ WorkHasADocument'
  <2>1. /\ UNCHANGED <<docs, step, req, task>> /\ step[r] = "done"
        /\ \A q \in Requests \ {r} : map'[q] = map[q]
    BY <1>11 DEF MapRead, MapWrite, MapFails, StepsAreInOrder, TypeOK
  <2> QED BY <2>1 DEF StepsAreInOrder, WorkHasADocument
<1>12. CASE Crash
  <2>1. /\ \A r \in Requests : /\ task'[r] = "none" /\ map'[r] = "none"
                               /\ step'[r] \in {step[r], "done"}
                               /\ step'[r] = "done" /\ step[r] # "done" => step[r] # "new"
                               /\ step'[r] \notin {"write", "finish"}
        /\ UNCHANGED <<docs, req>>
    BY <1>12 DEF Crash, InFlight, StepsAreInOrder
  <2> QED BY <2>1 DEF StepsAreInOrder, WorkHasADocument
<1>13. CASE UNCHANGED vars
  BY <1>13 DEF vars, StepsAreInOrder, WorkHasADocument
<1> QED BY <1>2, <1>3, <1>5, <1>6, <1>7, <1>8, <1>10, <1>11, <1>12, <1>13 DEF Next

-----------------------------------------------------------------------------
(* One path, one document *)

\* Documents keep their paths, and only come to life on a path that is free.
LEMMA OnePathStep ==
  ASSUME TypeOK, StepsAreInOrder, WorkHasADocument, OnePathOneDocument, [Next]_vars
  PROVE  OnePathOneDocument'
<1> USE DEF requestVars, taskVars
<1>1. ASSUME \A d \in Ids : docs'[d].live => docs[d].live /\ docs'[d].path = docs[d].path
      PROVE  OnePathOneDocument'
  BY <1>1 DEF OnePathOneDocument, Live
<1>2. ASSUME NEW r \in Ids, docs'[r].path \notin LivePaths,
             \A d \in Ids \ {r} : docs'[d] = docs[d]
      PROVE  OnePathOneDocument'
  BY <1>2 DEF OnePathOneDocument, Live, LivePaths
<1>3. ASSUME UNCHANGED docs PROVE OnePathOneDocument'
  BY <1>3, <1>1
<1>4. ASSUME NEW r \in Requests, NEW p \in Paths, NEW b \in Bodies, InsertDoc(r, p, b)
      PROVE  OnePathOneDocument'
  BY <1>2, <1>3, <1>4, InsertEffect DEF Ids
<1>5. ASSUME NEW r \in Requests, CreateDocument(r) PROVE OnePathOneDocument'
  BY <1>4, <1>5 DEF CreateDocument, Bodies
<1>6. ASSUME NEW r \in Requests, Write(r) PROVE OnePathOneDocument'
  <2>1. req[r] \in Request /\ req[r].body \in Bodies
    BY <1>6 DEF Write, StepsAreInOrder, WorkHasADocument
  <2>2. CASE req[r].seen.live
    <3>1. \A d \in Ids : docs'[d].live = docs[d].live /\ docs'[d].path = docs[d].path
      BY <1>6, <2>1, <2>2, OverwriteEffect DEF Write, WorkHasADocument
    <3> QED BY <1>1, <3>1
  <2>3. CASE ~req[r].seen.live
    BY <1>4, <1>6, <2>1, <2>3 DEF Write, WorkHasADocument
  <2> QED BY <2>2, <2>3
<1>7. ASSUME NEW r \in Requests, DeleteWrite(r) PROVE OnePathOneDocument'
  <2>1. PICK d \in Ids : d = req[r].id
    BY <1>7 DEF DeleteWrite, StepsAreInOrder, Request
  <2>2. docs[d] \in Doc
    BY <1>7, <2>1 DEF DeleteWrite, WorkHasADocument, TypeOK
  <2>3. docs' = [docs EXCEPT ![d] = [docs[d] EXCEPT !.live = FALSE]]
    BY <1>7, <2>1 DEF DeleteWrite, TypeOK
  <2>4. ~docs'[d].live /\ \A c \in Ids \ {d} : docs'[c] = docs[c]
    BY <2>2, <2>3 DEF TypeOK, Doc
  <2> QED BY <1>1, <2>4
<1>8. ASSUME NEW r \in Requests,
             \/ UploadRead(r) \/ SaveRead(r) \/ EditRead(r) \/ DeleteRead(r) \/ Finish(r)
             \/ TaskClear(r) \/ TaskInsert(r) \/ TaskFails(r)
             \/ MapRead(r) \/ MapWrite(r) \/ MapFails(r)
      PROVE  OnePathOneDocument'
  BY <1>3, <1>8 DEF UploadRead, SaveRead, EditRead, DeleteRead, Finish, TaskClear, TaskInsert,
     TaskFails, MapRead, MapWrite, MapFails
<1>9. CASE Crash \/ UNCHANGED vars
  BY <1>3, <1>9 DEF Crash, vars
<1> QED BY <1>5, <1>6, <1>7, <1>8, <1>9 DEF Next

-----------------------------------------------------------------------------
(* The index *)

\* A step that leaves documents, chunks and tasks alone.
LEMMA IndexUntouched ==
  ASSUME IndexInv, UNCHANGED <<docs, chunks>>, disturbed \subseteq disturbed',
         \A q \in Requests :
            \/ UNCHANGED <<step[q], req[q], task[q]>>
            \/ /\ step[q] \in {"new", "write"} /\ task[q] = "none"
               /\ step'[q] \in {"write", "done"} /\ task'[q] = "none"
  PROVE  IndexInv'
<1>1. \A q \in Requests, d \in Ids :
         IndexPending(q, d)' = IndexPending(q, d)
  BY DEF IndexPending
<1>2. \A q \in Requests, d \in Ids :
         IndexPending(q, d) => UNCHANGED <<step[q], req[q], task[q]>>
  BY DEF IndexPending
<1> QED BY <1>1, <1>2 DEF IndexInv, ChunksOf

\* A request changes a document, and its index task is to come.
LEMMA IndexAwaitsTask ==
  ASSUME IndexInv, NEW r \in Requests, NEW d \in Ids,
         UNCHANGED <<chunks, task>>, disturbed \subseteq disturbed',
         task[r] = "none", step[r] \in {"new", "write"}, step'[r] = "finish", req'[r].id = d,
         \A q \in Requests \ {r} : req'[q] = req[q] /\ step'[q] = step[q],
         \A c \in Ids \ {d} : docs'[c] = docs[c],
         \/ d \in disturbed'
         \/ /\ \A q \in Requests \ {r} : ~IndexPending(q, d)
            /\ docs'[d].live <=> req'[r].op # "delete"
            /\ docs'[d].live => docs'[d].body = req'[r].body
  PROVE  IndexInv'
<1>1. \A c \in Ids : ~IndexPending(r, c)
  BY DEF IndexPending
<1>2. \A c \in Ids : IndexPending(r, c)' <=> c = d
  BY DEF IndexPending
<1>3. \A q \in Requests \ {r}, c \in Ids : IndexPending(q, c)' = IndexPending(q, c)
  BY DEF IndexPending
<1>4. SUFFICES ASSUME NEW c \in Ids \ disturbed'
               PROVE  /\ \A p, q \in Requests : IndexPending(p, c)' /\ IndexPending(q, c)' => p = q
                      /\ (~\E q \in Requests : IndexPending(q, c)') => chunks'[c] = ChunksOf(docs[c])'
                      /\ \A q \in Requests :
                            IndexPending(q, c)' =>
                                /\ docs'[c].live <=> req'[q].op # "delete"
                                /\ docs'[c].live => docs'[c].body = req'[q].body
                                /\ task'[q] = "insert" => chunks'[c] = NoChunks
  BY DEF IndexInv, ChunksOf
<1>5. CASE c = d
  BY <1>2, <1>3, <1>5
<1>6. CASE c # d
  <2>1. docs'[c] = docs[c] /\ c \in Ids \ disturbed
    BY <1>6
  <2> QED BY <1>1, <1>2, <1>3, <1>6, <2>1 DEF IndexInv, ChunksOf
<1> QED BY <1>5, <1>6

\* An index task takes a step on the only document it is about.
LEMMA IndexTaskGoesOn ==
  ASSUME IndexInv, NEW r \in Requests, NEW d \in Ids, d = req[r].id, task[r] # "none", step[r] = "done",
         UNCHANGED <<docs, step, req, disturbed>>,
         \A q \in Requests \ {r} : task'[q] = task[q],
         \A c \in Ids \ {d} : chunks'[c] = chunks[c],
         task'[r] \in {"none", "insert"},
         d \notin disturbed /\ task'[r] = "none" => chunks'[d] = ChunksOf(docs[d]),
         d \notin disturbed /\ task'[r] = "insert" => chunks'[d] = NoChunks
  PROVE  IndexInv'
<1>1. \A c \in Ids : /\ IndexPending(r, c) <=> c = d
                     /\ IndexPending(r, c)' <=> c = d /\ task'[r] = "insert"
  BY DEF IndexPending
<1>2. \A q \in Requests \ {r}, c \in Ids : IndexPending(q, c)' = IndexPending(q, c)
  BY DEF IndexPending
<1>3. SUFFICES ASSUME NEW c \in Ids \ disturbed
               PROVE  /\ \A p, q \in Requests : IndexPending(p, c)' /\ IndexPending(q, c)' => p = q
                      /\ (~\E q \in Requests : IndexPending(q, c)') => chunks'[c] = ChunksOf(docs[c])
                      /\ \A q \in Requests :
                            IndexPending(q, c)' =>
                                /\ docs[c].live <=> req[q].op # "delete"
                                /\ docs[c].live => docs[c].body = req[q].body
                                /\ task'[q] = "insert" => chunks'[c] = NoChunks
  BY DEF IndexInv, ChunksOf
<1>4. CASE c = d
  <2>1. \A q \in Requests : IndexPending(q, d) => q = r
    BY <1>1, <1>4 DEF IndexInv
  <2>2. \A q \in Requests : IndexPending(q, d)' => q = r /\ task'[r] = "insert"
    BY <1>1, <1>2, <2>1
  <2>3. task'[r] = "insert" => IndexPending(r, d)'
    BY <1>1
  <2> QED BY <1>1, <1>4, <2>2, <2>3 DEF IndexInv
<1>5. CASE c # d
  <2>1. \A q \in Requests : IndexPending(q, c)' <=> IndexPending(q, c)
    BY <1>1, <1>2, <1>5
  <2>2. \A q \in Requests : IndexPending(q, c) => task'[q] = task[q]
    BY <1>1, <1>5
  <2>3. chunks'[c] = chunks[c]
    BY <1>5
  <2> QED BY <2>1, <2>2, <2>3 DEF IndexInv
<1> QED BY <1>4, <1>5

\* Every step keeps the invariant of the index.
LEMMA IndexStep ==
  ASSUME TypeOK, StepsAreInOrder, WorkHasADocument, IndexInv, [Next]_vars
  PROVE  IndexInv'
<1> USE DEF requestVars, taskVars
<1>1. ASSUME NEW r \in Requests, NEW b \in Bodies, NEW p \in Paths, InsertDoc(r, p, b),
             step[r] \in {"new", "write"}, task[r] = "none",
             req'[r].id = r, req'[r].op # "delete", req'[r].body = b,
             \A q \in Requests \ {r} : req'[q] = req[q],
             UNCHANGED <<chunks, task>>
      PROVE  IndexInv'
  <2>1. CASE step'[r] = "done"
    BY <1>1, <2>1, InsertEffect, IndexUntouched
  <2>2. CASE step'[r] = "finish"
    <3>1. \A q \in Requests \ {r} : ~IndexPending(q, r)
      BY <1>1 DEF IndexPending, WorkHasADocument, StepsAreInOrder
    <3>2. disturbed \subseteq disturbed' /\ r \in Ids
      BY <1>1, InsertEffect DEF Ids
    <3> QED BY <1>1, <2>2, <3>1, <3>2, InsertEffect, IndexAwaitsTask
  <2> QED BY <1>1, <2>1, <2>2, InsertEffect
<1>2. ASSUME NEW r \in Requests, CreateDocument(r) PROVE IndexInv'
  <2>1. PICK p \in Paths, b \in Texts :
          /\ req' = [req EXCEPT ![r] = [op |-> "upload", id |-> r, path |-> p, body |-> b, seen |-> NoDoc]]
          /\ InsertDoc(r, p, b)
    BY <1>2 DEF CreateDocument
  <2>2. /\ req'[r] = [op |-> "upload", id |-> r, path |-> p, body |-> b, seen |-> NoDoc]
        /\ \A q \in Requests \ {r} : req'[q] = req[q]
    BY <2>1 DEF TypeOK
  <2>3. step[r] = "new" /\ task[r] = "none" /\ UNCHANGED <<chunks, task>>
    BY <1>2 DEF CreateDocument, CanStart, StepsAreInOrder
  <2> QED BY <1>1, <2>1, <2>2, <2>3 DEF Bodies
<1>3. ASSUME NEW r \in Requests, UploadRead(r) \/ SaveRead(r) PROVE IndexInv'
  <2>1. PICK op \in {"upload", "save"} : \E p \in Paths, b \in Bodies : ReadByPath(r, op, p, b)
    BY <1>3 DEF UploadRead, SaveRead, Bodies
  <2>2. /\ step'[r] \in {"write", "done"}
        /\ \A q \in Requests \ {r} : req'[q] = req[q] /\ step'[q] = step[q]
    BY <2>1, ReadByPathEffect
  <2>3. step[r] = "new" /\ task[r] = "none" /\ UNCHANGED <<docs, chunks, task, disturbed>>
    BY <1>3 DEF UploadRead, SaveRead, CanStart, StepsAreInOrder
  <2> QED BY <2>2, <2>3, IndexUntouched
<1>4. ASSUME NEW r \in Requests, EditRead(r) \/ DeleteRead(r) PROVE IndexInv'
  <2>1. /\ step[r] = "new" /\ step'[r] \in {"write", "done"}
        /\ \A q \in Requests \ {r} : req'[q] = req[q] /\ step'[q] = step[q]
        /\ task[r] = "none" /\ UNCHANGED <<docs, chunks, task, disturbed>>
    BY <1>4 DEF EditRead, DeleteRead, CanStart, StepsAreInOrder, TypeOK
  <2> QED BY <2>1, IndexUntouched
<1>5. ASSUME NEW r \in Requests, Write(r) PROVE IndexInv'
  <2>1. /\ req[r] \in Request /\ req[r].body \in Bodies /\ req[r].op # "delete"
        /\ step[r] = "write" /\ task[r] = "none" /\ UNCHANGED <<req, task, chunks>>
    BY <1>5 DEF Write, StepsAreInOrder, WorkHasADocument
  <2>2. CASE req[r].seen.live
    <3>1. /\ docs[req[r].id] # NoDoc /\ Overwrite(r) /\ step' = [step EXCEPT ![r] = "finish"]
          /\ disturbed' = disturbed \cup Races(r, req[r].id)
      BY <1>5, <2>2 DEF Write, WorkHasADocument
    <3>2. PICK d \in Ids : d = req[r].id
      BY <2>1 DEF Request
    <3>3. step'[r] = "finish" /\ \A q \in Requests \ {r} : step'[q] = step[q]
      BY <3>1 DEF TypeOK
    <3>4. /\ \A c \in Ids \ {d} : docs'[c] = docs[c]
          /\ docs'[d].live = docs[d].live
          /\ docs[d] = req[r].seen => docs'[d].body = req[r].body
      BY <2>1, <2>2, <3>1, <3>2, OverwriteEffect
    <3>5. \/ d \in disturbed'
          \/ docs[d] = req[r].seen /\ \A q \in Requests \ {r} : ~IndexPending(q, d)
      BY <3>1, <3>2 DEF Races
    <3>6. docs[d] = req[r].seen => docs'[d].live
      BY <2>2, <3>4
    <3>7. \/ d \in disturbed'
          \/ /\ \A q \in Requests \ {r} : ~IndexPending(q, d)
             /\ docs'[d].live <=> req[r].op # "delete"
             /\ docs'[d].live => docs'[d].body = req[r].body
      BY <2>1, <3>4, <3>5, <3>6
    <3>8. disturbed \subseteq disturbed' /\ req' = req
      BY <2>1, <3>1
    <3> QED BY <2>1, <3>2, <3>3, <3>4, <3>7, <3>8, IndexAwaitsTask
  <2>3. CASE ~req[r].seen.live
    <3>1. req[r].path \in Paths /\ req[r].id = r /\ InsertDoc(r, req[r].path, req[r].body)
      BY <1>5, <2>3 DEF Write, WorkHasADocument
    <3> QED BY <1>1, <2>1, <3>1
  <2> QED BY <2>2, <2>3
<1>6. ASSUME NEW r \in Requests, DeleteWrite(r) PROVE IndexInv'
  <2>1. PICK d \in Ids : d = req[r].id
    BY <1>6 DEF DeleteWrite, StepsAreInOrder, Request
  <2>2. docs[d] \in Doc
    BY <1>6, <2>1 DEF DeleteWrite, WorkHasADocument, TypeOK
  <2>3. docs' = [docs EXCEPT ![d] = [docs[d] EXCEPT !.live = FALSE]]
    BY <1>6, <2>1 DEF DeleteWrite, TypeOK
  <2>4. ~docs'[d].live /\ \A c \in Ids \ {d} : docs'[c] = docs[c]
    BY <2>2, <2>3 DEF TypeOK, Doc
  <2>5. /\ step[r] = "write" /\ task[r] = "none" /\ req[r].op = "delete"
        /\ step'[r] = "finish" /\ \A q \in Requests \ {r} : step'[q] = step[q]
        /\ UNCHANGED <<req, task, chunks>>
        /\ disturbed' = disturbed \cup Races(r, d)
    BY <1>6, <2>1 DEF DeleteWrite, StepsAreInOrder, TypeOK
  <2>6. d \in disturbed' \/ \A q \in Requests \ {r} : ~IndexPending(q, d)
    BY <2>5 DEF Races
  <2> QED BY <2>1, <2>4, <2>5, <2>6, IndexAwaitsTask
<1>7. ASSUME NEW r \in Requests, Finish(r) PROVE IndexInv'
  <2>1. PICK d \in Ids : d = req[r].id
    BY <1>7 DEF Finish, StepsAreInOrder, Request
  <2>2. /\ step[r] = "finish" /\ step'[r] = "done"
        /\ task'[r] \in {"none", "remove", "clear"}
        /\ \A q \in Requests \ {r} : step'[q] = step[q] /\ task'[q] = task[q]
        /\ UNCHANGED <<docs, chunks, req>>
        /\ disturbed \subseteq disturbed'
        /\ task'[r] = "none" => d \in disturbed'
    BY <1>7, <2>1 DEF Finish, TypeOK
  <2>3. \A q \in Requests \ {r}, c \in Ids : IndexPending(q, c)' <=> IndexPending(q, c)
    BY <2>2 DEF IndexPending
  <2>4. \A c \in Ids \ disturbed' : IndexPending(r, c)' <=> IndexPending(r, c)
    BY <2>1, <2>2 DEF IndexPending
  <2> QED BY <2>2, <2>3, <2>4 DEF IndexInv, ChunksOf
<1>8. ASSUME NEW r \in Requests, TaskClear(r) PROVE IndexInv'
  <2>1. PICK d \in Ids : d = req[r].id
    BY <1>8 DEF TaskClear, StepsAreInOrder, Request
  <2>2. /\ task[r] \in {"clear", "remove"} /\ step[r] = "done"
        /\ UNCHANGED <<docs, step, req, disturbed>>
        /\ \A q \in Requests \ {r} : task'[q] = task[q]
        /\ \A c \in Ids \ {d} : chunks'[c] = chunks[c]
        /\ chunks'[d] = NoChunks
    BY <1>8, <2>1 DEF TaskClear, StepsAreInOrder, TypeOK
  <2>3. task'[r] = IF task[r] = "clear" /\ ChunkCount[req[r].body] > 0 THEN "insert" ELSE "none"
    BY <1>8 DEF TaskClear, TypeOK
  <2>4. ASSUME d \notin disturbed, task'[r] = "none" PROVE chunks'[d] = ChunksOf(docs[d])
    <3>1. /\ docs[d].live <=> req[r].op # "delete"
          /\ docs[d].live => docs[d].body = req[r].body
      BY <2>1, <2>2, <2>4 DEF IndexInv, IndexPending
    <3>2. task[r] = "remove" => ~docs[d].live
      BY <3>1 DEF WorkHasADocument
    <3>3. docs[d].live => ChunkCount[docs[d].body] \in Nat /\ ~(ChunkCount[docs[d].body] > 0)
      <4>1. req[r].op # "delete" => req[r].body \in Texts \cup Binaries
        BY <2>2 DEF WorkHasADocument, Bodies
      <4> QED BY <2>2, <2>3, <2>4, <3>1, <3>2, <4>1, TeamDocsAssumption DEF TeamDocsAssumption
    <3>4. \A i \in Slots : ~(docs[d].live /\ i <= ChunkCount[docs[d].body])
      BY <3>3 DEF Slots
    <3> QED BY <2>2, <3>4 DEF ChunksOf, NoChunks
  <2> QED BY <2>1, <2>2, <2>3, <2>4, IndexTaskGoesOn
<1>9. ASSUME NEW r \in Requests, TaskInsert(r) PROVE IndexInv'
  <2>1. PICK d \in Ids : d = req[r].id
    BY <1>9 DEF TaskInsert, StepsAreInOrder, Request
  <2>2. /\ task[r] = "insert" /\ task'[r] = "none" /\ step[r] = "done"
        /\ UNCHANGED <<docs, step, req, disturbed>>
        /\ \A q \in Requests \ {r} : task'[q] = task[q]
        /\ \A c \in Ids \ {d} : chunks'[c] = chunks[c]
        /\ chunks'[d] = [i \in Slots |-> IF i <= ChunkCount[req[r].body] THEN req[r].body ELSE chunks[d][i]]
    BY <1>9, <2>1 DEF TaskInsert, StepsAreInOrder, TypeOK
  <2>3. ASSUME d \notin disturbed PROVE chunks'[d] = ChunksOf(docs[d])
    <3>1. /\ docs[d].live /\ docs[d].body = req[r].body
          /\ chunks[d] = NoChunks
      BY <2>1, <2>2, <2>3 DEF IndexInv, IndexPending, WorkHasADocument
    <3> QED BY <2>2, <3>1 DEF ChunksOf, NoChunks
  <2> QED BY <2>1, <2>2, <2>3, IndexTaskGoesOn
<1>10. ASSUME NEW r \in Requests, TaskFails(r) PROVE IndexInv'
  <2>1. PICK d \in Ids : d = req[r].id
    BY <1>10 DEF TaskFails, StepsAreInOrder, Request
  <2>2. /\ UNCHANGED <<docs, chunks, step, req>>
        /\ \A q \in Requests \ {r} : task'[q] = task[q]
        /\ disturbed' = disturbed \cup {d}
    BY <1>10, <2>1 DEF TaskFails, TypeOK
  <2>3. \A q \in Requests, c \in Ids \ disturbed' : IndexPending(q, c)' <=> IndexPending(q, c)
    BY <2>1, <2>2 DEF IndexPending
  <2>4. \A q \in Requests, c \in Ids \ disturbed' : IndexPending(q, c) => task'[q] = task[q]
    BY <2>1, <2>2 DEF IndexPending
  <2> QED BY <2>2, <2>3, <2>4 DEF IndexInv, ChunksOf
<1>11. ASSUME NEW r \in Requests, MapRead(r) \/ MapWrite(r) \/ MapFails(r) PROVE IndexInv'
  BY <1>11, IndexUntouched DEF MapRead, MapWrite, MapFails
<1>12. CASE Crash
  <2>1. /\ UNCHANGED <<docs, chunks, req>>
        /\ \A r \in Requests : InFlight(r) => req[r].id \in disturbed'
        /\ disturbed \subseteq disturbed'
        /\ \A r \in Requests : task'[r] = "none" /\ step'[r] # "finish"
    BY <1>12 DEF Crash, InFlight
  <2>2. \A q \in Requests, c \in Ids \ disturbed' : ~IndexPending(q, c)' /\ ~IndexPending(q, c)
    BY <2>1 DEF IndexPending, InFlight
  <2> QED BY <2>1, <2>2 DEF IndexInv, ChunksOf
<1>13. CASE UNCHANGED vars
  BY <1>13, IndexUntouched DEF vars
<1> QED BY <1>2, <1>3, <1>4, <1>5, <1>6, <1>7, <1>8, <1>9, <1>10, <1>11, <1>12, <1>13 DEF Next

-----------------------------------------------------------------------------
(* The map *)

\* A step that leaves documents, map and map tasks alone.
LEMMA MapUntouched ==
  ASSUME MapInv, UNCHANGED <<docs, loci, map, snapshot>>, disturbed \subseteq disturbed',
         \A q \in Requests : step[q] = "finish" => step'[q] = "finish"
  PROVE  MapInv'
BY DEF MapInv, MapIsFresh, LivePaths, Live

\* A document is changed: a map task will follow, and none is about to write what
\* it has read before.
LEMMA MapAwaitsTask ==
  ASSUME NEW r \in Requests, step'[r] = "finish", UNCHANGED map,
         disturbed' = disturbed \cup MapRace \/ \E d : disturbed' = disturbed \cup Races(r, d)
  PROVE  MapInv'
<1>1. MapRace \subseteq disturbed'
  BY DEF Races
<1>2. 0 \notin disturbed' => \A q \in Requests : map'[q] # "write"
  BY <1>1 DEF MapRace
<1>3. MapIsFresh'
  BY DEF MapIsFresh
<1> QED BY <1>2, <1>3 DEF MapInv

\* Every step keeps the invariant of the map.
LEMMA MapStep ==
  ASSUME TypeOK, SnapshotsAreTyped, StepsAreInOrder, WorkHasADocument, MapInv, [Next]_vars
  PROVE  MapInv'
<1> USE DEF requestVars, taskVars
<1>1. ASSUME NEW r \in Requests, NEW b \in Bodies, NEW p \in Paths, InsertDoc(r, p, b),
             step[r] \in {"new", "write"}, UNCHANGED <<loci, map, snapshot>>
      PROVE  MapInv'
  BY <1>1, InsertEffect, MapUntouched, MapAwaitsTask
<1>2. ASSUME NEW r \in Requests, CreateDocument(r) PROVE MapInv'
  BY <1>1, <1>2 DEF CreateDocument, CanStart, Bodies
<1>3. ASSUME NEW r \in Requests, UploadRead(r) \/ SaveRead(r) PROVE MapInv'
  <2>1. PICK op \in {"upload", "save"} : \E p \in Paths, b \in Bodies : ReadByPath(r, op, p, b)
    BY <1>3 DEF UploadRead, SaveRead, Bodies
  <2>2. step[r] = "new" /\ \A q \in Requests \ {r} : step'[q] = step[q]
    BY <1>3, <2>1, ReadByPathEffect DEF UploadRead, SaveRead, CanStart
  <2> QED BY <1>3, <2>2, MapUntouched DEF UploadRead, SaveRead
<1>4. ASSUME NEW r \in Requests, EditRead(r) \/ DeleteRead(r) PROVE MapInv'
  <2>1. step[r] = "new" /\ \A q \in Requests \ {r} : step'[q] = step[q]
    BY <1>4 DEF EditRead, DeleteRead, CanStart, TypeOK
  <2> QED BY <1>4, <2>1, MapUntouched DEF EditRead, DeleteRead
<1>5. ASSUME NEW r \in Requests, Write(r) PROVE MapInv'
  <2>1. CASE req[r].seen.live
    <3>1. step'[r] = "finish" /\ UNCHANGED map
      BY <1>5, <2>1 DEF Write, TypeOK
    <3> QED BY <1>5, <2>1, <3>1, MapAwaitsTask DEF Write
  <2>2. CASE ~req[r].seen.live
    <3>1. req[r].path \in Paths /\ req[r].body \in Bodies /\ InsertDoc(r, req[r].path, req[r].body)
      BY <1>5, <2>2 DEF Write, WorkHasADocument
    <3> QED BY <1>1, <1>5, <3>1 DEF Write
  <2> QED BY <2>1, <2>2
<1>6. ASSUME NEW r \in Requests, DeleteWrite(r) PROVE MapInv'
  <2>1. step'[r] = "finish" /\ UNCHANGED map
    BY <1>6 DEF DeleteWrite, TypeOK
  <2> QED BY <1>6, <2>1, MapAwaitsTask DEF DeleteWrite
<1>7. ASSUME NEW r \in Requests, Finish(r) PROVE MapInv'
  <2>1. /\ step[r] = "finish" /\ map[r] = "none"
        /\ map'[r] # "write" /\ (map'[r] = "read" \/ 0 \in disturbed')
        /\ disturbed \subseteq disturbed'
        /\ \A q \in Requests \ {r} : map'[q] = map[q]
        /\ UNCHANGED <<docs, loci, snapshot>>
    BY <1>7 DEF Finish, TypeOK, StepsAreInOrder
  <2>2. LivePaths' = LivePaths
    BY <2>1 DEF LivePaths, Live
  <2>3. MapIsFresh'
    BY <2>1 DEF MapIsFresh
  <2> QED BY <2>1, <2>2, <2>3 DEF MapInv
<1>8. ASSUME NEW r \in Requests, TaskClear(r) \/ TaskInsert(r) \/ TaskFails(r) PROVE MapInv'
  BY <1>8, MapUntouched DEF TaskClear, TaskInsert, TaskFails
<1>9. ASSUME NEW r \in Requests, MapRead(r) PROVE MapInv'
  <2>1. /\ map'[r] = "write"
        /\ snapshot'[r].paths = LivePaths /\ snapshot'[r].old = loci
        /\ \A q \in Requests \ {r} : map'[q] = map[q] /\ snapshot'[q] = snapshot[q]
        /\ UNCHANGED <<docs, loci, disturbed>>
    BY <1>9 DEF MapRead, TypeOK, SnapshotsAreTyped
  <2>2. LivePaths' = LivePaths
    BY <2>1 DEF LivePaths, Live
  <2>3. MapIsFresh'
    BY <2>1 DEF MapIsFresh
  <2> QED BY <2>1, <2>2, <2>3 DEF MapInv
<1>10. ASSUME NEW r \in Requests, MapWrite(r) PROVE MapInv'
  <2>1. /\ map[r] = "write" /\ map'[r] = "none"
        /\ \A q \in Requests \ {r} : map'[q] = map[q] /\ snapshot'[q] = snapshot[q]
        /\ UNCHANGED <<docs, step, disturbed>>
        /\ loci' = IF snapshot[r].paths = snapshot[r].old \/ (snapshot[r].old = None /\ loci # None)
                   THEN loci ELSE snapshot[r].paths
    BY <1>10 DEF MapWrite, TypeOK, SnapshotsAreTyped
  <2>2. LivePaths' = LivePaths
    BY <2>1 DEF LivePaths, Live
  <2>3. 0 \notin disturbed => loci' = LivePaths
    BY <2>1 DEF MapInv
  <2> QED BY <2>1, <2>2, <2>3 DEF MapInv, MapIsFresh
<1>11. ASSUME NEW r \in Requests, MapFails(r) PROVE MapInv'
  <2>1. 0 \in disturbed'
    BY <1>11 DEF MapFails
  <2> QED BY <2>1 DEF MapInv
<1>12. CASE Crash
  <2>1. 0 \in disturbed'
    BY <1>12 DEF Crash
  <2> QED BY <2>1 DEF MapInv
<1>13. CASE UNCHANGED vars
  BY <1>13, MapUntouched DEF vars
<1> QED BY <1>2, <1>3, <1>4, <1>5, <1>6, <1>7, <1>8, <1>9, <1>10, <1>11, <1>12, <1>13 DEF Next

-----------------------------------------------------------------------------
(* The theorems *)

\* The variables of the documents keep their types, and the invariants above hold.
THEOREM TeamDocsAreSound == Spec => [](TypeOK /\ DocsInv)
<1>1. Init => TypeOK /\ DocsInv
  <2> SUFFICES ASSUME Init PROVE TypeOK /\ DocsInv
    OBVIOUS
  <2> USE DEF Init
  <2>1. NoChunks \in [Slots -> Bodies \cup {None}]
    BY DEF NoChunks
  <2>2. TypeOK
    BY <2>1 DEF TypeOK
  <2>3. SnapshotsAreTyped
    <3>1. {} \in SUBSET Paths
      OBVIOUS
    <3>2. None \in (SUBSET Paths) \cup {None}
      BY Zenon
    <3>3. NoSnapshot \in [paths : SUBSET Paths, old : (SUBSET Paths) \cup {None}]
      BY <3>1, <3>2, Zenon DEF NoSnapshot
    <3> QED BY <3>3 DEF SnapshotsAreTyped
  <2>4. StepsAreInOrder /\ WorkHasADocument
    BY DEF StepsAreInOrder, WorkHasADocument, Ids
  <2>5. Live = {}
    BY DEF Live, NoDoc
  <2>6. OnePathOneDocument
    BY <2>5 DEF OnePathOneDocument
  <2>7. IndexInv
    <3>1. \A q \in Requests, d \in Ids : ~IndexPending(q, d)
      BY DEF IndexPending
    <3>2. ChunksOf(NoDoc) = NoChunks
      BY DEF ChunksOf, NoDoc, NoChunks
    <3> QED BY <3>1, <3>2 DEF IndexInv
  <2>8. MapInv
    BY DEF MapInv, MapIsFresh
  <2> QED BY <2>2, <2>3, <2>4, <2>6, <2>7, <2>8 DEF DocsInv
<1>2. TypeOK /\ DocsInv /\ [Next]_vars => (TypeOK /\ DocsInv)'
  <2> SUFFICES ASSUME TypeOK, DocsInv, [Next]_vars PROVE (TypeOK /\ DocsInv)'
    OBVIOUS
  <2>1. SnapshotsAreTyped /\ StepsAreInOrder /\ WorkHasADocument /\ OnePathOneDocument /\ IndexInv /\ MapInv
    BY DEF DocsInv
  <2>2. TypeOK' /\ SnapshotsAreTyped' /\ StepsAreInOrder' /\ WorkHasADocument'
    BY <2>1, DocsTypesStep, RequestsStep
  <2>3. OnePathOneDocument' /\ IndexInv' /\ MapInv'
    BY <2>1, OnePathStep, IndexStep, MapStep
  <2> QED BY <2>2, <2>3 DEF DocsInv
<1> QED BY <1>1, <1>2, PTL DEF Spec

\* The types of the model.
THEOREM TeamDocsTypeCorrect == Spec => []TypeOK
BY TeamDocsAreSound, PTL

\* Live documents have different paths, however requests on one path interleave.
THEOREM PathsAreUnique == Spec => []OnePathOneDocument
<1>1. DocsInv => OnePathOneDocument
  BY DEF DocsInv
<1> QED BY <1>1, TeamDocsAreSound, PTL

\* Once the index tasks of a document are through, and if its changes did not overlap,
\* the index has the chunks of its present content and no other.
THEOREM TheIndexCatchesUp == Spec => []IndexIsFresh
<1>1. DocsInv => IndexIsFresh
  BY DEF DocsInv, IndexInv, ChunksOf, IndexIsFresh
<1> QED BY <1>1, TeamDocsAreSound, PTL

\* Once the map tasks are through LOCI.md lists the live documents, unless a change
\* fell between the read and the write of a map task.
THEOREM TheMapCatchesUp == Spec => []MapIsFresh
<1>1. DocsInv => MapIsFresh
  BY DEF DocsInv, MapInv, MapIsFresh
<1> QED BY <1>1, TeamDocsAreSound, PTL
=============================================================================
