---------------------------- MODULE SessionUpload ----------------------------
(***************************************************************************)
(* The SessionStart hook and /api/sessions/ingest.  The hook compares the  *)
(* transcripts of a folder with the fingerprints in state.json, posts what *)
(* is new or has grown, and writes the fingerprints back when the answer   *)
(* has come.  The server stores each session it does not have yet.         *)
(*                                                                         *)
(* Hooks of one folder may overlap: every agent that starts runs one.      *)
(* Answers get lost, requests die with the server, hooks with the client.  *)
(***************************************************************************)
EXTENDS Integers, FiniteSets

CONSTANTS
    Transcripts, \* session files of the folder
    Hooks,       \* tasks: runs of the hook, each with its request
    MaxVersion,  \* bound: how often a transcript grows
    MinFit,      \* the first version that the server keeps
    MaxBatch     \* MAX_SESSIONS

ASSUME SessionUploadAssumption ==
    /\ MaxVersion \in Nat
    /\ MinFit \in Nat
    /\ MaxBatch \in Nat \ {0}
    /\ "none" \notin Transcripts

Versions == 0..MaxVersion

VARIABLES
    file,    \* version of each transcript, 0 before it is written
    sent,    \* state.json: the fingerprint marked as sent, 0 for none
    uploaded,    \* how many RawSession rows of each session there are
    hook,    \* what each run has read and posted
    upload, \* the versions its request has yet to look at, and the session it stores
    raced    \* sessions that were in two requests at a time

uploadVars == <<file, sent, uploaded, hook, upload, raced>>

IdleHook == [at |-> "idle"]

Marks == [Transcripts -> Versions]
Nothing == [s \in Transcripts |-> 0]
NoUpload == [todo |-> Nothing, storing |-> "none"]

SessionUploadTypeOK ==
    /\ file \in Marks
    /\ sent \in Marks
    /\ uploaded \in [Transcripts -> Nat]
    /\ hook \in [Hooks -> {IdleHook} \cup [at : {"scanned", "waiting", "answered"},
                                       seen : Marks, batch : Marks]]
    /\ upload \in [Hooks -> [todo : Marks, storing : Transcripts \cup {"none"}]]
    /\ raced \subseteq Transcripts

SessionUploadInit ==
    /\ file = Nothing
    /\ sent = Nothing
    /\ uploaded = Nothing
    /\ hook = [h \in Hooks |-> IdleHook]
    /\ upload = [h \in Hooks |-> NoUpload]
    /\ raced = {}

HookGoes(h, state) == hook' = [hook EXCEPT ![h] = state]
In(batch) == {s \in Transcripts : batch[s] > 0}

\* The agent writes to its transcript.
Grow(s) ==
    /\ file[s] < MaxVersion
    /\ file' = [file EXCEPT ![s] = @ + 1]
    /\ UNCHANGED <<sent, uploaded, hook, upload, raced>>

\* The hook reads state.json, and the files whose fingerprint differs, at most
\* MAX_SESSIONS of them in the order of their names.
Scan(h) ==
    /\ hook[h] = IdleHook
    /\ upload[h] = NoUpload
    /\ \E batch \in SUBSET {s \in Transcripts : file[s] > 0 /\ file[s] # sent[s]} :
          /\ batch # {}
          /\ Cardinality(batch) <= MaxBatch
          /\ HookGoes(h, [at |-> "scanned", seen |-> sent,
                      batch |-> [s \in Transcripts |-> IF s \in batch THEN file[s] ELSE 0]])
    /\ UNCHANGED <<file, sent, uploaded, upload, raced>>

\* Sessions that the request of another run has not finished with.
InRequests(h) ==
    UNION {In(upload[g].todo) \cup ({upload[g].storing} \cap Transcripts) : g \in Hooks \ {h}}

Post(h) ==
    /\ hook[h].at = "scanned"
    /\ HookGoes(h, [hook[h] EXCEPT !.at = "waiting"])
    /\ upload' = [upload EXCEPT ![h].todo = hook[h].batch]
    /\ raced' = raced \cup (In(hook[h].batch) \cap InRequests(h))
    /\ UNCHANGED <<file, sent, uploaded>>

-----------------------------------------------------------------------------
(* route_sessions_ingest *)

\* Mutant of Known: the session is looked for under another project.
KnownNowhere(s) == FALSE

\* There is a row with the user's, the project's and the session's id.
Known(s) == uploaded[s] > 0

\* The next session is looked up, and skipped if it is known, or is too short,
\* cannot be parsed or does not pass the prefilter.
LookUp(h, s) ==
    /\ upload[h].storing = "none"
    /\ s \in In(upload[h].todo)
    /\ upload' = [upload EXCEPT
                     ![h].todo[s] = 0,
                     ![h].storing = IF Known(s) \/ upload[h].todo[s] < MinFit THEN "none" ELSE s]
    /\ UNCHANGED <<file, sent, uploaded, hook, raced>>

\* Its row is inserted, and the ceiling enforced, in a transaction.
StoreSession(h) ==
    /\ upload[h].storing # "none"
    /\ uploaded' = [uploaded EXCEPT ![upload[h].storing] = @ + 1]
    /\ upload' = [upload EXCEPT ![h].storing = "none"]
    /\ UNCHANGED <<file, sent, hook, raced>>

Over(h) == upload[h] = NoUpload

Answer(h) ==
    /\ hook[h].at = "waiting"
    /\ Over(h)
    /\ HookGoes(h, [hook[h] EXCEPT !.at = "answered"])
    /\ UNCHANGED <<file, sent, uploaded, upload, raced>>

\* No connection, an error, or no answer within a minute: the request may go on.
GiveUp(h) ==
    /\ hook[h].at = "waiting"
    /\ \/ UNCHANGED upload
       \/ upload' = [upload EXCEPT ![h] = NoUpload]
    /\ HookGoes(h, IdleHook)
    /\ UNCHANGED <<file, sent, uploaded, raced>>

\* 401: the token has been revoked.  state.json is written as it was read, with
\* a note for the user.
Refused(h) ==
    /\ hook[h].at = "waiting"
    /\ upload[h].todo = hook[h].batch
    /\ upload[h].storing = "none"
    /\ sent' = hook[h].seen
    /\ upload' = [upload EXCEPT ![h] = NoUpload]
    /\ HookGoes(h, IdleHook)
    /\ UNCHANGED <<file, uploaded, raced>>

\* Mutant of WriteState: what was posted is marked when the answer did not come.
WriteStateAnyway(h) ==
    /\ hook[h].at \in {"waiting", "answered"}
    /\ sent' = [s \in Transcripts |->
                  IF hook[h].batch[s] > 0 THEN hook[h].batch[s] ELSE hook[h].seen[s]]
    /\ HookGoes(h, IdleHook)
    /\ upload' = [upload EXCEPT ![h] = NoUpload]
    /\ UNCHANGED <<file, uploaded, raced>>

\* The fingerprints of the batch are added to state.json as it was read.
WriteState(h) ==
    /\ hook[h].at = "answered"
    /\ sent' = [s \in Transcripts |->
                  IF hook[h].batch[s] > 0 THEN hook[h].batch[s] ELSE hook[h].seen[s]]
    /\ HookGoes(h, IdleHook)
    /\ UNCHANGED <<file, uploaded, upload, raced>>

\* The hook is killed with its agent.
KillHook(h) ==
    /\ hook[h] # IdleHook
    /\ HookGoes(h, IdleHook)
    /\ UNCHANGED <<file, sent, uploaded, upload, raced>>

\* The server is killed: requests are gone, answers do not come.
KillUploadServer ==
    /\ \E h \in Hooks : upload[h] # NoUpload
    /\ upload' = [h \in Hooks |-> NoUpload]
    /\ hook' = [h \in Hooks |-> IF upload[h] # NoUpload THEN IdleHook ELSE hook[h]]
    /\ UNCHANGED <<file, sent, uploaded, raced>>

SessionUploadNext ==
    \/ \E s \in Transcripts : Grow(s)
    \/ \E h \in Hooks :
          \/ Scan(h) \/ Post(h) \/ StoreSession(h) \/ Answer(h) \/ GiveUp(h)
          \/ Refused(h) \/ WriteState(h) \/ KillHook(h)
          \/ \E s \in Transcripts : LookUp(h, s)
    \/ KillUploadServer

SessionUploadSpec == SessionUploadInit /\ [][SessionUploadNext]_uploadVars

-----------------------------------------------------------------------------

\* Nothing is marked as sent and lost: a session whose fingerprint is in
\* state.json has a row, or the version marked is one the server does not keep.
\* It holds over lost answers, overlapping hooks that overwrite each other's
\* state.json, and kills on both sides.
MarksAreEarned ==
    \A s \in Transcripts : sent[s] >= MinFit /\ sent[s] > 0 => uploaded[s] > 0

\* However often a session is posted again, it has one row, unless two requests
\* carried it at the same time: both find nothing and both insert.
RepeatsAreSkipped == \A s \in Transcripts \ raced : uploaded[s] <= 1
=============================================================================
