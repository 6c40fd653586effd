----------------------------- MODULE UploadProofs -----------------------------
(***************************************************************************)
(* Safety of what clients upload and where it is filed, for every number   *)
(* of transcripts, hooks, versions, folders, projects and sessions.        *)
(***************************************************************************)
EXTENDS Projects, SessionUpload, FiniteSetTheorems, TLAPS

-----------------------------------------------------------------------------
(* The inductive invariants: the uploads *)

\* A version of s that the server would have stored.
Kept(s, version) == version >= MinFit /\ version > 0

\* What a run has read of state.json was earned when it was read.
ReadingsAreEarned ==
    \A h \in Hooks : hook[h] # IdleHook =>
        \A s \in Transcripts : Kept(s, hook[h].seen[s]) => uploaded[s] > 0

\* A run that has posted finds each of its sessions in the server, or its request
\* has yet to deal with it; when it is answered the request is through.
BatchesAreDealtWith ==
    \A h \in Hooks :
        /\ hook[h] # IdleHook /\ hook[h].at = "waiting" =>
              \A s \in Transcripts : Kept(s, hook[h].batch[s]) =>
                  \/ uploaded[s] > 0
                  \/ upload[h].todo[s] = hook[h].batch[s]
                  \/ upload[h].storing = s
        /\ hook[h] # IdleHook /\ hook[h].at = "answered" =>
              \A s \in Transcripts : Kept(s, hook[h].batch[s]) => uploaded[s] > 0

\* The request of h is about s.
Carries(h, s) == upload[h].todo[s] > 0 \/ upload[h].storing = s

\* A session that was never in two requests is in one at most, which stores it only
\* if it is not there.
RequestsAreAlone ==
    \A s \in Transcripts \ raced :
        /\ \A g, h \in Hooks : Carries(g, s) /\ Carries(h, s) => g = h
        /\ \A h \in Hooks : upload[h].storing = s => uploaded[s] = 0

UploadInv ==
    /\ MarksAreEarned
    /\ ReadingsAreEarned
    /\ BatchesAreDealtWith
    /\ RequestsAreAlone
    /\ RepeatsAreSkipped

-----------------------------------------------------------------------------
(* The inductive invariants: the projects *)

\* A project that is there has been made, and has a folder unless it was made
\* without one.
RowsAreKnown ==
    /\ \A n \in Projects : There(n) =>
          n <= lastProject /\ (n \in unfoldered \/ project[n].cwd # "null")
    /\ \A n \in unfoldered : n <= lastProject

\* Sessions are numbered in the order they are filed, and deleted with their project.
SessionsHaveProjects ==
    \A s \in Sessions : session[s] # NoSession =>
        s <= lastFiled /\ There(session[s].project)

\* Sessions of f may be filed under n, which has been made: it was made without a
\* folder, or its folder is f as long as it is there.
Suits(n, f) ==
    /\ n <= lastProject
    /\ n \in unfoldered \/ (There(n) => project[n].cwd = f)

\* What an upload or an init has read of a project may be old, and holds still.
TasksSuit ==
    \A t \in Tasks :
        /\ task[t].at = "claiming" => task[t].project \in unfoldered
        /\ task[t].at = "found" => Suits(task[t].project, task[t].folder)

\* A session in a group of folder f has not moved to another folder since.
Grouped(groups) ==
    \A f \in Folders : \A s \in groups[f] :
        s <= lastFiled /\ (session[s] # NoSession => session[s].folder = f)

\* So may what the backfill has read.
BackfillSuits ==
    backfill # Idle =>
        /\ backfill.todo \subseteq unfoldered
        /\ backfill.at # "listed" => backfill.project \in unfoldered /\ Grouped(backfill.groups)
        /\ backfill.at = "moving" => Suits(backfill.target, backfill.folder)

ProjectsInv ==
    /\ RowsAreKnown
    /\ SessionsHaveProjects
    /\ FoldersStayApart
    /\ TasksSuit
    /\ BackfillSuits

-----------------------------------------------------------------------------
(* Uploads: types *)

\* What a run has read and posted.
LEMMA RunsAreTyped ==
  ASSUME SessionUploadTypeOK, NEW h \in Hooks
  PROVE  /\ hook[h] # IdleHook =>
              /\ hook[h] \in [at : {"scanned", "waiting", "answered"}, seen : Marks, batch : Marks]
              /\ hook[h].at \in {"scanned", "waiting", "answered"}
              /\ hook[h].seen \in Marks
              /\ hook[h].batch \in Marks
         /\ hook[h].at \in {"scanned", "waiting", "answered"} => hook[h] # IdleHook
         /\ upload[h] \in [todo : Marks, storing : Transcripts \cup {"none"}]
         /\ upload[h].todo \in Marks
         /\ upload[h].storing \in Transcripts \cup {"none"}
BY DEF SessionUploadTypeOK, IdleHook

\* The values the initial states and the resets are made of.
LEMMA NothingIsTyped ==
  /\ Nothing \in Marks
  /\ NoUpload \in [todo : Marks, storing : Transcripts \cup {"none"}]
  /\ \A s \in Transcripts : Nothing[s] = 0
<1>1. 0 \in Versions
  BY SessionUploadAssumption DEF SessionUploadAssumption, Versions
<1> QED BY <1>1 DEF Nothing, Marks, NoUpload

\* What a run becomes.
LEMMA HookGoesEffect ==
  ASSUME SessionUploadTypeOK, NEW h \in Hooks, NEW st, HookGoes(h, st)
  PROVE  /\ hook'[h] = st
         /\ \A g \in Hooks \ {h} : hook'[g] = hook[g]
         /\ st \in {IdleHook} \cup [at : {"scanned", "waiting", "answered"}, seen : Marks, batch : Marks]
              => hook' \in [Hooks -> {IdleHook} \cup [at : {"scanned", "waiting", "answered"},
                                                       seen : Marks, batch : Marks]]
BY DEF SessionUploadTypeOK, HookGoes

\* What looking a session up comes to.
LEMMA LookUpEffect ==
  ASSUME SessionUploadTypeOK, NEW h \in Hooks, NEW s \in Transcripts, LookUp(h, s)
  PROVE  /\ upload' \in [Hooks -> [todo : Marks, storing : Transcripts \cup {"none"}]]
         /\ \A g \in Hooks \ {h} : upload'[g] = upload[g]
         /\ upload[h].storing = "none" /\ upload[h].todo[s] > 0
         /\ upload'[h].todo[s] = 0
         /\ \A t \in Transcripts \ {s} : upload'[h].todo[t] = upload[h].todo[t]
         /\ upload'[h].storing =
               IF Known(s) \/ upload[h].todo[s] < MinFit THEN "none" ELSE s
<1>1. PICK st : st = IF Known(s) \/ upload[h].todo[s] < MinFit THEN "none" ELSE s
  OBVIOUS
<1>2. upload' = [upload EXCEPT ![h] = [upload[h] EXCEPT !.todo = [upload[h].todo EXCEPT ![s] = 0],
                                                        !.storing = st]]
  BY <1>1 DEF LookUp, SessionUploadTypeOK
<1>3. upload[h] \in [todo : Marks, storing : Transcripts \cup {"none"}]
  BY RunsAreTyped
<1>4. [upload[h].todo EXCEPT ![s] = 0] \in Marks
  BY <1>3, SessionUploadAssumption DEF SessionUploadAssumption, Marks, Versions
<1>5. [upload[h] EXCEPT !.todo = [upload[h].todo EXCEPT ![s] = 0], !.storing = st]
        \in [todo : Marks, storing : Transcripts \cup {"none"}]
  BY <1>1, <1>3, <1>4
<1>6. upload'[h] = [upload[h] EXCEPT !.todo = [upload[h].todo EXCEPT ![s] = 0], !.storing = st]
  BY <1>2 DEF SessionUploadTypeOK
<1>7. /\ upload'[h].todo = [upload[h].todo EXCEPT ![s] = 0]
      /\ upload'[h].storing = st
  BY <1>3, <1>6
<1>8. /\ upload'[h].todo[s] = 0
      /\ \A t \in Transcripts \ {s} : upload'[h].todo[t] = upload[h].todo[t]
  BY <1>3, <1>7 DEF Marks
<1>9. upload' \in [Hooks -> [todo : Marks, storing : Transcripts \cup {"none"}]]
  BY <1>2, <1>5 DEF SessionUploadTypeOK
<1>10. /\ \A g \in Hooks \ {h} : upload'[g] = upload[g]
       /\ upload[h].storing = "none" /\ upload[h].todo[s] > 0
  BY <1>2 DEF SessionUploadTypeOK, LookUp, In
<1> QED BY <1>1, <1>7, <1>8, <1>9, <1>10

\* Every step of an upload keeps the types.
LEMMA UploadTypesStep ==
  ASSUME SessionUploadTypeOK, [SessionUploadNext]_uploadVars
  PROVE  SessionUploadTypeOK'
<1> USE NothingIsTyped
<1>1. ASSUME NEW s \in Transcripts, Grow(s) PROVE SessionUploadTypeOK'
  <2>1. file' \in Marks
    BY <1>1, SessionUploadAssumption
       DEF Grow, SessionUploadTypeOK, Marks, Versions, SessionUploadAssumption
  <2> QED BY <1>1, <2>1 DEF Grow, SessionUploadTypeOK
<1>2. ASSUME NEW h \in Hooks, Scan(h) PROVE SessionUploadTypeOK'
  <2>1. PICK batch \in SUBSET Transcripts :
          HookGoes(h, [at |-> "scanned", seen |-> sent,
                       batch |-> [s \in Transcripts |-> IF s \in batch THEN file[s] ELSE 0]])
    BY <1>2 DEF Scan
  <2>2. [s \in Transcripts |-> IF s \in batch THEN file[s] ELSE 0] \in Marks /\ sent \in Marks
    BY SessionUploadAssumption DEF SessionUploadTypeOK, Marks, Versions, SessionUploadAssumption
  <2> QED BY <1>2, <2>1, <2>2, HookGoesEffect DEF Scan, SessionUploadTypeOK
<1>3. ASSUME NEW h \in Hooks, Post(h) PROVE SessionUploadTypeOK'
  <2>1. /\ [hook[h] EXCEPT !.at = "waiting"]
              \in [at : {"scanned", "waiting", "answered"}, seen : Marks, batch : Marks]
        /\ hook[h].batch \in Marks
    BY <1>3, RunsAreTyped DEF Post
  <2>2. upload' = [upload EXCEPT ![h] = [upload[h] EXCEPT !.todo = hook[h].batch]]
    BY <1>3 DEF Post, SessionUploadTypeOK
  <2>3. [upload[h] EXCEPT !.todo = hook[h].batch] \in [todo : Marks, storing : Transcripts \cup {"none"}]
    BY <2>1, RunsAreTyped
  <2>4. upload' \in [Hooks -> [todo : Marks, storing : Transcripts \cup {"none"}]]
    BY <2>2, <2>3 DEF SessionUploadTypeOK
  <2>5. raced' \subseteq Transcripts
    BY <1>3 DEF Post, In, SessionUploadTypeOK
  <2> QED BY <1>3, <2>1, <2>4, <2>5, HookGoesEffect DEF Post, SessionUploadTypeOK
<1>4. ASSUME NEW h \in Hooks, NEW s \in Transcripts, LookUp(h, s) PROVE SessionUploadTypeOK'
  BY <1>4, LookUpEffect DEF LookUp, SessionUploadTypeOK
<1>5. ASSUME NEW h \in Hooks, StoreSession(h) PROVE SessionUploadTypeOK'
  <2>1. [upload[h] EXCEPT !.storing = "none"] \in [todo : Marks, storing : Transcripts \cup {"none"}]
    BY RunsAreTyped
  <2>2. upload' = [upload EXCEPT ![h] = [upload[h] EXCEPT !.storing = "none"]]
    BY <1>5 DEF StoreSession, SessionUploadTypeOK
  <2>3. upload' \in [Hooks -> [todo : Marks, storing : Transcripts \cup {"none"}]]
    BY <2>1, <2>2 DEF SessionUploadTypeOK
  <2>4. uploaded' \in [Transcripts -> Nat]
    BY <1>5 DEF StoreSession, SessionUploadTypeOK
  <2> QED BY <1>5, <2>3, <2>4 DEF StoreSession, SessionUploadTypeOK
<1>6. ASSUME NEW h \in Hooks, Answer(h) PROVE SessionUploadTypeOK'
  <2>1. [hook[h] EXCEPT !.at = "answered"]
           \in [at : {"scanned", "waiting", "answered"}, seen : Marks, batch : Marks]
    BY <1>6, RunsAreTyped DEF Answer
  <2> QED BY <1>6, <2>1, HookGoesEffect DEF Answer, SessionUploadTypeOK
<1>7. ASSUME NEW h \in Hooks, GiveUp(h) PROVE SessionUploadTypeOK'
  <2>1. upload' \in [Hooks -> [todo : Marks, storing : Transcripts \cup {"none"}]]
    BY <1>7 DEF GiveUp, SessionUploadTypeOK
  <2> QED BY <1>7, <2>1, HookGoesEffect DEF GiveUp, SessionUploadTypeOK
<1>8. ASSUME NEW h \in Hooks, Refused(h) PROVE SessionUploadTypeOK'
  <2>1. /\ upload' \in [Hooks -> [todo : Marks, storing : Transcripts \cup {"none"}]]
        /\ sent' \in Marks
    BY <1>8, RunsAreTyped DEF Refused, SessionUploadTypeOK
  <2> QED BY <1>8, <2>1, HookGoesEffect DEF Refused, SessionUploadTypeOK
<1>9. ASSUME NEW h \in Hooks, WriteState(h) PROVE SessionUploadTypeOK'
  <2>1. sent' \in Marks
    BY <1>9, RunsAreTyped DEF WriteState, Marks
  <2> QED BY <1>9, <2>1, HookGoesEffect DEF WriteState, SessionUploadTypeOK
<1>10. ASSUME NEW h \in Hooks, KillHook(h) PROVE SessionUploadTypeOK'
  BY <1>10, HookGoesEffect DEF KillHook, SessionUploadTypeOK
<1>11. CASE KillUploadServer
  BY <1>11 DEF KillUploadServer, SessionUploadTypeOK
<1>12. CASE UNCHANGED uploadVars
  BY <1>12 DEF uploadVars, SessionUploadTypeOK
<1> QED BY <1>1, <1>2, <1>3, <1>4, <1>5, <1>6, <1>7, <1>8, <1>9, <1>10, <1>11, <1>12
        DEF SessionUploadNext

-----------------------------------------------------------------------------
(* Uploads: what is marked is there, and once *)

\* Requests end, or go on to what they carry already.
LEMMA CarriersShrink ==
  ASSUME RequestsAreAlone, UNCHANGED <<raced, uploaded>>,
         \A g \in Hooks : \A s \in Transcripts :
            /\ Carries(g, s)' => Carries(g, s)
            /\ upload'[g].storing = s => upload[g].storing = s \/ uploaded[s] = 0
  PROVE  RequestsAreAlone'
BY DEF RequestsAreAlone

\* A request that is reset carries nothing.
LEMMA ResetCarriesNothing ==
  ASSUME NEW h \in Hooks, upload'[h] = NoUpload
  PROVE  \A s \in Transcripts : ~Carries(h, s)' /\ upload'[h].storing # s
BY NothingIsTyped, SessionUploadAssumption DEF SessionUploadAssumption, Carries, NoUpload

\* Every step of an upload keeps what has been earned.
LEMMA MarksStep ==
  ASSUME SessionUploadTypeOK, MarksAreEarned, ReadingsAreEarned, BatchesAreDealtWith,
         [SessionUploadNext]_uploadVars
  PROVE  MarksAreEarned' /\ ReadingsAreEarned' /\ BatchesAreDealtWith'
<1> USE DEF Kept
<1>1. ASSUME \A s \in Transcripts : uploaded[s] > 0 => uploaded'[s] > 0,
             UNCHANGED sent
      PROVE  MarksAreEarned'
  BY <1>1 DEF MarksAreEarned
<1>2. ASSUME \A s \in Transcripts : uploaded[s] > 0 => uploaded'[s] > 0,
             \A g \in Hooks : hook'[g] # IdleHook => hook[g] # IdleHook /\ hook'[g].seen = hook[g].seen
      PROVE  ReadingsAreEarned'
  BY <1>2 DEF ReadingsAreEarned
<1>3. ASSUME \A s \in Transcripts : uploaded[s] > 0 => uploaded'[s] > 0,
             \A g \in Hooks : hook'[g] # IdleHook => hook[g] # IdleHook /\ hook'[g] = hook[g],
             \A g \in Hooks : hook'[g] # IdleHook => upload'[g] = upload[g]
      PROVE  BatchesAreDealtWith'
  BY <1>3 DEF BatchesAreDealtWith
<1>4. ASSUME NEW s \in Transcripts, Grow(s)
      PROVE  MarksAreEarned' /\ ReadingsAreEarned' /\ BatchesAreDealtWith'
  BY <1>1, <1>2, <1>3, <1>4 DEF Grow
<1>5. ASSUME NEW h \in Hooks, Scan(h)
      PROVE  MarksAreEarned' /\ ReadingsAreEarned' /\ BatchesAreDealtWith'
  <2>1. PICK batch : HookGoes(h, [at |-> "scanned", seen |-> sent, batch |-> batch])
    BY <1>5 DEF Scan
  <2>2. /\ hook'[h].at = "scanned" /\ hook'[h].seen = sent
        /\ \A g \in Hooks \ {h} : hook'[g] = hook[g]
    BY <2>1, HookGoesEffect
  <2>3. UNCHANGED <<sent, uploaded, upload>>
    BY <1>5 DEF Scan
  <2>4. ReadingsAreEarned'
    BY <2>2, <2>3 DEF ReadingsAreEarned, MarksAreEarned
  <2>5. BatchesAreDealtWith'
    BY <2>2, <2>3 DEF BatchesAreDealtWith
  <2> QED BY <1>1, <2>3, <2>4, <2>5
<1>6. ASSUME NEW h \in Hooks, Post(h)
      PROVE  MarksAreEarned' /\ ReadingsAreEarned' /\ BatchesAreDealtWith'
  <2>1. /\ hook[h] # IdleHook /\ hook[h].at = "scanned"
        /\ hook'[h] = [hook[h] EXCEPT !.at = "waiting"]
        /\ \A g \in Hooks \ {h} : hook'[g] = hook[g]
    BY <1>6, HookGoesEffect, RunsAreTyped DEF Post
  <2>2. /\ hook'[h].at = "waiting" /\ hook'[h].seen = hook[h].seen /\ hook'[h].batch = hook[h].batch
    BY <2>1, RunsAreTyped
  <2>3. /\ upload'[h].todo = hook[h].batch
        /\ \A g \in Hooks \ {h} : upload'[g] = upload[g]
        /\ UNCHANGED <<sent, uploaded>>
    BY <1>6, RunsAreTyped DEF Post, SessionUploadTypeOK
  <2>4. BatchesAreDealtWith'
    <3>1. \A g \in Hooks \ {h} : hook'[g] = hook[g] /\ upload'[g] = upload[g]
      BY <2>1, <2>3
    <3>2. /\ hook'[h].at # "answered"
          /\ \A s \in Transcripts : upload'[h].todo[s] = hook'[h].batch[s]
      BY <2>2, <2>3
    <3> QED BY <2>3, <3>1, <3>2 DEF BatchesAreDealtWith
  <2>5. ReadingsAreEarned'
    <3>1. \A g \in Hooks : hook'[g] # IdleHook => hook[g] # IdleHook /\ hook'[g].seen = hook[g].seen
      BY <2>1, <2>2
    <3>2. UNCHANGED <<sent, uploaded>>
      BY <2>3
    <3>3. \A s \in Transcripts : uploaded[s] > 0 => uploaded'[s] > 0
      BY <3>2
    <3> QED BY <1>2, <3>1, <3>3
  <2> QED BY <1>1, <2>3, <2>4, <2>5
<1>7. ASSUME NEW h \in Hooks, NEW s \in Transcripts, LookUp(h, s)
      PROVE  MarksAreEarned' /\ ReadingsAreEarned' /\ BatchesAreDealtWith'
  <2>1. UNCHANGED <<sent, uploaded, hook>>
    BY <1>7 DEF LookUp
  <2>2. \A t \in Transcripts : upload[h].storing # t
    BY <1>7, SessionUploadAssumption DEF LookUp, SessionUploadAssumption
  <2>3. \A t \in Transcripts \ {s} : upload'[h].todo[t] = upload[h].todo[t]
    BY <1>7, LookUpEffect
  <2>4. Known(s) \/ upload[h].todo[s] < MinFit \/ upload'[h].storing = s
    BY <1>7, LookUpEffect
  <2>5. \A g \in Hooks \ {h} : upload'[g] = upload[g]
    BY <1>7, LookUpEffect
  <2>6. upload[h].todo[s] \in Nat /\ (hook[h] # IdleHook => hook[h].batch[s] \in Nat)
    BY RunsAreTyped, SessionUploadAssumption DEF Marks, Versions, SessionUploadAssumption
  <2>7. ASSUME hook[h] # IdleHook, hook[h].at = "waiting", NEW t \in Transcripts,
               Kept(t, hook[h].batch[t])
        PROVE  uploaded[t] > 0 \/ upload'[h].todo[t] = hook[h].batch[t] \/ upload'[h].storing = t
    <3>1. uploaded[t] > 0 \/ upload[h].todo[t] = hook[h].batch[t]
      BY <2>2, <2>7 DEF BatchesAreDealtWith
    <3>2. CASE t # s
      BY <2>3, <3>1, <3>2
    <3>3. CASE t = s
      BY <2>4, <2>6, <2>7, <3>1, <3>3, SessionUploadAssumption DEF Known, SessionUploadAssumption
    <3> QED BY <3>2, <3>3
  <2>8. BatchesAreDealtWith'
    BY <2>1, <2>5, <2>7 DEF BatchesAreDealtWith
  <2> QED BY <1>1, <1>2, <2>1, <2>8
<1>8. ASSUME NEW h \in Hooks, StoreSession(h)
      PROVE  MarksAreEarned' /\ ReadingsAreEarned' /\ BatchesAreDealtWith'
  <2>1. PICK s \in Transcripts : s = upload[h].storing
    BY <1>8, RunsAreTyped DEF StoreSession
  <2>2. /\ \A t \in Transcripts : uploaded[t] > 0 => uploaded'[t] > 0
        /\ uploaded'[s] > 0
        /\ UNCHANGED <<sent, hook>>
    BY <1>8, <2>1 DEF StoreSession, SessionUploadTypeOK
  <2>3. /\ upload'[h].todo = upload[h].todo
        /\ \A g \in Hooks \ {h} : upload'[g] = upload[g]
    BY <1>8, RunsAreTyped DEF StoreSession, SessionUploadTypeOK
  <2>4. BatchesAreDealtWith'
    BY <2>1, <2>2, <2>3 DEF BatchesAreDealtWith
  <2> QED BY <1>1, <1>2, <2>2, <2>4
<1>9. ASSUME NEW h \in Hooks, Answer(h)
      PROVE  MarksAreEarned' /\ ReadingsAreEarned' /\ BatchesAreDealtWith'
  <2>1. /\ hook[h] # IdleHook /\ hook[h].at = "waiting" /\ upload[h] = NoUpload
        /\ hook'[h] = [hook[h] EXCEPT !.at = "answered"]
        /\ \A g \in Hooks \ {h} : hook'[g] = hook[g]
        /\ UNCHANGED <<sent, uploaded, upload>>
    BY <1>9, HookGoesEffect, RunsAreTyped DEF Answer, Over
  <2>2. /\ hook'[h].at = "answered" /\ hook'[h].seen = hook[h].seen /\ hook'[h].batch = hook[h].batch
    BY <2>1, RunsAreTyped
  <2>3. \A s \in Transcripts : upload[h].todo[s] = 0 /\ upload[h].storing # s
    BY <2>1, NothingIsTyped, SessionUploadAssumption DEF NoUpload, SessionUploadAssumption
  <2>4. \A s \in Transcripts : Kept(s, hook[h].batch[s]) => uploaded[s] > 0
    BY <2>1, <2>3 DEF BatchesAreDealtWith
  <2>5. BatchesAreDealtWith'
    <3>1. \A g \in Hooks \ {h} : hook'[g] = hook[g] /\ upload'[g] = upload[g]
      BY <2>1
    <3>2. /\ hook'[h].at # "waiting"
          /\ \A s \in Transcripts : Kept(s, hook'[h].batch[s]) => uploaded'[s] > 0
      BY <2>1, <2>2, <2>4
    <3>3. \A g \in Hooks \ {h} : hook'[g] # IdleHook =>
             /\ hook'[g].at = "waiting" =>
                   \A s \in Transcripts : Kept(s, hook'[g].batch[s]) =>
                      \/ uploaded'[s] > 0
                      \/ upload'[g].todo[s] = hook'[g].batch[s]
                      \/ upload'[g].storing = s
             /\ hook'[g].at = "answered" =>
                   \A s \in Transcripts : Kept(s, hook'[g].batch[s]) => uploaded'[s] > 0
      <4> HIDE DEF Kept
      <4> QED BY <2>1, <3>1 DEF BatchesAreDealtWith
    <3> QED BY <3>2, <3>3 DEF BatchesAreDealtWith
  <2>6. ReadingsAreEarned'
    <3>1. \A g \in Hooks : hook'[g] # IdleHook => hook[g] # IdleHook /\ hook'[g].seen = hook[g].seen
      BY <2>1, <2>2
    <3>2. \A s \in Transcripts : uploaded[s] > 0 => uploaded'[s] > 0
      BY <2>1
    <3> QED BY <1>2, <3>1, <3>2
  <2> QED BY <1>1, <2>1, <2>5, <2>6
<1>10. ASSUME NEW h \in Hooks, GiveUp(h) \/ Refused(h) \/ WriteState(h) \/ KillHook(h)
       PROVE  MarksAreEarned' /\ ReadingsAreEarned' /\ BatchesAreDealtWith'
  <2>1. /\ hook[h] # IdleHook /\ hook'[h] = IdleHook
        /\ \A g \in Hooks \ {h} : hook'[g] = hook[g]
        /\ UNCHANGED uploaded
    BY <1>10, HookGoesEffect, RunsAreTyped DEF GiveUp, Refused, WriteState, KillHook
  <2>2. \A g \in Hooks \ {h} : upload'[g] = upload[g]
    BY <1>10 DEF GiveUp, Refused, WriteState, KillHook, SessionUploadTypeOK
  <2>3. MarksAreEarned'
    <3>1. CASE WriteState(h)
      BY <2>1, <3>1 DEF WriteState, MarksAreEarned, ReadingsAreEarned, BatchesAreDealtWith
    <3>2. CASE Refused(h)
      BY <2>1, <3>2 DEF Refused, MarksAreEarned, ReadingsAreEarned
    <3>3. CASE GiveUp(h) \/ KillHook(h)
      BY <1>1, <2>1, <3>3 DEF GiveUp, KillHook
    <3> QED BY <1>10, <3>1, <3>2, <3>3
  <2> QED BY <1>2, <1>3, <2>1, <2>2, <2>3
<1>11. CASE KillUploadServer
  <2>1. \A h \in Hooks : hook'[h] # IdleHook => upload[h] = NoUpload /\ hook'[h] = hook[h] /\ upload'[h] = NoUpload
    BY <1>11 DEF KillUploadServer
  <2> QED BY <1>1, <1>2, <1>3, <1>11, <2>1 DEF KillUploadServer
<1>12. CASE UNCHANGED uploadVars
  BY <1>1, <1>2, <1>3, <1>12 DEF uploadVars
<1> QED BY <1>4, <1>5, <1>6, <1>7, <1>8, <1>9, <1>10, <1>11, <1>12 DEF SessionUploadNext

\* Every step of an upload keeps the requests apart.
LEMMA RequestsAloneStep ==
  ASSUME SessionUploadTypeOK, RequestsAreAlone, RepeatsAreSkipped, [SessionUploadNext]_uploadVars
  PROVE  RequestsAreAlone' /\ RepeatsAreSkipped'
<1>1. ASSUME NEW h \in Hooks, Post(h) PROVE RequestsAreAlone' /\ RepeatsAreSkipped'
  <2>1. /\ upload'[h].todo = hook[h].batch /\ upload'[h].storing = upload[h].storing
        /\ \A g \in Hooks \ {h} : upload'[g] = upload[g]
        /\ UNCHANGED uploaded
        /\ raced' = raced \cup (In(hook[h].batch) \cap InRequests(h))
    BY <1>1, RunsAreTyped DEF Post, SessionUploadTypeOK
  <2>2. ASSUME NEW s \in Transcripts \ raced', Carries(h, s)', NEW g \in Hooks \ {h}, Carries(g, s)'
        PROVE  FALSE
    <3>1. Carries(g, s)
      BY <2>1, <2>2 DEF Carries
    <3>2. s \in InRequests(h)
      BY <3>1 DEF Carries, InRequests, In
    <3>3. s \notin In(hook[h].batch) /\ s \notin raced
      BY <2>1, <2>2, <3>2
    <3>4. Carries(h, s)
      BY <2>1, <2>2, <3>3 DEF Carries, In
    <3> QED BY <3>1, <3>3, <3>4 DEF RequestsAreAlone
  <2>3. \A s \in Transcripts \ raced' : \A g, k \in Hooks : Carries(g, s)' /\ Carries(k, s)' => g = k
    <3> SUFFICES ASSUME NEW s \in Transcripts \ raced', NEW g \in Hooks, NEW k \in Hooks,
                        Carries(g, s)', Carries(k, s)', g # k
                 PROVE  FALSE
      OBVIOUS
    <3>1. CASE g = h \/ k = h
      BY <2>2, <3>1
    <3>2. CASE g # h /\ k # h
      <4>1. Carries(g, s) /\ Carries(k, s) /\ s \notin raced
        BY <2>1, <3>2 DEF Carries
      <4> QED BY <4>1 DEF RequestsAreAlone
    <3> QED BY <3>1, <3>2
  <2>4. \A s \in Transcripts \ raced' : \A g \in Hooks : upload'[g].storing = s => uploaded'[s] = 0
    BY <2>1 DEF RequestsAreAlone
  <2> QED BY <2>1, <2>3, <2>4 DEF RequestsAreAlone, RepeatsAreSkipped
<1>2. ASSUME NEW h \in Hooks, NEW s \in Transcripts, LookUp(h, s)
      PROVE  RequestsAreAlone' /\ RepeatsAreSkipped'
  <2>1. UNCHANGED <<raced, uploaded>>
    BY <1>2 DEF LookUp
  <2>2. \A g \in Hooks \ {h} : upload'[g] = upload[g]
    BY <1>2, LookUpEffect
  <2>3. ASSUME NEW t \in Transcripts PROVE Carries(h, t)' => Carries(h, t)
    <3>1. upload'[h].storing \in {"none", s} /\ upload[h].todo[s] > 0 /\ ~(upload'[h].todo[s] > 0)
      BY <1>2, LookUpEffect
    <3>2. t # s => upload'[h].todo[t] = upload[h].todo[t]
      BY <1>2, LookUpEffect
    <3> QED BY <3>1, <3>2, SessionUploadAssumption DEF Carries, SessionUploadAssumption
  <2>4. ASSUME NEW t \in Transcripts, upload'[h].storing = t PROVE uploaded[t] = 0
    <3>1. t = s /\ ~Known(s)
      BY <1>2, <2>4, LookUpEffect, SessionUploadAssumption DEF SessionUploadAssumption
    <3> QED BY <3>1 DEF Known, SessionUploadTypeOK
  <2>5. \A g \in Hooks : \A t \in Transcripts :
            /\ Carries(g, t)' => Carries(g, t)
            /\ upload'[g].storing = t => upload[g].storing = t \/ uploaded[t] = 0
    BY <2>2, <2>3, <2>4 DEF Carries
  <2> QED BY <2>1, <2>5, CarriersShrink DEF RepeatsAreSkipped
<1>3. ASSUME NEW h \in Hooks, StoreSession(h) PROVE RequestsAreAlone' /\ RepeatsAreSkipped'
  <2>1. PICK s \in Transcripts : s = upload[h].storing
    BY <1>3, RunsAreTyped DEF StoreSession
  <2>2. /\ upload'[h].todo = upload[h].todo /\ upload'[h].storing = "none"
        /\ \A g \in Hooks \ {h} : upload'[g] = upload[g]
        /\ uploaded'[s] = uploaded[s] + 1
        /\ \A t \in Transcripts \ {s} : uploaded'[t] = uploaded[t]
        /\ UNCHANGED raced
    BY <1>3, <2>1, RunsAreTyped DEF StoreSession, SessionUploadTypeOK
  <2>3. \A g \in Hooks : \A t \in Transcripts : Carries(g, t)' => Carries(g, t)
    BY <2>2, SessionUploadAssumption DEF Carries, SessionUploadAssumption
  <2>4. s \notin raced => uploaded[s] = 0 /\ \A g \in Hooks \ {h} : upload[g].storing # s
    BY <2>1 DEF RequestsAreAlone, Carries
  <2>5. \A t \in Transcripts \ raced : \A g \in Hooks : upload'[g].storing = t => uploaded'[t] = 0
    BY <2>2, <2>4, SessionUploadAssumption DEF RequestsAreAlone, SessionUploadAssumption
  <2>6. RepeatsAreSkipped'
    BY <2>2, <2>4 DEF RepeatsAreSkipped
  <2>7. RequestsAreAlone'
    BY <2>2, <2>3, <2>5 DEF RequestsAreAlone
  <2> QED BY <2>6, <2>7
<1>4. ASSUME NEW h \in Hooks, GiveUp(h) \/ Refused(h) PROVE RequestsAreAlone' /\ RepeatsAreSkipped'
  <2>1. /\ UNCHANGED <<raced, uploaded>>
        /\ \A g \in Hooks \ {h} : upload'[g] = upload[g]
        /\ upload'[h] = upload[h] \/ upload'[h] = NoUpload
    BY <1>4 DEF GiveUp, Refused, SessionUploadTypeOK
  <2>2. \A g \in Hooks : \A s \in Transcripts :
            /\ Carries(g, s)' => Carries(g, s)
            /\ upload'[g].storing = s => upload[g].storing = s
    BY <2>1, ResetCarriesNothing DEF Carries
  <2> QED BY <2>1, <2>2, CarriersShrink DEF RepeatsAreSkipped
<1>5. CASE KillUploadServer
  <2>1. UNCHANGED <<raced, uploaded>> /\ \A h \in Hooks : upload'[h] = NoUpload
    BY <1>5 DEF KillUploadServer
  <2>2. \A h \in Hooks : \A s \in Transcripts : ~Carries(h, s)' /\ upload'[h].storing # s
    BY <2>1, ResetCarriesNothing
  <2> QED BY <2>1, <2>2, CarriersShrink DEF RepeatsAreSkipped
<1>6. ASSUME UNCHANGED <<raced, uploaded, upload>> PROVE RequestsAreAlone' /\ RepeatsAreSkipped'
  BY <1>6, CarriersShrink DEF RepeatsAreSkipped, Carries
<1>7. ASSUME NEW s \in Transcripts, Grow(s) PROVE RequestsAreAlone' /\ RepeatsAreSkipped'
  BY <1>6, <1>7 DEF Grow
<1>8. ASSUME NEW h \in Hooks, Scan(h) \/ Answer(h) \/ WriteState(h) \/ KillHook(h)
      PROVE  RequestsAreAlone' /\ RepeatsAreSkipped'
  BY <1>6, <1>8 DEF Scan, Answer, WriteState, KillHook
<1>9. CASE UNCHANGED uploadVars
  BY <1>6, <1>9 DEF uploadVars
<1> QED BY <1>1, <1>2, <1>3, <1>4, <1>5, <1>7, <1>8, <1>9 DEF SessionUploadNext

\* The variables of the uploads keep their types, and the invariants above hold.
THEOREM UploadsAreSound == SessionUploadSpec => [](SessionUploadTypeOK /\ UploadInv)
<1>1. SessionUploadInit => SessionUploadTypeOK /\ UploadInv
  <2> SUFFICES ASSUME SessionUploadInit PROVE SessionUploadTypeOK /\ UploadInv
    OBVIOUS
  <2> USE NothingIsTyped DEF SessionUploadInit
  <2>1. SessionUploadTypeOK
    BY DEF SessionUploadTypeOK, Nothing
  <2>2. MarksAreEarned /\ ReadingsAreEarned /\ BatchesAreDealtWith /\ RepeatsAreSkipped
    BY DEF MarksAreEarned, ReadingsAreEarned, BatchesAreDealtWith, RepeatsAreSkipped
  <2>3. RequestsAreAlone
    <3>1. \A h \in Hooks : upload[h].todo = Nothing /\ upload[h].storing = "none"
      BY DEF NoUpload
    <3>2. \A s \in Transcripts : \A h \in Hooks : ~Carries(h, s) /\ upload[h].storing # s
      BY <3>1, SessionUploadAssumption DEF Carries, SessionUploadAssumption
    <3> QED BY <3>2 DEF RequestsAreAlone
  <2> QED BY <2>1, <2>2, <2>3 DEF UploadInv
<1>2. SessionUploadTypeOK /\ UploadInv /\ [SessionUploadNext]_uploadVars
        => (SessionUploadTypeOK /\ UploadInv)'
  BY UploadTypesStep, MarksStep, RequestsAloneStep DEF UploadInv
<1> QED BY <1>1, <1>2, PTL DEF SessionUploadSpec

\* Nothing is marked as sent and lost, over lost answers, overlapping hooks and kills.
THEOREM MarksStayEarned == SessionUploadSpec => []MarksAreEarned
<1>1. UploadInv => MarksAreEarned
  BY DEF UploadInv
<1> QED BY <1>1, UploadsAreSound, PTL

\* A session posted again is stored once, unless two requests carried it at a time.
THEOREM RepeatsStaySkipped == SessionUploadSpec => []RepeatsAreSkipped
<1>1. UploadInv => RepeatsAreSkipped
  BY DEF UploadInv
<1> QED BY <1>1, UploadsAreSound, PTL
-----------------------------------------------------------------------------
(* Projects: what a step does to the rows *)

ProjectRowsTyped ==
    /\ project \in [Projects -> ProjectRows \cup {NoProject}]
    /\ lastProject \in 0..MaxProjects
    /\ unfoldered \subseteq Projects

\* The rows change so that what could be filed under a project still can.
MovesOn ==
    /\ ProjectRowsTyped'
    /\ RowsAreKnown'
    /\ unfoldered \subseteq unfoldered'
    /\ \A n \in Projects : \A f \in Folders : Suits(n, f) => Suits(n, f)'

\* Suits and Grouped after a step, of values that the step may change.
WillSuit(n, f) ==
    /\ n <= lastProject'
    /\ n \in unfoldered' \/ (project'[n] # NoProject => project'[n].cwd = f)

WillBeGrouped(groups) ==
    \A f \in Folders : \A s \in groups[f] :
        s <= lastFiled' /\ (session'[s] # NoSession => session'[s].folder = f)

\* What the rows are.
LEMMA RowsAreTyped ==
  ASSUME ProjectsTypeOK, NEW n \in Projects
  PROVE  /\ ProjectRowsTyped
         /\ There(n) => /\ project[n] \in ProjectRows
                        /\ project[n].slug \in Slugs
                        /\ project[n].cwd \in Folders \cup {"null"}
         /\ project[n].slug \in Slugs => There(n)
<1>1. project[n] \in ProjectRows \cup {NoProject}
  BY DEF ProjectsTypeOK
<1>2. NoProject.slug \notin Slugs
  BY ProjectsAssumption DEF ProjectsAssumption, NoProject, Slugs
<1> QED BY <1>1, <1>2 DEF ProjectsTypeOK, ProjectRowsTyped, There, ProjectRows

\* Nothing happens to the rows.
LEMMA SameMovesOn ==
  ASSUME ProjectsTypeOK, RowsAreKnown, SameProjects
  PROVE  MovesOn /\ \A n \in Projects : There(n) => There(n)'
BY DEF ProjectsTypeOK, ProjectRowsTyped, RowsAreKnown, SameProjects, MovesOn, Suits, There

\* A row is made.
LEMMA InsertMovesOn ==
  ASSUME ProjectsTypeOK, RowsAreKnown, NEW slug \in Slugs, NEW cwd \in Folders \cup {"null"},
         Insert(slug, cwd)
  PROVE  /\ MovesOn
         /\ \A n \in Projects : There(n) => There(n)'
         /\ lastProject + 1 \in Projects
         /\ \A n \in Projects : n = lastProject + 1 /\ cwd # "null" => Suits(n, cwd)'
<1>1. PICK new : new = lastProject + 1
  OBVIOUS
<1>2. new \in Projects /\ lastProject' = new /\ new \in 0..MaxProjects /\ lastProject \in Nat /\ new \in Nat
  BY <1>1, ProjectsAssumption DEF ProjectsAssumption, Insert, ProjectsTypeOK, Projects
<1>3. PICK row : row = [slug |-> slug, cwd |-> cwd]
  OBVIOUS
<1>4. row \in ProjectRows /\ row # NoProject /\ row.cwd = cwd
  <2>1. NoProject.slug \notin Slugs
    BY ProjectsAssumption DEF ProjectsAssumption, NoProject, Slugs
  <2> QED BY <1>3, <2>1 DEF ProjectRows
<1>5. project' = [project EXCEPT ![new] = row]
  BY <1>1, <1>3 DEF Insert
<1>6. /\ project'[new] = row
      /\ \A n \in Projects \ {new} : project'[n] = project[n]
      /\ project' \in [Projects -> ProjectRows \cup {NoProject}]
  BY <1>2, <1>4, <1>5 DEF ProjectsTypeOK
<1>7. unfoldered' = IF cwd = "null" THEN unfoldered \cup {new} ELSE unfoldered
  BY <1>1 DEF Insert
<1>8. ProjectRowsTyped'
  BY <1>2, <1>6, <1>7 DEF ProjectRowsTyped, ProjectsTypeOK
<1>9. \A n \in Projects : There(n) => n # new /\ There(n)'
  BY <1>1, <1>2, <1>6 DEF RowsAreKnown, There
<1>10. \A n \in Projects : n <= lastProject => n # new /\ n <= lastProject'
  BY <1>1, <1>2 DEF Projects
<1>11. RowsAreKnown'
  <2>1. ASSUME NEW n \in Projects, There(n)'
        PROVE  n <= lastProject' /\ (n \in unfoldered' \/ project'[n].cwd # "null")
    <3>1. CASE n = new
      BY <1>2, <1>4, <1>6, <1>7, <3>1
    <3>2. CASE n # new
      BY <1>6, <1>7, <1>10, <2>1, <3>2 DEF RowsAreKnown, There
    <3> QED BY <3>1, <3>2
  <2>2. \A n \in unfoldered' : n <= lastProject'
    BY <1>2, <1>7, <1>10 DEF RowsAreKnown, ProjectsTypeOK
  <2> QED BY <2>1, <2>2 DEF RowsAreKnown
<1>12. \A n \in Projects : \A f \in Folders : Suits(n, f) => Suits(n, f)'
  BY <1>6, <1>7, <1>10 DEF Suits, There
<1>13. cwd # "null" => Suits(new, cwd)'
  BY <1>2, <1>4, <1>6 DEF Suits
<1> QED BY <1>1, <1>2, <1>7, <1>8, <1>9, <1>11, <1>12, <1>13 DEF MovesOn

\* A project that was made without a folder gets one.
LEMMA StampMovesOn ==
  ASSUME ProjectsTypeOK, RowsAreKnown, NEW n \in unfoldered, There(n), NEW f \in Folders, Stamp(n, f)
  PROVE  MovesOn /\ \A m \in Projects : There(m) => There(m)'
<1>1. n \in Projects
  BY DEF ProjectsTypeOK
<1>2. project[n] \in ProjectRows /\ project[n].slug \in Slugs
  BY <1>1, RowsAreTyped
<1>3. PICK row : row = [project[n] EXCEPT !.cwd = f]
  OBVIOUS
<1>4. row \in ProjectRows /\ row # NoProject
  <2>1. row \in ProjectRows /\ row.slug \in Slugs
    BY <1>2, <1>3 DEF ProjectRows
  <2>2. NoProject.slug \notin Slugs
    BY ProjectsAssumption DEF ProjectsAssumption, NoProject, Slugs
  <2> QED BY <2>1, <2>2
<1>5. project' = [project EXCEPT ![n] = row]
  BY <1>3 DEF Stamp
<1>6. /\ project'[n] = row
      /\ \A m \in Projects \ {n} : project'[m] = project[m]
      /\ project' \in [Projects -> ProjectRows \cup {NoProject}]
      /\ UNCHANGED <<lastProject, unfoldered>>
  BY <1>1, <1>4, <1>5 DEF ProjectsTypeOK, Stamp
<1>7. ProjectRowsTyped'
  BY <1>6 DEF ProjectRowsTyped, ProjectsTypeOK
<1>8. RowsAreKnown' /\ \A m \in Projects : There(m) => There(m)'
  BY <1>4, <1>6 DEF RowsAreKnown, There
<1>9. \A m \in Projects : \A g \in Folders : Suits(m, g) => Suits(m, g)'
  BY <1>6 DEF Suits, There
<1> QED BY <1>6, <1>7, <1>8, <1>9 DEF MovesOn

\* A row is deleted.
LEMMA DeleteMovesOn ==
  ASSUME ProjectsTypeOK, RowsAreKnown, NEW n \in Projects, DeleteByHand(n)
  PROVE  MovesOn /\ \A m \in Projects \ {n} : There(m) => There(m)'
<1>1. /\ project'[n] = NoProject
      /\ \A m \in Projects \ {n} : project'[m] = project[m]
      /\ project' \in [Projects -> ProjectRows \cup {NoProject}]
      /\ UNCHANGED <<lastProject, unfoldered>>
  BY DEF DeleteByHand, ProjectsTypeOK
<1>2. ProjectRowsTyped'
  BY <1>1 DEF ProjectRowsTyped, ProjectsTypeOK
<1>3. RowsAreKnown' /\ \A m \in Projects \ {n} : There(m) => There(m)'
  BY <1>1 DEF RowsAreKnown, There
<1>4. \A m \in Projects : \A f \in Folders : Suits(m, f) => Suits(m, f)'
  BY <1>1 DEF Suits, There
<1> QED BY <1>1, <1>2, <1>3, <1>4 DEF MovesOn

-----------------------------------------------------------------------------
(* Projects: what a step does to the sessions, the tasks and the backfill *)

SessionsTyped ==
    /\ session \in [Sessions -> [folder : Folders, project : Projects] \cup {NoSession}]
    /\ lastFiled \in 0..MaxFiled

\* A session that is there has a folder and a project, which suit each other.
LEMMA SessionsSuit ==
  ASSUME ProjectsTypeOK, RowsAreKnown, SessionsHaveProjects, FoldersStayApart,
         NEW s \in Sessions, session[s] # NoSession
  PROVE  /\ session[s] \in [folder : Folders, project : Projects]
         /\ session[s].folder \in Folders /\ session[s].project \in Projects
         /\ There(session[s].project)
         /\ Suits(session[s].project, session[s].folder)
<1>1. /\ session[s] \in [folder : Folders, project : Projects]
      /\ session[s].folder \in Folders /\ session[s].project \in Projects
  BY DEF ProjectsTypeOK
<1>2. There(session[s].project)
  BY DEF SessionsHaveProjects
<1> QED BY <1>1, <1>2 DEF RowsAreKnown, FoldersStayApart, Suits

\* Sessions stay, or go with their project.
LEMMA SessionsStay ==
  ASSUME ProjectsTypeOK, ProjectsInv, MovesOn, SessionsTyped', UNCHANGED lastFiled,
         \A s \in Sessions : session'[s] # NoSession =>
            session'[s] = session[s] /\ There(session[s].project)'
  PROVE  SessionsHaveProjects' /\ FoldersStayApart'
<1> SUFFICES ASSUME NEW s \in Sessions, session'[s] # NoSession
             PROVE  /\ s <= lastFiled' /\ project'[session'[s].project] # NoProject
                    /\ session'[s].project \notin unfoldered'
                          => project'[session'[s].project].cwd = session'[s].folder
  BY DEF SessionsHaveProjects, FoldersStayApart, There
<1>1. session'[s] = session[s] /\ There(session[s].project)'
  OBVIOUS
<1>2. PICK n \in Projects, f \in Folders : n = session[s].project /\ f = session[s].folder
  BY <1>1, SessionsSuit DEF ProjectsInv
<1>3. Suits(n, f)
  BY <1>1, <1>2, SessionsSuit DEF ProjectsInv
<1>4. Suits(n, f)'
  BY <1>3 DEF MovesOn
<1>5. s <= lastFiled'
  BY <1>1 DEF ProjectsInv, SessionsHaveProjects
<1>6. There(n)' /\ session'[s].project = n /\ session'[s].folder = f
  BY <1>1, <1>2
<1> QED BY <1>4, <1>5, <1>6 DEF Suits, There
\* A session is filed under a project that suits it.
LEMMA FiledSuits ==
  ASSUME ProjectsTypeOK, ProjectsInv, SameProjects,
         NEW n \in Projects, NEW f \in Folders, There(n), Suits(n, f),
         lastFiled < MaxFiled, lastFiled' = lastFiled + 1,
         session' = [session EXCEPT ![lastFiled + 1] = [folder |-> f, project |-> n]]
  PROVE  SessionsTyped' /\ SessionsHaveProjects' /\ FoldersStayApart'
<1>1. PICK new : new = lastFiled + 1
  OBVIOUS
<1>2. /\ new \in Sessions /\ lastFiled' = new /\ lastFiled' \in 0..MaxFiled
      /\ \A s \in Sessions : s <= lastFiled => s <= lastFiled'
  BY <1>1, ProjectsAssumption DEF ProjectsAssumption, ProjectsTypeOK, Sessions
<1>3. PICK row : row = [folder |-> f, project |-> n]
  OBVIOUS
<1>4. row \in [folder : Folders, project : Projects] /\ row.folder = f /\ row.project = n
  BY <1>3
<1>5. session' = [session EXCEPT ![new] = row]
  BY <1>1, <1>3
<1>6. /\ session'[new] = row
      /\ \A s \in Sessions \ {new} : session'[s] = session[s]
  BY <1>2, <1>5 DEF ProjectsTypeOK
<1>7. SessionsTyped'
  BY <1>2, <1>4, <1>5 DEF SessionsTyped, ProjectsTypeOK
<1>8. \A m \in Projects : There(m) => There(m)'
  BY DEF SameProjects, There
<1>9. SessionsHaveProjects'
  <2>1. There(n)' /\ new <= lastFiled'
    BY <1>2, <1>8, ProjectsAssumption DEF Sessions, ProjectsAssumption
  <2>2. ASSUME NEW s \in Sessions \ {new}, session'[s] # NoSession
        PROVE  s <= lastFiled' /\ project'[session'[s].project] # NoProject
    BY <1>2, <1>6, <2>2 DEF SameProjects, There, ProjectsInv, SessionsHaveProjects
  <2> QED BY <1>4, <1>6, <2>1, <2>2 DEF SessionsHaveProjects, There
<1>10. FoldersStayApart'
  BY <1>4, <1>6 DEF SameProjects, There, Suits, ProjectsInv, FoldersStayApart
<1> QED BY <1>7, <1>9, <1>10

\* A task goes on to what suits it.
LEMMA TaskGoesOn ==
  ASSUME ProjectsTypeOK, ProjectsInv, MovesOn,
         NEW t \in Tasks, NEW st \in TaskStates, TaskGoes(t, st),
         st.at = "claiming" => st.project \in unfoldered',
         st.at = "found" =>
            \E n \in Projects : \E f \in Folders : n = st.project /\ f = st.folder /\ Suits(n, f)'
  PROVE  task' \in [Tasks -> TaskStates] /\ TasksSuit'
<1>1. /\ task' \in [Tasks -> TaskStates]
      /\ task'[t] = st
      /\ \A u \in Tasks \ {t} : task'[u] = task[u]
  BY DEF TaskGoes, ProjectsTypeOK
<1>2. /\ task'[t].at = "claiming" => task'[t].project \in unfoldered'
      /\ task'[t].at = "found" => WillSuit(task'[t].project, task'[t].folder)
  BY <1>1 DEF Suits, WillSuit, There
<1>3. ASSUME NEW u \in Tasks \ {t}
      PROVE  /\ task'[u].at = "claiming" => task'[u].project \in unfoldered'
             /\ task'[u].at = "found" => WillSuit(task'[u].project, task'[u].folder)
  <2>1. task'[u] = task[u] /\ task[u] \in TaskStates
    BY <1>1 DEF ProjectsTypeOK
  <2>2. task[u].at = "claiming" => task[u].project \in unfoldered'
    BY DEF ProjectsInv, TasksSuit, MovesOn
  <2>3. ASSUME task[u].at = "found"
        PROVE  WillSuit(task'[u].project, task'[u].folder)
    <3>1. PICK n \in Projects, f \in Folders : n = task[u].project /\ f = task[u].folder
      BY <2>1, <2>3 DEF TaskStates, Idle
    <3>2. Suits(n, f)
      BY <2>3, <3>1 DEF ProjectsInv, TasksSuit
    <3>3. Suits(n, f)'
      BY <3>2 DEF MovesOn
    <3> QED BY <2>1, <3>1, <3>3 DEF Suits, WillSuit, There
  <2> QED BY <2>1, <2>2, <2>3
<1> QED BY <1>1, <1>2, <1>3 DEF TasksSuit, Suits, WillSuit, There

\* No task moves.
LEMMA TasksStand ==
  ASSUME ProjectsTypeOK, ProjectsInv, MovesOn, UNCHANGED task
  PROVE  task' \in [Tasks -> TaskStates] /\ TasksSuit'
<1> SUFFICES ASSUME NEW u \in Tasks
             PROVE  /\ task'[u].at = "claiming" => task'[u].project \in unfoldered'
                    /\ task'[u].at = "found" => WillSuit(task'[u].project, task'[u].folder)
  BY DEF TasksSuit, ProjectsTypeOK, Suits, WillSuit, There
<1>1. task'[u] = task[u] /\ task[u] \in TaskStates
  BY DEF ProjectsTypeOK
<1>2. task[u].at = "claiming" => task[u].project \in unfoldered'
  BY DEF ProjectsInv, TasksSuit, MovesOn
<1>3. ASSUME task[u].at = "found"
      PROVE  WillSuit(task'[u].project, task'[u].folder)
  <2>1. PICK n \in Projects, f \in Folders : n = task[u].project /\ f = task[u].folder
    BY <1>1, <1>3 DEF TaskStates, Idle
  <2>2. Suits(n, f)
    BY <1>3, <2>1 DEF ProjectsInv, TasksSuit
  <2>3. Suits(n, f)'
    BY <2>2 DEF MovesOn
  <2> QED BY <1>1, <2>1, <2>3 DEF Suits, WillSuit, There
<1> QED BY <1>1, <1>2, <1>3

\* What the backfill keeps, from state to state.
LEMMA BackfillIsTyped ==
  ASSUME ProjectsTypeOK, backfill # Idle
  PROVE  /\ backfill.at \in {"listed", "grouped", "splitting", "unowned", "missing", "moving"}
         /\ backfill.todo \in SUBSET Projects
         /\ backfill.at # "listed" =>
               /\ backfill.project \in Projects /\ backfill.main \in Folders
               /\ backfill.groups \in [Folders -> SUBSET Sessions]
         /\ backfill.at \in {"unowned", "missing", "moving"} => backfill.folder \in Folders
         /\ backfill.at = "missing" => backfill.slug \in Slugs
         /\ backfill.at = "moving" => backfill.target \in Projects
BY DEF ProjectsTypeOK, BackfillStates

\* A group stays one: the sessions in it are deleted or moved to other projects only.
LEMMA GroupsStay ==
  ASSUME NEW groups \in [Folders -> SUBSET Sessions], Grouped(groups),
         ProjectsTypeOK, lastFiled' \in Nat, lastFiled <= lastFiled',
         \A s \in Sessions : s <= lastFiled /\ session'[s] # NoSession =>
            session[s] # NoSession /\ session'[s].folder = session[s].folder
  PROVE  Grouped(groups)'
<1> SUFFICES ASSUME NEW f \in Folders, NEW s \in groups[f]
             PROVE  s <= lastFiled' /\ (session'[s] # NoSession => session'[s].folder = f)
  BY DEF Grouped
<1>1. s \in Sessions /\ s \in Int /\ lastFiled \in Int
  BY ProjectsAssumption DEF Sessions, ProjectsAssumption, ProjectsTypeOK
<1>2. s <= lastFiled /\ (session[s] # NoSession => session[s].folder = f)
  BY DEF Grouped
<1> QED BY <1>1, <1>2

\* The backfill does not move.
LEMMA BackfillStands ==
  ASSUME ProjectsTypeOK, ProjectsInv, MovesOn, UNCHANGED backfill,
         lastFiled' \in Nat, lastFiled <= lastFiled',
         \A s \in Sessions : s <= lastFiled /\ session'[s] # NoSession =>
            session[s] # NoSession /\ session'[s].folder = session[s].folder
  PROVE  backfill' \in BackfillStates /\ BackfillSuits'
<1>1. backfill' \in BackfillStates
  BY DEF ProjectsTypeOK
<1> SUFFICES ASSUME backfill # Idle
             PROVE  /\ backfill'.todo \subseteq unfoldered'
                    /\ backfill'.at # "listed" =>
                          backfill'.project \in unfoldered' /\ WillBeGrouped(backfill'.groups)
                    /\ backfill'.at = "moving" => WillSuit(backfill'.target, backfill'.folder)
  BY <1>1 DEF BackfillSuits, Suits, WillSuit, Grouped, WillBeGrouped, There
<1>2. backfill'.todo \subseteq unfoldered'
  BY DEF ProjectsInv, BackfillSuits, MovesOn
<1>3. ASSUME backfill.at # "listed"
      PROVE  backfill'.project \in unfoldered' /\ WillBeGrouped(backfill'.groups)
  <2>1. PICK groups \in [Folders -> SUBSET Sessions] : groups = backfill.groups
    BY <1>3, BackfillIsTyped
  <2>2. Grouped(groups) /\ backfill.project \in unfoldered
    BY <1>3, <2>1 DEF ProjectsInv, BackfillSuits
  <2>3. Grouped(groups)'
    BY <2>2, GroupsStay
  <2> QED BY <2>1, <2>2, <2>3 DEF MovesOn, Grouped, WillBeGrouped
<1>4. ASSUME backfill.at = "moving"
      PROVE  WillSuit(backfill'.target, backfill'.folder)
  <2>1. PICK n \in Projects, f \in Folders : n = backfill.target /\ f = backfill.folder
    BY <1>4, BackfillIsTyped
  <2>2. Suits(n, f)
    BY <1>4, <2>1 DEF ProjectsInv, BackfillSuits
  <2>3. Suits(n, f)'
    BY <2>2 DEF MovesOn
  <2> QED BY <2>1, <2>3 DEF Suits, WillSuit, There
<1> QED BY <1>2, <1>3, <1>4
\* The sessions do not move, and no project goes.
LEMMA FiledStay ==
  ASSUME ProjectsTypeOK, ProjectsInv, MovesOn, SameFiled,
         \A n \in Projects : There(n) => There(n)'
  PROVE  /\ SessionsTyped' /\ SessionsHaveProjects' /\ FoldersStayApart'
         /\ lastFiled' \in Nat /\ lastFiled <= lastFiled'
         /\ \A s \in Sessions : s <= lastFiled /\ session'[s] # NoSession =>
               session[s] # NoSession /\ session'[s].folder = session[s].folder
<1>1. SessionsTyped' /\ lastFiled' \in Nat /\ lastFiled <= lastFiled'
  BY ProjectsAssumption DEF ProjectsAssumption, ProjectsTypeOK, SessionsTyped, SameFiled
<1>2. ASSUME NEW s \in Sessions, session'[s] # NoSession
      PROVE  session'[s] = session[s] /\ project'[session'[s].project] # NoProject
  BY <1>2, SessionsSuit DEF ProjectsInv, SameFiled, There
<1>3. SessionsHaveProjects' /\ FoldersStayApart'
  BY <1>1, <1>2, SessionsStay DEF SameFiled, There
<1> QED BY <1>1, <1>2, <1>3 DEF SameFiled

\* The backfill goes on to what it may keep.
LEMMA BackfillGoesOn ==
  ASSUME NEW st \in BackfillStates, backfill' = st,
         st # Idle => st.todo \subseteq unfoldered',
         st # Idle /\ st.at # "listed" => st.project \in unfoldered' /\ WillBeGrouped(st.groups),
         st.at = "moving" => WillSuit(st.target, st.folder)
  PROVE  backfill' \in BackfillStates /\ BackfillSuits'
BY DEF BackfillSuits, Suits, WillSuit, Grouped, WillBeGrouped, There

\* The parts of the invariant after a step make up the whole.
LEMMA PartsMakeTheWhole ==
  ASSUME MovesOn, SessionsTyped', SessionsHaveProjects', FoldersStayApart',
         task' \in [Tasks -> TaskStates], TasksSuit',
         backfill' \in BackfillStates, BackfillSuits'
  PROVE  ProjectsTypeOK' /\ ProjectsInv'
BY DEF MovesOn, ProjectRowsTyped, SessionsTyped, ProjectsTypeOK, ProjectsInv

\* A step of a task that writes no row.
LEMMA TaskReads ==
  ASSUME ProjectsTypeOK, ProjectsInv, SameProjects, SameFiled, UNCHANGED backfill,
         NEW t \in Tasks, NEW st \in TaskStates, TaskGoes(t, st),
         st.at = "claiming" => st.project \in unfoldered,
         st.at = "found" =>
            \E n \in Projects : \E f \in Folders : n = st.project /\ f = st.folder /\ Suits(n, f)
  PROVE  ProjectsTypeOK' /\ ProjectsInv'
<1>1. MovesOn /\ \A n \in Projects : There(n) => There(n)'
  BY SameMovesOn DEF ProjectsInv
<1>2. /\ st.at = "claiming" => st.project \in unfoldered'
      /\ st.at = "found" =>
            \E n \in Projects : \E f \in Folders : n = st.project /\ f = st.folder /\ Suits(n, f)'
  BY <1>1 DEF MovesOn
<1>3. task' \in [Tasks -> TaskStates] /\ TasksSuit'
  BY <1>1, <1>2, TaskGoesOn
<1>4. backfill' \in BackfillStates /\ BackfillSuits'
  BY <1>1, FiledStay, BackfillStands
<1> QED BY <1>1, <1>3, <1>4, FiledStay, PartsMakeTheWhole

\* A step of a task that writes a row.
LEMMA TaskWrites ==
  ASSUME ProjectsTypeOK, ProjectsInv, MovesOn, SameFiled, UNCHANGED backfill,
         \A n \in Projects : There(n) => There(n)',
         NEW t \in Tasks, NEW st \in TaskStates, TaskGoes(t, st),
         st.at # "claiming",
         st.at = "found" =>
            \E n \in Projects : \E f \in Folders : n = st.project /\ f = st.folder /\ Suits(n, f)'
  PROVE  ProjectsTypeOK' /\ ProjectsInv'
<1>1. task' \in [Tasks -> TaskStates] /\ TasksSuit'
  BY TaskGoesOn
<1>2. backfill' \in BackfillStates /\ BackfillSuits'
  BY FiledStay, BackfillStands
<1> QED BY <1>1, <1>2, FiledStay, PartsMakeTheWhole

\* A step of the backfill that writes no row and no session.
LEMMA BackfillReads ==
  ASSUME ProjectsTypeOK, ProjectsInv, SameProjects, SameFiled, UNCHANGED task,
         NEW st \in BackfillStates, backfill' = st,
         st # Idle => st.todo \subseteq unfoldered,
         st # Idle /\ st.at # "listed" => st.project \in unfoldered /\ Grouped(st.groups),
         st.at = "moving" =>
            \E n \in Projects : \E f \in Folders : n = st.target /\ f = st.folder /\ Suits(n, f)
  PROVE  ProjectsTypeOK' /\ ProjectsInv'
<1>1. MovesOn /\ \A n \in Projects : There(n) => There(n)'
  BY SameMovesOn DEF ProjectsInv
<1>2. task' \in [Tasks -> TaskStates] /\ TasksSuit'
  BY <1>1, TasksStand
<1>3. /\ UNCHANGED <<session, lastFiled, project, lastProject, unfoldered>>
      /\ \A groups : Grouped(groups) => WillBeGrouped(groups)
      /\ \A n, f : Suits(n, f) => WillSuit(n, f)
  BY DEF SameProjects, SameFiled, Grouped, WillBeGrouped, Suits, WillSuit, There
<1>4. /\ st # Idle => st.todo \subseteq unfoldered'
      /\ st # Idle /\ st.at # "listed" => st.project \in unfoldered' /\ WillBeGrouped(st.groups)
      /\ st.at = "moving" => WillSuit(st.target, st.folder)
  BY <1>3
<1>5. backfill' \in BackfillStates /\ BackfillSuits'
  BY <1>4, BackfillGoesOn
<1> QED BY <1>1, <1>2, <1>5, FiledStay, PartsMakeTheWhole

-----------------------------------------------------------------------------
(* Projects: the steps of an upload or an init *)

\* What a task holds.
LEMMA TasksAreTyped ==
  ASSUME ProjectsTypeOK, NEW t \in Tasks
  PROVE  /\ task[t].at # "idle" => task[t].folder \in Folders
         /\ task[t].at \in {"claiming", "found"} =>
               /\ task[t].project \in Projects
               /\ task[t] \in [at : {"claiming", "found"}, folder : Folders, project : Projects]
         /\ Idle \in TaskStates /\ Idle.at = "idle"
<1>1. task[t] \in TaskStates
  BY DEF ProjectsTypeOK
<1> QED BY <1>1 DEF TaskStates, Idle

\* The states a task without a project goes to.
LEMMA WaitingIsTyped ==
  ASSUME NEW f \in Folders, NEW at \in {"unmatched", "inserting", "conflict", "hashing", "retrying"}
  PROVE  /\ [at |-> at, folder |-> f] \in TaskStates
         /\ [at |-> at, folder |-> f].at = at
BY DEF TaskStates

\* The steps in which a task reads.
LEMMA ReadingStep ==
  ASSUME ProjectsTypeOK, ProjectsInv, NEW t \in Tasks,
         \/ \E f \in Folders : Resolve(t, f) \/ InitMisses(t, f)
         \/ LookForLegacy(t) \/ LookAtConflict(t)
  PROVE  ProjectsTypeOK' /\ ProjectsInv'
<1>1. ASSUME SameProjects, SameFiled, UNCHANGED backfill, NEW f \in Folders,
             NEW at \in {"unmatched", "inserting", "conflict", "hashing", "retrying"},
             TaskGoes(t, [at |-> at, folder |-> f])
      PROVE  ProjectsTypeOK' /\ ProjectsInv'
  <2>1. PICK st : st = [at |-> at, folder |-> f]
    OBVIOUS
  <2>2. st \in TaskStates /\ st.at # "claiming" /\ st.at # "found" /\ TaskGoes(t, st)
    BY <1>1, <2>1, WaitingIsTyped
  <2> QED BY <1>1, <2>2, TaskReads
<1>2. ASSUME SameProjects, SameFiled, UNCHANGED backfill, NEW f \in Folders, NEW n \in unfoldered,
             TaskGoes(t, [at |-> "claiming", folder |-> f, project |-> n])
      PROVE  ProjectsTypeOK' /\ ProjectsInv'
  <2>1. PICK st : st = [at |-> "claiming", folder |-> f, project |-> n]
    OBVIOUS
  <2>2. st \in TaskStates /\ st.at = "claiming" /\ st.project \in unfoldered /\ TaskGoes(t, st)
    BY <1>2, <2>1 DEF TaskStates, ProjectsTypeOK
  <2> QED BY <1>2, <2>2, TaskReads
<1>3. ASSUME NEW f \in Folders, Resolve(t, f) PROVE ProjectsTypeOK' /\ ProjectsInv'
  <2>0. SameProjects /\ SameFiled /\ UNCHANGED backfill
    BY <1>3 DEF Resolve
  <2>1. ASSUME NEW n \in OfFolder(f), TaskGoes(t, [at |-> "found", folder |-> f, project |-> n])
        PROVE  ProjectsTypeOK' /\ ProjectsInv'
    <3>1. n \in Projects /\ Suits(n, f)
      BY DEF OfFolder, Suits, ProjectsInv, RowsAreKnown
    <3>2. PICK st : st = [at |-> "found", folder |-> f, project |-> n]
      OBVIOUS
    <3>3. st \in TaskStates /\ st.at = "found" /\ st.project = n /\ st.folder = f /\ TaskGoes(t, st)
      BY <2>1, <3>1, <3>2 DEF TaskStates
    <3> QED BY <2>0, <3>1, <3>3, TaskReads
  <2> QED BY <1>1, <1>3, <2>0, <2>1 DEF Resolve
<1>4. ASSUME NEW f \in Folders, InitMisses(t, f) PROVE ProjectsTypeOK' /\ ProjectsInv'
  BY <1>1, <1>4 DEF InitMisses
<1>5. CASE LookForLegacy(t)
  <2>1. task[t].folder \in Folders /\ SameProjects /\ SameFiled /\ UNCHANGED backfill
    BY <1>5, TasksAreTyped DEF LookForLegacy
  <2>2. ASSUME NEW n \in LegacyMatches
        PROVE  n \in unfoldered /\ project[n].cwd = "null"
    BY DEF LegacyMatches, ProjectsInv, RowsAreKnown
  <2> QED BY <1>1, <1>2, <1>5, <2>1, <2>2 DEF LookForLegacy
<1>6. CASE LookAtConflict(t)
  <2>1. PICK f \in Folders : f = task[t].folder
    BY <1>6, TasksAreTyped DEF LookAtConflict
  <2>2. SameProjects /\ SameFiled /\ UNCHANGED backfill
    BY <1>6 DEF LookAtConflict
  <2>3. ASSUME NEW n \in Projects, project[n].slug = "plain",
               TaskGoes(t, CASE project[n].cwd = f -> Idle
                             [] project[n].cwd = "null" ->
                                  [at |-> "claiming", folder |-> f, project |-> n]
                             [] OTHER -> [at |-> "hashing", folder |-> f])
        PROVE  ProjectsTypeOK' /\ ProjectsInv'
    <3>1. "null" # f /\ There(n)
      BY <2>3, RowsAreTyped, ProjectsAssumption DEF ProjectsAssumption, Slugs
    <3>2. CASE project[n].cwd = f
      <4>1. TaskGoes(t, Idle)
        BY <2>3, <3>1, <3>2
      <4>2. Idle \in TaskStates /\ Idle.at = "idle"
        BY TasksAreTyped
      <4> QED BY <2>2, <4>1, <4>2, TaskReads
    <3>3. CASE project[n].cwd = "null"
      <4>1. n \in unfoldered
        BY <3>1, <3>3 DEF ProjectsInv, RowsAreKnown
      <4>2. TaskGoes(t, [at |-> "claiming", folder |-> f, project |-> n])
        BY <2>3, <3>1, <3>3
      <4> QED BY <1>2, <2>2, <4>1, <4>2
    <3>4. CASE project[n].cwd # f /\ project[n].cwd # "null"
      <4>1. TaskGoes(t, [at |-> "hashing", folder |-> f])
        BY <2>3, <3>4
      <4> QED BY <1>1, <2>2, <4>1
    <3> QED BY <3>2, <3>3, <3>4
  <2>4. CASE TaskGoes(t, [at |-> "retrying", folder |-> f])
    BY <1>1, <2>2, <2>4
  <2> QED BY <1>6, <2>1, <2>3, <2>4 DEF LookAtConflict
<1> QED BY <1>3, <1>4, <1>5, <1>6
\* The folder of a task is stamped on the project it has read.
LEMMA ClaimStep ==
  ASSUME ProjectsTypeOK, ProjectsInv, NEW t \in Tasks, Claim(t)
  PROVE  ProjectsTypeOK' /\ ProjectsInv'
<1>1. PICK n \in Projects, f \in Folders : n = task[t].project /\ f = task[t].folder
  BY TasksAreTyped DEF Claim
<1>2. n \in unfoldered /\ task[t] \in [at : {"claiming", "found"}, folder : Folders, project : Projects]
  BY <1>1, TasksAreTyped DEF Claim, ProjectsInv, TasksSuit
<1>3. SameFiled /\ UNCHANGED backfill
  BY DEF Claim
<1>4. CASE There(n)
  <2>1. PICK st : st = IF t \in Uploads THEN [task[t] EXCEPT !.at = "found"] ELSE Idle
    OBVIOUS
  <2>2. Stamp(n, f) /\ TaskGoes(t, st)
    BY <1>1, <1>4, <2>1 DEF Claim
  <2>3. MovesOn /\ \A m \in Projects : There(m) => There(m)'
    BY <1>2, <1>4, <2>2, StampMovesOn DEF ProjectsInv
  <2>4. Suits(n, f)'
    BY <1>2, <2>2 DEF Stamp, Suits, ProjectsInv, RowsAreKnown
  <2>5. st \in TaskStates /\ st.at # "claiming" /\ (st.at = "found" => st.project = n /\ st.folder = f)
    <3>1. CASE t \in Uploads
      <4>1. st = [task[t] EXCEPT !.at = "found"]
        BY <2>1, <3>1
      <4>2. st \in [at : {"claiming", "found"}, folder : Folders, project : Projects]
        BY <1>2, <4>1
      <4>3. st.at = "found" /\ st.project = n /\ st.folder = f
        BY <1>1, <1>2, <4>1
      <4> QED BY <4>2, <4>3 DEF TaskStates
    <3>2. CASE t \notin Uploads
      BY <2>1, <3>2, TasksAreTyped
    <3> QED BY <3>1, <3>2
  <2> QED BY <1>3, <2>2, <2>3, <2>4, <2>5, TaskWrites
<1>5. CASE ~There(n)
  <2>1. SameProjects /\ TaskGoes(t, Idle)
    BY <1>1, <1>5 DEF Claim
  <2>2. Idle \in TaskStates /\ Idle.at = "idle"
    BY TasksAreTyped
  <2> QED BY <1>3, <2>1, <2>2, TaskReads
<1> QED BY <1>4, <1>5

\* A task makes the project of its folder, and goes on with it or is done.
LEMMA TaskInserts ==
  ASSUME ProjectsTypeOK, ProjectsInv, SameFiled, UNCHANGED backfill, NEW t \in Tasks,
         NEW f \in Folders, NEW slug \in Slugs, Insert(slug, f),
         \/ TaskGoes(t, Idle)
         \/ TaskGoes(t, [at |-> "found", folder |-> f, project |-> lastProject + 1])
  PROVE  ProjectsTypeOK' /\ ProjectsInv'
<1>1. f # "null"
  BY ProjectsAssumption DEF ProjectsAssumption
<1>2. PICK n \in Projects : n = lastProject + 1 /\ Suits(n, f)'
  BY <1>1, InsertMovesOn DEF ProjectsInv
<1>3. MovesOn /\ \A m \in Projects : There(m) => There(m)'
  BY InsertMovesOn DEF ProjectsInv
<1>4. CASE TaskGoes(t, Idle)
  <2>1. Idle \in TaskStates /\ Idle.at = "idle"
    BY TasksAreTyped
  <2> QED BY <1>3, <1>4, <2>1, TaskWrites
<1>5. CASE TaskGoes(t, [at |-> "found", folder |-> f, project |-> lastProject + 1])
  <2>1. PICK st : st = [at |-> "found", folder |-> f, project |-> n]
    OBVIOUS
  <2>2. st \in TaskStates /\ st.at = "found" /\ st.project = n /\ st.folder = f /\ TaskGoes(t, st)
    BY <1>2, <1>5, <2>1 DEF TaskStates
  <2> QED BY <1>2, <1>3, <2>2, TaskWrites
<1> QED BY <1>4, <1>5

\* The steps in which a task tries to make a project.
LEMMA CreatingStep ==
  ASSUME ProjectsTypeOK, ProjectsInv, NEW t \in Tasks,
         CreateProject(t) \/ CreateHashed(t) \/ RetryInsert(t)
  PROVE  ProjectsTypeOK' /\ ProjectsInv'
<1>1. PICK f \in Folders : f = task[t].folder
  BY TasksAreTyped DEF CreateProject, CreateHashed, RetryInsert
<1>2. SameFiled /\ UNCHANGED backfill /\ f \in Slugs /\ "plain" \in Slugs
  BY DEF CreateProject, CreateHashed, RetryInsert, Slugs
<1>3. ASSUME SameProjects, NEW at \in {"unmatched", "inserting", "conflict", "hashing", "retrying"},
             TaskGoes(t, [at |-> at, folder |-> f]) \/ TaskGoes(t, Idle)
      PROVE  ProjectsTypeOK' /\ ProjectsInv'
  <2>1. PICK st : st \in {[at |-> at, folder |-> f], Idle} /\ TaskGoes(t, st)
    BY <1>3
  <2>2. st \in TaskStates /\ st.at # "claiming" /\ st.at # "found"
    <3>1. CASE st = Idle
      BY <3>1, TasksAreTyped
    <3>2. CASE st = [at |-> at, folder |-> f]
      <4>1. st \in TaskStates /\ st.at = at
        BY <3>2, WaitingIsTyped
      <4> QED BY <4>1
    <3> QED BY <2>1, <3>1, <3>2
  <2> QED BY <1>2, <1>3, <2>1, <2>2, TaskReads
<1>4. CASE CreateProject(t)
  <2>1. CASE Taken("plain")
    <3>1. SameProjects /\ \E at \in {"hashing", "conflict"} : TaskGoes(t, [at |-> at, folder |-> f])
      BY <1>1, <1>4, <2>1 DEF CreateProject
    <3> QED BY <1>3, <3>1
  <2>2. CASE ~Taken("plain")
    <3>1. /\ Insert("plain", f)
          /\ \/ TaskGoes(t, Idle)
             \/ TaskGoes(t, [at |-> "found", folder |-> f, project |-> lastProject + 1])
      BY <1>1, <1>4, <2>2 DEF CreateProject
    <3> QED BY <1>2, <3>1, TaskInserts
  <2> QED BY <2>1, <2>2
<1>5. CASE CreateHashed(t)
  <2>1. CASE Taken(f)
    <3>1. SameProjects /\ (TaskGoes(t, [at |-> "retrying", folder |-> f]) \/ TaskGoes(t, Idle))
      BY <1>1, <1>5, <2>1 DEF CreateHashed
    <3> QED BY <1>3, <3>1
  <2>2. CASE ~Taken(f)
    <3>1. /\ Insert(f, f)
          /\ \/ TaskGoes(t, Idle)
             \/ TaskGoes(t, [at |-> "found", folder |-> f, project |-> lastProject + 1])
      BY <1>1, <1>5, <2>2 DEF CreateHashed
    <3> QED BY <1>2, <3>1, TaskInserts
  <2> QED BY <2>1, <2>2
<1>6. CASE RetryInsert(t)
  <2>1. TaskGoes(t, Idle) /\ (SameProjects \/ Insert("plain", f))
    BY <1>1, <1>6 DEF RetryInsert
  <2> QED BY <1>2, <1>3, <2>1, TaskInserts
<1> QED BY <1>4, <1>5, <1>6

\* The session of an upload is stored, or its project is gone.
LEMMA FilingStep ==
  ASSUME ProjectsTypeOK, ProjectsInv, NEW t \in Tasks, FileSession(t)
  PROVE  ProjectsTypeOK' /\ ProjectsInv'
<1>1. PICK n \in Projects, f \in Folders : n = task[t].project /\ f = task[t].folder
  BY TasksAreTyped DEF FileSession
<1>2. Suits(n, f)
  BY <1>1 DEF FileSession, ProjectsInv, TasksSuit
<1>3. /\ Idle \in TaskStates /\ Idle.at = "idle"
      /\ TaskGoes(t, Idle) /\ SameProjects /\ UNCHANGED backfill
  BY TasksAreTyped DEF FileSession
<1>4. MovesOn
  BY <1>3, SameMovesOn DEF ProjectsInv
<1>5. CASE There(n)
  <2>1. /\ lastFiled < MaxFiled /\ lastFiled' = lastFiled + 1
        /\ session' = [session EXCEPT ![lastFiled + 1] = [folder |-> f, project |-> n]]
    BY <1>1, <1>5 DEF FileSession
  <2>2. SessionsTyped' /\ SessionsHaveProjects' /\ FoldersStayApart'
    BY <1>2, <1>3, <1>5, <2>1, FiledSuits
  <2>3. /\ lastFiled' \in Nat /\ lastFiled <= lastFiled'
        /\ \A s \in Sessions : s <= lastFiled => session'[s] = session[s]
    BY <2>1, ProjectsAssumption DEF ProjectsAssumption, ProjectsTypeOK, Sessions
  <2>4. backfill' \in BackfillStates /\ BackfillSuits'
    BY <1>3, <1>4, <2>3, BackfillStands
  <2>5. task' \in [Tasks -> TaskStates] /\ TasksSuit'
    BY <1>3, <1>4, TaskGoesOn
  <2> QED BY <1>4, <2>2, <2>4, <2>5, PartsMakeTheWhole
<1>6. CASE ~There(n)
  <2>1. SameFiled
    BY <1>1, <1>6 DEF FileSession
  <2> QED BY <1>3, <2>1, TaskReads
<1> QED BY <1>5, <1>6

-----------------------------------------------------------------------------
(* Projects: the steps by hand *)

\* A project is made by hand.
LEMMA CreateByHandStep ==
  ASSUME ProjectsTypeOK, ProjectsInv, NEW cwd \in Folders \cup {"null"}, CreateByHand(cwd)
  PROVE  ProjectsTypeOK' /\ ProjectsInv'
<1>1. Insert("plain", cwd) /\ "plain" \in Slugs /\ SameFiled /\ UNCHANGED <<task, backfill>>
  BY DEF CreateByHand, Slugs
<1>2. MovesOn /\ \A m \in Projects : There(m) => There(m)'
  BY <1>1, InsertMovesOn DEF ProjectsInv
<1> QED BY <1>1, <1>2, FiledStay, TasksStand, BackfillStands, PartsMakeTheWhole

\* A project is deleted, with its sessions.
LEMMA DeleteByHandStep ==
  ASSUME ProjectsTypeOK, ProjectsInv, NEW n \in Projects, DeleteByHand(n)
  PROVE  ProjectsTypeOK' /\ ProjectsInv'
<1>1. MovesOn /\ \A m \in Projects \ {n} : There(m) => There(m)'
  BY DeleteMovesOn DEF ProjectsInv
<1>2. /\ UNCHANGED <<lastFiled, task, backfill>>
      /\ \A s \in Sessions : session'[s] # NoSession =>
            session'[s] = session[s] /\ session[s].project # n
      /\ SessionsTyped'
  BY DEF DeleteByHand, SessionsTyped, ProjectsTypeOK
<1>3. ASSUME NEW s \in Sessions, session'[s] # NoSession
      PROVE  session'[s] = session[s] /\ project'[session'[s].project] # NoProject
  BY <1>1, <1>2, <1>3, SessionsSuit DEF ProjectsInv, There
<1>4. SessionsHaveProjects' /\ FoldersStayApart'
  BY <1>1, <1>2, <1>3, SessionsStay DEF There
<1>5. lastFiled' \in Nat /\ lastFiled <= lastFiled'
  BY <1>2, ProjectsAssumption DEF ProjectsAssumption, ProjectsTypeOK
<1>6. backfill' \in BackfillStates /\ BackfillSuits'
  BY <1>1, <1>2, <1>5, BackfillStands
<1> QED BY <1>1, <1>2, <1>4, <1>6, TasksStand, PartsMakeTheWhole
-----------------------------------------------------------------------------
(* Projects: the steps of the backfill *)

\* The backfill ends, or goes on with the projects it has listed.
LEMMA BackfillTurns ==
  ASSUME ProjectsTypeOK, ProjectsInv, SameProjects, SameFiled, UNCHANGED task,
         NEW todo \in SUBSET unfoldered,
         backfill' = Idle \/ backfill' = [at |-> "listed", todo |-> todo]
  PROVE  ProjectsTypeOK' /\ ProjectsInv'
<1>1. CASE backfill' = Idle
  <2>1. Idle \in BackfillStates /\ Idle.at = "idle"
    BY DEF BackfillStates, Idle
  <2> QED BY <1>1, <2>1, BackfillReads
<1>2. CASE backfill' = [at |-> "listed", todo |-> todo]
  <2>1. PICK st : st = [at |-> "listed", todo |-> todo]
    OBVIOUS
  <2>2. st \in BackfillStates /\ st.at = "listed" /\ st.todo = todo
    BY <2>1 DEF BackfillStates, ProjectsTypeOK
  <2> QED BY <1>2, <2>1, <2>2, BackfillReads
<1> QED BY <1>1, <1>2

\* The projects are listed, left when they have been dealt with, or given up.
LEMMA ListingStep ==
  ASSUME ProjectsTypeOK, ProjectsInv, ListProjects \/ NextProject \/ KillBackfill
  PROVE  ProjectsTypeOK' /\ ProjectsInv'
<1>1. CASE ListProjects
  <2>1. PICK todo : todo = {n \in Projects : There(n) /\ project[n].cwd = "null"}
    OBVIOUS
  <2>2. todo \in SUBSET unfoldered
    BY <2>1 DEF ProjectsInv, RowsAreKnown
  <2> QED BY <1>1, <2>1, <2>2, BackfillTurns DEF ListProjects
<1>2. CASE NextProject
  <2>1. backfill.todo \in SUBSET unfoldered
    BY <1>2 DEF NextProject, ProjectsInv, BackfillSuits, Idle
  <2> QED BY <1>2, <2>1, BackfillTurns DEF NextProject
<1>3. CASE KillBackfill
  <2>1. {} \in SUBSET unfoldered
    OBVIOUS
  <2> QED BY <1>3, <2>1, BackfillTurns DEF KillBackfill
<1> QED BY <1>1, <1>2, <1>3

\* What the backfill holds while it splits a project.
LEMMA SplittingIsSound ==
  ASSUME ProjectsTypeOK, ProjectsInv,
         backfill.at \in {"grouped", "splitting", "unowned", "missing", "moving"}
  PROVE  /\ backfill.todo \in SUBSET unfoldered /\ backfill.todo \in SUBSET Projects
         /\ backfill.project \in unfoldered /\ backfill.project \in Projects
         /\ backfill.main \in Folders
         /\ backfill.groups \in [Folders -> SUBSET Sessions]
         /\ Grouped(backfill.groups)
<1>1. backfill # Idle /\ backfill.at # "listed"
  BY DEF Idle
<1> QED BY <1>1, BackfillIsTyped DEF ProjectsInv, BackfillSuits

\* The sessions of a project are grouped by folder.
LEMMA GroupingStep ==
  ASSUME ProjectsTypeOK, ProjectsInv, NEW n \in Projects, GroupSessions(n)
  PROVE  ProjectsTypeOK' /\ ProjectsInv'
<1>1. /\ SameProjects /\ SameFiled /\ UNCHANGED task
      /\ n \in backfill.todo /\ backfill.todo \subseteq unfoldered
  BY DEF GroupSessions, ProjectsInv, BackfillSuits, Idle
<1>2. PICK rest \in SUBSET unfoldered : rest = backfill.todo \ {n}
  BY <1>1
<1>3. PICK groups : groups = [f \in Folders |-> Filed(n, f)]
  OBVIOUS
<1>4. groups \in [Folders -> SUBSET Sessions] /\ Grouped(groups)
  BY <1>3 DEF Filed, Grouped, ProjectsInv, SessionsHaveProjects
<1>5. ASSUME NEW main \in Folders,
             backfill' = [at |-> "grouped", todo |-> rest, project |-> n, main |-> main,
                          groups |-> groups]
      PROVE  ProjectsTypeOK' /\ ProjectsInv'
  <2>1. PICK st : st = [at |-> "grouped", todo |-> rest, project |-> n, main |-> main,
                        groups |-> groups]
    OBVIOUS
  <2>2. /\ st.at = "grouped" /\ st.todo = rest /\ st.project = n /\ st.groups = groups
        /\ st \in [at : {"grouped", "splitting"}, todo : SUBSET Projects, project : Projects,
                   main : Folders, groups : [Folders -> SUBSET Sessions]]
    BY <1>4, <2>1 DEF ProjectsTypeOK
  <2>3. st \in BackfillStates
    BY <2>2 DEF BackfillStates
  <2> QED BY <1>1, <1>4, <1>5, <2>1, <2>2, <2>3, BackfillReads
<1>6. \/ backfill' = Idle
      \/ backfill' = [at |-> "listed", todo |-> rest]
      \/ \E main \in Folders :
            backfill' = [at |-> "grouped", todo |-> rest, project |-> n, main |-> main,
                         groups |-> groups]
  BY <1>2, <1>3 DEF GroupSessions
<1> QED BY <1>1, <1>5, <1>6, BackfillTurns

\* The project that is split gets its main folder.
LEMMA StampMainStep ==
  ASSUME ProjectsTypeOK, ProjectsInv, StampMain
  PROVE  ProjectsTypeOK' /\ ProjectsInv'
<1>1. /\ SameFiled /\ UNCHANGED task
      /\ backfill.at = "grouped"
  BY DEF StampMain
<1>2. PICK n \in Projects, f \in Folders : n = backfill.project /\ f = backfill.main /\ n \in unfoldered
  BY <1>1, SplittingIsSound
<1>3. CASE There(n)
  <2>1. Stamp(n, f)
    BY <1>2, <1>3 DEF StampMain
  <2>2. MovesOn /\ \A m \in Projects : There(m) => There(m)'
    BY <1>2, <1>3, <2>1, StampMovesOn DEF ProjectsInv
  <2>3. PICK groups : groups = [backfill.groups EXCEPT ![f] = {}]
    OBVIOUS
  <2>4. /\ groups \in [Folders -> SUBSET Sessions]
        /\ \A g \in Folders : groups[g] \subseteq backfill.groups[g]
    <3>1. backfill.groups \in [Folders -> SUBSET Sessions] /\ {} \in SUBSET Sessions
      BY <1>1, SplittingIsSound
    <3> QED BY <2>3, <3>1
  <2>5. PICK st : st = [backfill EXCEPT !.at = "splitting", !.groups = groups]
    OBVIOUS
  <2>6. backfill' = st
    BY <1>2, <1>3, <2>3, <2>5 DEF StampMain
  <2>7. backfill \in [at : {"grouped", "splitting"}, todo : SUBSET Projects, project : Projects,
                      main : Folders, groups : [Folders -> SUBSET Sessions]]
    BY <1>1 DEF ProjectsTypeOK, BackfillStates, Idle
  <2>8. /\ st \in [at : {"grouped", "splitting"}, todo : SUBSET Projects, project : Projects,
                   main : Folders, groups : [Folders -> SUBSET Sessions]]
        /\ st.at = "splitting" /\ st.todo = backfill.todo /\ st.project = n /\ st.groups = groups
    BY <1>2, <2>4, <2>5, <2>7
  <2>9. WillBeGrouped(groups)
    BY <1>1, <2>4, SplittingIsSound DEF Grouped, WillBeGrouped, SameFiled
  <2>10. st \in BackfillStates
    BY <2>8 DEF BackfillStates
  <2>11. backfill.todo \subseteq unfoldered' /\ n \in unfoldered'
    BY <1>1, <1>2, <2>1, SplittingIsSound DEF Stamp
  <2>12. backfill' \in BackfillStates /\ BackfillSuits'
    BY <2>6, <2>8, <2>9, <2>10, <2>11, BackfillGoesOn
  <2> QED BY <1>1, <2>2, <2>12, FiledStay, TasksStand, PartsMakeTheWhole
<1>4. CASE ~There(n)
  <2>1. SameProjects /\ backfill' = Idle /\ {} \in SUBSET unfoldered
    BY <1>2, <1>4 DEF StampMain
  <2> QED BY <1>1, <2>1, BackfillTurns
<1> QED BY <1>3, <1>4
\* The backfill keeps what it splits, and takes up a folder.
LEMMA FolderTaken ==
  ASSUME ProjectsTypeOK, ProjectsInv, SameProjects, SameFiled, UNCHANGED task,
         backfill.at \in {"grouped", "splitting", "unowned", "missing", "moving"},
         NEW f \in Folders,
         \/ backfill' = [at |-> "unowned", todo |-> backfill.todo, project |-> backfill.project,
                         main |-> backfill.main, groups |-> backfill.groups, folder |-> f]
         \/ \E slug \in Slugs :
               backfill' = [at |-> "missing", todo |-> backfill.todo, project |-> backfill.project,
                            main |-> backfill.main, groups |-> backfill.groups, folder |-> f,
                            slug |-> slug]
         \/ \E n \in Projects :
               /\ Suits(n, f)
               /\ backfill' = [at |-> "moving", todo |-> backfill.todo,
                               project |-> backfill.project, main |-> backfill.main,
                               groups |-> backfill.groups, folder |-> f, target |-> n]
  PROVE  ProjectsTypeOK' /\ ProjectsInv'
<1>1. PICK todo \in SUBSET Projects, p \in Projects, main \in Folders,
           groups \in [Folders -> SUBSET Sessions] :
        /\ todo = backfill.todo /\ p = backfill.project /\ main = backfill.main
        /\ groups = backfill.groups
        /\ todo \in SUBSET unfoldered /\ p \in unfoldered /\ Grouped(groups)
  BY SplittingIsSound
<1>2. CASE backfill' = [at |-> "unowned", todo |-> backfill.todo, project |-> backfill.project,
                        main |-> backfill.main, groups |-> backfill.groups, folder |-> f]
  <2>1. PICK st : st = [at |-> "unowned", todo |-> todo, project |-> p, main |-> main,
                        groups |-> groups, folder |-> f]
    OBVIOUS
  <2>2. /\ st.at = "unowned" /\ st.todo = todo /\ st.project = p /\ st.groups = groups
        /\ st \in [at : {"unowned"}, todo : SUBSET Projects, project : Projects, main : Folders,
                   groups : [Folders -> SUBSET Sessions], folder : Folders]
    BY <1>1, <2>1
  <2>3. st \in BackfillStates /\ backfill' = st
    BY <1>1, <1>2, <2>1, <2>2 DEF BackfillStates
  <2> QED BY <1>1, <2>2, <2>3, BackfillReads
<1>3. ASSUME NEW slug \in Slugs,
             backfill' = [at |-> "missing", todo |-> backfill.todo, project |-> backfill.project,
                          main |-> backfill.main, groups |-> backfill.groups, folder |-> f,
                          slug |-> slug]
      PROVE  ProjectsTypeOK' /\ ProjectsInv'
  <2>1. PICK st : st = [at |-> "missing", todo |-> todo, project |-> p, main |-> main,
                        groups |-> groups, folder |-> f, slug |-> slug]
    OBVIOUS
  <2>2. /\ st.at = "missing" /\ st.todo = todo /\ st.project = p /\ st.groups = groups
        /\ st \in [at : {"missing"}, todo : SUBSET Projects, project : Projects, main : Folders,
                   groups : [Folders -> SUBSET Sessions], folder : Folders, slug : Slugs]
    BY <1>1, <2>1
  <2>3. st \in BackfillStates /\ backfill' = st
    BY <1>1, <1>3, <2>1, <2>2 DEF BackfillStates
  <2> QED BY <1>1, <2>2, <2>3, BackfillReads
<1>4. ASSUME NEW n \in Projects, Suits(n, f),
             backfill' = [at |-> "moving", todo |-> backfill.todo,
                          project |-> backfill.project, main |-> backfill.main,
                          groups |-> backfill.groups, folder |-> f, target |-> n]
      PROVE  ProjectsTypeOK' /\ ProjectsInv'
  <2>1. PICK st : st = [at |-> "moving", todo |-> todo, project |-> p, main |-> main,
                        groups |-> groups, folder |-> f, target |-> n]
    OBVIOUS
  <2>2. /\ st.at = "moving" /\ st.todo = todo /\ st.project = p /\ st.groups = groups
        /\ st.target = n /\ st.folder = f
        /\ st \in [at : {"moving"}, todo : SUBSET Projects, project : Projects, main : Folders,
                   groups : [Folders -> SUBSET Sessions], folder : Folders, target : Projects]
    BY <1>1, <2>1
  <2>3. st \in BackfillStates /\ backfill' = st
    BY <1>1, <1>4, <2>1, <2>2 DEF BackfillStates
  <2> QED BY <1>1, <1>4, <2>2, <2>3, BackfillReads
<1> QED BY <1>2, <1>3, <1>4

\* Where the sessions of a folder go is looked up.
LEMMA LookForTargetStep ==
  ASSUME ProjectsTypeOK, ProjectsInv, NEW f \in Folders, LookForTarget(f)
  PROVE  ProjectsTypeOK' /\ ProjectsInv'
<1>1. SameProjects /\ SameFiled /\ UNCHANGED task /\ backfill.at = "splitting"
  BY DEF LookForTarget
<1>2. CASE Cardinality(OfFolder(f)) > 1
  <2>1. backfill' = Idle /\ {} \in SUBSET unfoldered
    BY <1>2 DEF LookForTarget
  <2> QED BY <1>1, <2>1, BackfillTurns
<1>3. CASE Cardinality(OfFolder(f)) = 1
  <2>1. PICK n : n = CHOOSE m \in OfFolder(f) : TRUE
    OBVIOUS
  <2>2. OfFolder(f) # {}
    BY <1>3, FS_EmptySet
  <2>3. n \in OfFolder(f)
    BY <2>1, <2>2
  <2>4. n \in Projects /\ Suits(n, f)
    BY <2>3 DEF OfFolder, Suits, ProjectsInv, RowsAreKnown
  <2>5. backfill' = [at |-> "moving", todo |-> backfill.todo, project |-> backfill.project,
                     main |-> backfill.main, groups |-> backfill.groups, folder |-> f,
                     target |-> n]
    BY <1>3, <2>1 DEF LookForTarget
  <2> QED BY <1>1, <2>4, <2>5, FolderTaken
<1>4. CASE ~(Cardinality(OfFolder(f)) > 1) /\ Cardinality(OfFolder(f)) # 1
  <2>1. backfill' = [at |-> "unowned", todo |-> backfill.todo, project |-> backfill.project,
                     main |-> backfill.main, groups |-> backfill.groups, folder |-> f]
    BY <1>4 DEF LookForTarget
  <2> QED BY <1>1, <2>1, FolderTaken
<1> QED BY <1>2, <1>3, <1>4

\* A slug is chosen for a new one.
LEMMA ChooseSlugStep ==
  ASSUME ProjectsTypeOK, ProjectsInv, ChooseSlug
  PROVE  ProjectsTypeOK' /\ ProjectsInv'
<1>1. SameProjects /\ SameFiled /\ UNCHANGED task /\ backfill.at = "unowned"
  BY DEF ChooseSlug
<1>2. PICK f \in Folders : f = backfill.folder
  BY <1>1, BackfillIsTyped DEF Idle
<1>3. PICK slug \in Slugs : slug = IF Taken("plain") THEN f ELSE "plain"
  BY DEF Slugs
<1>4. backfill' = [at |-> "missing", todo |-> backfill.todo, project |-> backfill.project,
                   main |-> backfill.main, groups |-> backfill.groups, folder |-> f,
                   slug |-> slug]
  BY <1>2, <1>3 DEF ChooseSlug
<1> QED BY <1>1, <1>4, FolderTaken

\* The new project is made.
LEMMA MakeTargetStep ==
  ASSUME ProjectsTypeOK, ProjectsInv, MakeTarget
  PROVE  ProjectsTypeOK' /\ ProjectsInv'
<1>1. SameFiled /\ UNCHANGED task /\ backfill.at = "missing"
  BY DEF MakeTarget
<1>2. PICK f \in Folders, slug \in Slugs : f = backfill.folder /\ slug = backfill.slug
  BY <1>1, BackfillIsTyped DEF Idle
<1>3. CASE Taken(slug)
  <2>1. SameProjects /\ backfill' = Idle /\ {} \in SUBSET unfoldered
    BY <1>2, <1>3 DEF MakeTarget
  <2> QED BY <1>1, <2>1, BackfillTurns
<1>4. CASE ~Taken(slug)
  <2>1. PICK todo \in SUBSET Projects, p \in Projects, main \in Folders,
             groups \in [Folders -> SUBSET Sessions] :
          /\ todo = backfill.todo /\ p = backfill.project /\ main = backfill.main
          /\ groups = backfill.groups
          /\ todo \in SUBSET unfoldered /\ p \in unfoldered /\ Grouped(groups)
    BY <1>1, SplittingIsSound
  <2>2. Insert(slug, f) /\ f # "null"
    BY <1>2, <1>4, ProjectsAssumption DEF MakeTarget, ProjectsAssumption
  <2>3. MovesOn /\ \A m \in Projects : There(m) => There(m)'
    BY <2>2, InsertMovesOn DEF ProjectsInv
  <2>4. PICK n \in Projects : n = lastProject + 1 /\ Suits(n, f)'
    BY <2>2, InsertMovesOn DEF ProjectsInv
  <2>5. PICK st : st = [at |-> "moving", todo |-> todo, project |-> p, main |-> main,
                        groups |-> groups, folder |-> f, target |-> n]
    OBVIOUS
  <2>6. /\ st.at = "moving" /\ st.todo = todo /\ st.project = p /\ st.groups = groups
        /\ st.target = n /\ st.folder = f
        /\ st \in [at : {"moving"}, todo : SUBSET Projects, project : Projects, main : Folders,
                   groups : [Folders -> SUBSET Sessions], folder : Folders, target : Projects]
    BY <2>5
  <2>7. st \in BackfillStates
    BY <2>6 DEF BackfillStates
  <2>8. backfill' = st
    BY <1>2, <1>4, <2>1, <2>4, <2>5 DEF MakeTarget
  <2>9. todo \subseteq unfoldered' /\ p \in unfoldered' /\ WillBeGrouped(groups)
    BY <1>1, <2>1, <2>3 DEF MovesOn, Grouped, WillBeGrouped, SameFiled
  <2>10. WillSuit(n, f)
    BY <2>4 DEF Suits, WillSuit, There
  <2>11. backfill' \in BackfillStates /\ BackfillSuits'
    BY <2>6, <2>7, <2>8, <2>9, <2>10, BackfillGoesOn
  <2> QED BY <1>1, <2>3, <2>11, FiledStay, TasksStand, PartsMakeTheWhole
<1> QED BY <1>3, <1>4

\* The sessions of a group are moved to where they belong.
LEMMA MoveSessionsStep ==
  ASSUME ProjectsTypeOK, ProjectsInv, MoveSessions
  PROVE  ProjectsTypeOK' /\ ProjectsInv'
<1>1. SameProjects /\ UNCHANGED <<lastFiled, task>> /\ backfill.at = "moving"
  BY DEF MoveSessions
<1>2. PICK f \in Folders, n \in Projects : f = backfill.folder /\ n = backfill.target
  BY <1>1, BackfillIsTyped DEF Idle
<1>3. PICK todo \in SUBSET Projects, p \in Projects, main \in Folders,
           groups \in [Folders -> SUBSET Sessions] :
        /\ todo = backfill.todo /\ p = backfill.project /\ main = backfill.main
        /\ groups = backfill.groups
        /\ todo \in SUBSET unfoldered /\ p \in unfoldered /\ Grouped(groups)
  BY <1>1, SplittingIsSound
<1>4. Suits(n, f)
  BY <1>1, <1>2 DEF ProjectsInv, BackfillSuits, Idle
<1>5. PICK moved : moved = {s \in groups[f] : session[s] # NoSession}
  OBVIOUS
<1>6. MovesOn /\ \A m \in Projects : There(m) => There(m)'
  BY <1>1, SameMovesOn DEF ProjectsInv
<1>7. CASE There(n) \/ moved = {}
  <2>1. session' = [s \in Sessions |->
                      IF s \in moved THEN [session[s] EXCEPT !.project = n] ELSE session[s]]
    BY <1>2, <1>3, <1>5, <1>7 DEF MoveSessions
  <2>2. PICK st : st = [at |-> "splitting", todo |-> todo, project |-> p, main |-> main,
                        groups |-> [groups EXCEPT ![f] = {}]]
    OBVIOUS
  <2>3. backfill' = st
    BY <1>2, <1>3, <1>5, <1>7, <2>2 DEF MoveSessions
  <2>4. ASSUME NEW s \in Sessions, s \in moved
        PROVE  /\ session[s] # NoSession
               /\ session[s].folder = f
               /\ session'[s] \in [folder : Folders, project : Projects]
               /\ session'[s].folder = f /\ session'[s].project = n
    <3>1. session[s] # NoSession /\ session[s].folder = f
      BY <1>3, <1>5, <2>4 DEF Grouped
    <3>2. session[s] \in [folder : Folders, project : Projects]
      BY <3>1, SessionsSuit DEF ProjectsInv
    <3>3. session'[s] = [session[s] EXCEPT !.project = n]
      BY <2>1, <2>4
    <3> QED BY <3>1, <3>2, <3>3
  <2>5. \A s \in Sessions : s \notin moved => session'[s] = session[s]
    BY <2>1
  <2>6. SessionsTyped'
    <3>1. \A s \in Sessions : session'[s] \in [folder : Folders, project : Projects] \cup {NoSession}
      BY <2>4, <2>5 DEF ProjectsTypeOK
    <3>2. lastFiled' \in 0..MaxFiled
      BY <1>1 DEF ProjectsTypeOK
    <3>3. session' \in [Sessions -> [folder : Folders, project : Projects] \cup {NoSession}]
      BY <2>1, <3>1
    <3> QED BY <3>2, <3>3 DEF SessionsTyped
  <2>7. There(n)' \/ moved = {}
    BY <1>6, <1>7
  <2>8. SessionsHaveProjects'
    <3>1. ASSUME NEW s \in Sessions, session'[s] # NoSession
          PROVE  s <= lastFiled' /\ project'[session'[s].project] # NoProject
      <4>1. CASE s \in moved
        BY <1>1, <2>4, <2>7, <4>1 DEF ProjectsInv, SessionsHaveProjects, There
      <4>2. CASE s \notin moved
        BY <1>1, <2>5, <3>1, <4>2 DEF ProjectsInv, SessionsHaveProjects, There, SameProjects
      <4> QED BY <4>1, <4>2
    <3> QED BY <3>1 DEF SessionsHaveProjects, There
  <2>9. FoldersStayApart'
    <3>1. ASSUME NEW s \in Sessions, session'[s] # NoSession, session'[s].project \notin unfoldered'
          PROVE  project'[session'[s].project].cwd = session'[s].folder
      <4>1. CASE s \in moved
        BY <1>1, <1>4, <2>4, <2>7, <3>1, <4>1 DEF Suits, There, SameProjects
      <4>2. CASE s \notin moved
        BY <1>1, <2>5, <3>1, <4>2 DEF ProjectsInv, FoldersStayApart, SameProjects
      <4> QED BY <4>1, <4>2
    <3> QED BY <3>1 DEF FoldersStayApart
  <2>10. \A s \in Sessions : session'[s] # NoSession =>
            session[s] # NoSession /\ session'[s].folder = session[s].folder
    BY <2>4, <2>5
  <2>11. /\ [groups EXCEPT ![f] = {}] \in [Folders -> SUBSET Sessions]
         /\ \A g \in Folders : [groups EXCEPT ![f] = {}][g] \subseteq groups[g]
    <3>1. {} \in SUBSET Sessions
      OBVIOUS
    <3> QED BY <3>1
  <2>12. /\ st.at = "splitting" /\ st.todo = todo /\ st.project = p
         /\ st.groups = [groups EXCEPT ![f] = {}]
         /\ st \in [at : {"grouped", "splitting"}, todo : SUBSET Projects, project : Projects,
                    main : Folders, groups : [Folders -> SUBSET Sessions]]
    BY <2>2, <2>11
  <2>13. WillBeGrouped(st.groups)
    <3> SUFFICES ASSUME NEW g \in Folders, NEW s \in st.groups[g]
                 PROVE  s <= lastFiled' /\ (session'[s] # NoSession => session'[s].folder = g)
      BY DEF WillBeGrouped
    <3>1. s \in groups[g] /\ s \in Sessions
      BY <2>11, <2>12
    <3> QED BY <1>1, <1>3, <2>10, <3>1 DEF Grouped
  <2>14. st \in BackfillStates
    BY <2>12 DEF BackfillStates
  <2>15. todo \subseteq unfoldered' /\ p \in unfoldered'
    BY <1>3, <1>6 DEF MovesOn
  <2>16. backfill' \in BackfillStates /\ BackfillSuits'
    BY <2>3, <2>12, <2>13, <2>14, <2>15, BackfillGoesOn
  <2> QED BY <1>1, <1>6, <2>6, <2>8, <2>9, <2>16, TasksStand, PartsMakeTheWhole
<1>8. CASE ~(There(n) \/ moved = {})
  <2>1. SameFiled /\ backfill' = Idle /\ {} \in SUBSET unfoldered
    BY <1>1, <1>2, <1>3, <1>5, <1>8 DEF MoveSessions, SameFiled
  <2> QED BY <1>1, <2>1, BackfillTurns
<1> QED BY <1>7, <1>8

-----------------------------------------------------------------------------
(* Projects: the theorems *)

\* The invariants hold at first.
LEMMA ProjectsStart == ProjectsInit => ProjectsTypeOK /\ ProjectsInv
<1> SUFFICES ASSUME ProjectsInit PROVE ProjectsTypeOK /\ ProjectsInv
  OBVIOUS
<1>1. task \in [Tasks -> TaskStates] /\ TasksSuit
  BY DEF ProjectsInit, TasksSuit, TaskStates, Idle
<1>2. backfill \in BackfillStates /\ BackfillSuits
  BY DEF ProjectsInit, BackfillSuits, BackfillStates
<1>3. MaxFiled \in Nat /\ MaxProjects \in Nat /\ 1 \in Projects /\ "null" \notin Folders
  BY ProjectsAssumption DEF ProjectsAssumption, Projects
<1>4. CASE lastProject = 0
  <2>1. /\ \A n \in Projects : ~There(n)
        /\ \A s \in Sessions : session[s] = NoSession
        /\ unfoldered = {} /\ lastFiled = 0
        /\ project = [n \in Projects |-> NoProject]
        /\ session = [s \in Sessions |-> NoSession]
    BY <1>4 DEF ProjectsInit, There
  <2>2. ProjectsTypeOK
    BY <1>1, <1>2, <1>3, <1>4, <2>1 DEF ProjectsTypeOK
  <2>3. RowsAreKnown /\ SessionsHaveProjects /\ FoldersStayApart
    BY <2>1 DEF RowsAreKnown, SessionsHaveProjects, FoldersStayApart
  <2> QED BY <1>1, <1>2, <2>2, <2>3 DEF ProjectsInv
<1>5. CASE lastProject # 0
  <2>1. PICK f \in Folders, g \in Folders :
          session = [s \in Sessions |-> CASE s = 1 -> [folder |-> f, project |-> 1]
                                          [] s = 2 -> [folder |-> g, project |-> 1]
                                          [] OTHER -> NoSession]
    BY <1>5 DEF ProjectsInit
  <2>2. PICK row : row = [slug |-> "plain", cwd |-> "null"]
    OBVIOUS
  <2>3. /\ MaxFiled >= 2 /\ lastProject = 1 /\ unfoldered = {1} /\ lastFiled = 2
        /\ project = [n \in Projects |-> IF n = 1 THEN row ELSE NoProject]
    BY <1>5, <2>2 DEF ProjectsInit
  <2>4. row \in ProjectRows /\ row # NoProject
    <3>1. row \in ProjectRows /\ row.slug = "plain" /\ NoProject.slug = "none"
      BY <2>2 DEF ProjectRows, Slugs, NoProject
    <3> QED BY <3>1
  <2>5. \A s \in Sessions :
          /\ s = 1 => session[s] = [folder |-> f, project |-> 1]
          /\ s = 2 => session[s] = [folder |-> g, project |-> 1]
          /\ s # 1 /\ s # 2 => session[s] = NoSession
    BY <2>1
  <2>6. \A s \in Sessions :
          /\ session[s] \in [folder : Folders, project : Projects] \cup {NoSession}
          /\ session[s] # NoSession => s <= 2 /\ session[s].project = 1
    BY <1>3, <2>5
  <2>7. session \in [Sessions -> [folder : Folders, project : Projects] \cup {NoSession}]
    BY <2>1, <2>6
  <2>8. project \in [Projects -> ProjectRows \cup {NoProject}]
    BY <2>3, <2>4
  <2>9. ProjectsTypeOK
    BY <1>1, <1>2, <1>3, <2>3, <2>7, <2>8, ProjectsAssumption
       DEF ProjectsTypeOK, ProjectsAssumption, Projects
  <2>10. There(1) /\ \A n \in Projects : There(n) => n = 1
    BY <1>3, <2>3, <2>4 DEF There
  <2>11. RowsAreKnown /\ SessionsHaveProjects /\ FoldersStayApart
    BY <2>3, <2>6, <2>10 DEF RowsAreKnown, SessionsHaveProjects, FoldersStayApart
  <2> QED BY <1>1, <1>2, <2>9, <2>11 DEF ProjectsInv
<1> QED BY <1>4, <1>5

\* Every step keeps them.
LEMMA ProjectsStep ==
  ProjectsTypeOK /\ ProjectsInv /\ [ProjectsNext]_projectVars => (ProjectsTypeOK /\ ProjectsInv)'
<1> SUFFICES ASSUME ProjectsTypeOK, ProjectsInv, [ProjectsNext]_projectVars
             PROVE  ProjectsTypeOK' /\ ProjectsInv'
  OBVIOUS
<1>1. ASSUME NEW t \in Tasks,
             \/ \E f \in Folders : Resolve(t, f) \/ InitMisses(t, f)
             \/ LookForLegacy(t) \/ Claim(t) \/ CreateProject(t) \/ LookAtConflict(t)
             \/ CreateHashed(t) \/ RetryInsert(t) \/ FileSession(t)
      PROVE  ProjectsTypeOK' /\ ProjectsInv'
  BY <1>1, ReadingStep, ClaimStep, CreatingStep, FilingStep
<1>2. ASSUME NEW cwd \in Folders \cup {"null"}, CreateByHand(cwd)
      PROVE  ProjectsTypeOK' /\ ProjectsInv'
  BY <1>2, CreateByHandStep
<1>3. ASSUME NEW n \in Projects, DeleteByHand(n) \/ GroupSessions(n)
      PROVE  ProjectsTypeOK' /\ ProjectsInv'
  BY <1>3, DeleteByHandStep, GroupingStep
<1>4. ASSUME NEW f \in Folders, LookForTarget(f) PROVE ProjectsTypeOK' /\ ProjectsInv'
  BY <1>4, LookForTargetStep
<1>5. CASE UNCHANGED projectVars
  BY <1>5 DEF projectVars, ProjectsTypeOK, ProjectsInv, RowsAreKnown, SessionsHaveProjects,
              FoldersStayApart, TasksSuit, BackfillSuits, Grouped, Suits, There
<1> QED BY <1>1, <1>2, <1>3, <1>4, <1>5, ListingStep, StampMainStep, ChooseSlugStep, MakeTargetStep,
           MoveSessionsStep
        DEF ProjectsNext

\* The variables of the projects keep their types, and the invariants above hold.
THEOREM ProjectsAreSound == ProjectsSpec => [](ProjectsTypeOK /\ ProjectsInv)
BY ProjectsStart, ProjectsStep, PTL DEF ProjectsSpec

\* Two folders of one name do not merge, whatever uploads, inits, a backfill and
\* deletions do at the same time.
THEOREM FoldersAreKeptApart == ProjectsSpec => []FoldersStayApart
<1>1. ProjectsInv => FoldersStayApart
  BY DEF ProjectsInv
<1> QED BY <1>1, ProjectsAreSound, PTL
=============================================================================
