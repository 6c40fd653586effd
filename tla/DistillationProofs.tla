------------------------- MODULE DistillationProofs -------------------------
(***************************************************************************)
(* Safety of the distillation pipeline for every number of sessions,       *)
(* users, projects, crashes, and every attempt limit, ceiling and batch    *)
(* size.                                                                   *)
(***************************************************************************)
EXTENDS Distillation, FiniteSetTheorems, TLAPS

-----------------------------------------------------------------------------
(* Type correctness *)

\* A deletion writes nothing strange.
LEMMA DeleteKeepsTypes ==
  ASSUME TypeOK, NEW rows, Delete(rows),
         UNCHANGED <<project, legacy, ingested, memories, up, crashes, workerVars>>,
         projects' \subseteq projects
  PROVE  TypeOK'
BY DEF Delete, TypeOK, workerVars, States

\* The variables keep their types in every behaviour.
THEOREM TypeCorrect == Spec => []TypeOK
<1> USE DistillationAssumption DEF DistillationAssumption
<1>1. Init => TypeOK
  <2> SUFFICES ASSUME Init PROVE TypeOK
    OBVIOUS
  <2>1. ingested \in MaxAnalyses..MaxSessions /\ crashes \in 0..MaxCrashes
    BY DEF Init
  <2>2. up \in BOOLEAN
    BY DEF Init
  <2>3. draft \in Extraction
    BY DEF Init, Nothing, Extraction
  <2> QED BY <2>1, <2>2, <2>3 DEF Init, TypeOK, States, Phases
<1>2. TypeOK /\ [Next]_vars => TypeOK'
  <2> SUFFICES ASSUME TypeOK, [Next]_vars PROVE TypeOK'
    OBVIOUS
  <2> USE DEF TypeOK, rowVars, storeVars, workerVars
  <2>1. CASE IngestFiltered
    BY <2>1 DEF IngestFiltered, Sessions, States
  <2>2. CASE IngestPending
    <3>1. /\ state' \in [Sessions -> States]
          /\ ingested' \in MaxAnalyses..MaxSessions
      BY <2>2 DEF IngestPending, Sessions, States
    <3> QED BY <2>2, <3>1 DEF IngestPending
  <2>3. CASE FetchBatch
    <3>1. batch' \in SUBSET Sessions
      BY <2>3 DEF FetchBatch, Eligible
    <3> QED BY <2>3, <3>1 DEF FetchBatch, Phases
  <2>4. ASSUME NEW s \in Sessions, WorkerStep(s) PROVE TypeOK'
    <3> USE DEF NextRow, Nothing, Extraction, Phases
    <3>1. CASE BeginAttempt(s)
      BY <3>1 DEF BeginAttempt
    <3>2. CASE ExtractNothing(s)
      BY <3>2 DEF ExtractNothing, Requeue, States
    <3>3. CASE ExtractSome(s)
      BY <3>3 DEF ExtractSome
    <3>4. CASE DedupMemories(s)
      BY <3>4 DEF DedupMemories
    <3>5. CASE SaveMemories(s)
      BY <3>5 DEF SaveMemories
    <3>6. CASE SaveInstincts(s)
      BY <3>6 DEF SaveInstincts
    <3>7. CASE FinishRow(s)
      BY <3>7 DEF FinishRow, States
    <3>8. CASE InvalidateVault(s)
      BY <3>8 DEF InvalidateVault
    <3>9. CASE RowRaises(s)
      BY <3>9 DEF RowRaises, Requeue, States
    <3>10. CASE PassAborts(s)
      <4>1. crashes' \in 0..MaxCrashes
        BY <3>10 DEF PassAborts
      <4> QED BY <3>10, <4>1 DEF PassAborts, DropPass
    <3> QED BY <2>4, <3>1, <3>2, <3>3, <3>4, <3>5, <3>6, <3>7, <3>8, <3>9, <3>10
            DEF WorkerStep
  <2>5. ASSUME NEW p \in Projects, DeleteProject(p) PROVE TypeOK'
    BY <2>5, DeleteKeepsTypes DEF DeleteProject
  <2>6. CASE CleanupRetention
    BY <2>6, DeleteKeepsTypes DEF CleanupRetention
  <2>7. CASE Crash
    <3>1. /\ crashes' \in 0..MaxCrashes
          /\ draft' \in Extraction
          /\ phase' \in Phases
          /\ batch' \in SUBSET Sessions
          /\ novel' \in SUBSET Facts
      BY <2>7 DEF Crash, DropPass, Nothing, Extraction, Phases
    <3>2. up' \in BOOLEAN
      BY <2>7 DEF Crash
    <3> QED BY <2>7, <3>1, <3>2 DEF Crash, DropPass
  <2>8. CASE Startup
    <3>1. state' \in [Sessions -> States]
      BY <2>8 DEF Startup, Migrated, States, Analyses
    <3>2. attempts' \in [Sessions -> Nat] /\ observed' \in [Sessions -> Nat]
      BY <2>8 DEF Startup
    <3>3. processed' \subseteq Sessions /\ up' \in BOOLEAN
      BY <2>8 DEF Startup
    <3> QED BY <2>8, <3>1, <3>2, <3>3 DEF Startup
  <2>9. CASE UNCHANGED vars
    BY <2>9 DEF vars
  <2> QED BY <2>1, <2>2, <2>3, <2>4, <2>5, <2>6, <2>7, <2>8, <2>9 DEF Next
<1> QED BY <1>1, <1>2, PTL DEF Spec

-----------------------------------------------------------------------------
(* The rows *)

\* What a step leaves alone decides most cases: the row invariant only reads
\* these variables.
LEMMA RowInvUnchanged ==
  ASSUME RowInv,
         UNCHANGED <<state, attempts, processed, legacy, ingested, up, batch, phase>>
  PROVE  RowInv'
BY DEF RowInv, AttemptsBounded, FailedOnlyWhenExhausted, FailedBefore, PendingIsUnprocessed,
       BatchIsOwed, Current, FreshIds, PassIsBatch, HistoryIsKept

\* Deleting rows keeps the row invariant.
LEMMA DeleteKeepsRowInv ==
  ASSUME TypeOK, RowInv, NEW rows, Delete(rows),
         UNCHANGED <<legacy, ingested, up, batch, phase>>
  PROVE  RowInv'
<1> USE DistillationAssumption DEF DistillationAssumption
<1>1. \A s \in Sessions :
         \/ s \in rows /\ state'[s] = "absent" /\ attempts'[s] = 0
         \/ s \notin rows /\ state'[s] = state[s] /\ attempts'[s] = attempts[s]
  BY DEF Delete
<1>2. processed' = processed \ rows
  BY DEF Delete
<1>3. AttemptsBounded' /\ FailedOnlyWhenExhausted' /\ PendingIsUnprocessed'
  BY <1>1, <1>2 DEF RowInv, AttemptsBounded, FailedOnlyWhenExhausted, FailedBefore,
                    PendingIsUnprocessed
<1>4. BatchIsOwed'
  BY <1>1 DEF RowInv, BatchIsOwed, Current, TypeOK
<1>5. FreshIds' /\ PassIsBatch'
  BY <1>1, <1>2 DEF RowInv, FreshIds, PassIsBatch
<1>6. HistoryIsKept'
  BY <1>1 DEF RowInv, HistoryIsKept, Analyses, Sessions
<1> QED BY <1>3, <1>4, <1>5, <1>6 DEF RowInv

\* Only the oldest row of the batch is current.
LEMMA CurrentIsUnique ==
  ASSUME TypeOK, NEW s \in Sessions, NEW t \in batch, Current(s), Current(t)
  PROVE  s = t
BY DEF TypeOK, Current, Sessions

\* Putting the current row back, or giving it up, keeps the row invariant.
LEMMA RequeueStep ==
  ASSUME TypeOK, RowInv, NEW s \in Sessions, Current(s), phase # "idle",
         Requeue(s), NextRow(s), UNCHANGED <<attempts, legacy, ingested, up>>
  PROVE  RowInv'
<1> USE DistillationAssumption DEF DistillationAssumption, TypeOK, RowInv
<1>1. AttemptsBounded'
  BY DEF AttemptsBounded
<1>2. FailedOnlyWhenExhausted'
  BY DEF FailedOnlyWhenExhausted, FailedBefore, Requeue
<1>3. PendingIsUnprocessed'
  BY DEF PendingIsUnprocessed, Requeue
<1>4. BatchIsOwed'
  <2> SUFFICES ASSUME NEW t \in batch'
               PROVE  /\ state'[t] \in {"pending", "archived", "absent"}
                      /\ attempts'[t] < MaxAttempts
    BY DEF BatchIsOwed
  <2>1. t \in batch /\ t # s
    BY DEF NextRow
  <2>2. ~Current(t)
    BY <2>1, CurrentIsUnique
  <2>3. state'[t] = state[t] /\ attempts'[t] = attempts[t]
    BY <2>1 DEF Requeue
  <2> QED BY <2>1, <2>2, <2>3 DEF BatchIsOwed
<1>5. FreshIds'
  BY DEF FreshIds, Requeue, NextRow, Current
<1>6. PassIsBatch'
  BY DEF PassIsBatch, NextRow, Current
<1>7. HistoryIsKept'
  <2>1. s \in batch /\ batch' \subseteq batch
    BY DEF NextRow, Current
  <2>2. \A t \in Sessions \ {s} : state'[t] = state[t]
    BY DEF Requeue
  <2> QED BY <2>1, <2>2, SMTT(40) DEF HistoryIsKept, Analyses, Sessions
<1> QED BY <1>1, <1>2, <1>3, <1>4, <1>5, <1>6, <1>7

\* A step of the worker keeps the row invariant.
LEMMA WorkerKeepsRowInv ==
  ASSUME TypeOK, RowInv, NEW s \in Sessions, WorkerStep(s)
  PROVE  RowInv'
<1> USE DistillationAssumption DEF DistillationAssumption, rowVars,
        storeVars
<1>1. CASE BeginAttempt(s)
  <2> USE <1>1 DEF BeginAttempt, RowInv, TypeOK
  <2>1. attempts[s] < MaxAttempts
    BY DEF BatchIsOwed, Current
  <2>2. /\ attempts'[s] \in {attempts[s], attempts[s] + 1}
        /\ \A t \in Sessions \ {s} : attempts'[t] = attempts[t]
    OBVIOUS
  <2>3. AttemptsBounded' /\ FailedOnlyWhenExhausted' /\ PendingIsUnprocessed'
    BY <2>1, <2>2 DEF AttemptsBounded, FailedOnlyWhenExhausted, FailedBefore,
                      PendingIsUnprocessed
  <2>4. BatchIsOwed'
    <3> SUFFICES ASSUME NEW t \in batch
                 PROVE  /\ state[t] \in {"pending", "archived", "absent"}
                        /\ attempts'[t] < MaxAttempts \/ t = s
      BY DEF BatchIsOwed, Current
    <3> QED BY <2>2 DEF BatchIsOwed
  <2>5. FreshIds' /\ PassIsBatch'
    BY DEF FreshIds, PassIsBatch
  <2>6. HistoryIsKept'
    BY <2>2 DEF HistoryIsKept, Current, Analyses, Sessions
  <2> QED BY <2>3, <2>4, <2>5, <2>6
<1>2. CASE ExtractNothing(s)
  BY <1>2, RequeueStep DEF ExtractNothing
<1>3. ASSUME phase # "idle", phase # "begin", phase' # "idle", phase' # "begin",
             phase # "invalidate",
             UNCHANGED <<state, attempts, processed, legacy, ingested, up, batch>>
      PROVE  RowInv'
  BY <1>3 DEF RowInv, AttemptsBounded, FailedOnlyWhenExhausted, FailedBefore,
      PendingIsUnprocessed, BatchIsOwed, Current, FreshIds, PassIsBatch, HistoryIsKept
<1>4. CASE ExtractSome(s) \/ DedupMemories(s) \/ SaveMemories(s) \/ SaveInstincts(s)
  BY <1>3, <1>4 DEF ExtractSome, DedupMemories, SaveMemories, SaveInstincts
<1>5. CASE FinishRow(s)
  <2> USE <1>5 DEF FinishRow, RowInv, TypeOK
  <2>1. /\ state'[s] \in {"distilled", "absent"}
        /\ \A t \in Sessions \ {s} : state'[t] = state[t]
        /\ processed' \in {processed, processed \cup {s}}
    BY DEF Exists
  <2>2. AttemptsBounded' /\ FailedOnlyWhenExhausted' /\ PendingIsUnprocessed'
    BY <2>1 DEF AttemptsBounded, FailedOnlyWhenExhausted, FailedBefore, PendingIsUnprocessed
  <2>3. \A t \in batch \ {s} : ~Current(t)
    BY CurrentIsUnique
  <2>4. BatchIsOwed'
    BY <2>1, <2>3 DEF BatchIsOwed, NextRow, Current
  <2>5. s <= ingested
    BY DEF FreshIds, Current, Sessions
  <2>6. FreshIds'
    <3>1. batch' \subseteq batch
      BY DEF NextRow
    <3>2. \A t \in Sessions : t > ingested => t # s
      BY <2>5 DEF Sessions
    <3> QED BY <2>1, <3>1, <3>2 DEF FreshIds
  <2>7. PassIsBatch'
    BY DEF PassIsBatch, NextRow, Current
  <2>8. HistoryIsKept'
    BY <2>1 DEF HistoryIsKept, NextRow, Current, Analyses, Sessions
  <2> QED BY <2>2, <2>4, <2>6, <2>7, <2>8
<1>6. CASE InvalidateVault(s)
  <2> USE <1>6 DEF InvalidateVault, RowInv, TypeOK
  <2>1. AttemptsBounded' /\ FailedOnlyWhenExhausted' /\ PendingIsUnprocessed'
    BY DEF AttemptsBounded, FailedOnlyWhenExhausted, FailedBefore, PendingIsUnprocessed
  <2>2. \A t \in batch \ {s} : ~Current(t)
    BY CurrentIsUnique
  <2>3. BatchIsOwed'
    BY <2>2 DEF BatchIsOwed, NextRow
  <2>4. FreshIds' /\ PassIsBatch'
    BY DEF FreshIds, PassIsBatch, NextRow, Current
  <2>5. HistoryIsKept'
    BY DEF HistoryIsKept, NextRow
  <2> QED BY <2>1, <2>3, <2>4, <2>5
<1>7. CASE RowRaises(s)
  BY <1>7, RequeueStep DEF RowRaises
<1>8. CASE PassAborts(s)
  BY <1>8 DEF PassAborts, DropPass, RowInv, AttemptsBounded,
     FailedOnlyWhenExhausted, FailedBefore, PendingIsUnprocessed, BatchIsOwed, FreshIds,
     PassIsBatch, HistoryIsKept
<1> QED BY <1>1, <1>2, <1>4, <1>5, <1>6, <1>7, <1>8 DEF WorkerStep

\* A start keeps the row invariant: it copies what is missing, and nobody works.
LEMMA StartupKeepsRowInv ==
  ASSUME TypeOK, RowInv, Startup
  PROVE  RowInv'
<1> USE DistillationAssumption DEF DistillationAssumption
<1> DEFINE missing == {s \in Analyses : ~Exists(s) /\ project[s] \in projects}
<1>1. batch = {} /\ batch' = {} /\ phase' = "idle"
  BY DEF Startup, RowInv, PassIsBatch, workerVars
<1>2. UNCHANGED <<legacy, ingested>>
  BY DEF Startup
<1>3. \A s \in Sessions \ missing :
         /\ state'[s] = state[s] /\ attempts'[s] = attempts[s]
         /\ s \in processed' <=> s \in processed
  BY DEF Startup, RowInv, PendingIsUnprocessed
<1>4. \A s \in missing :
         /\ s \in Analyses /\ s \in Sessions /\ state[s] = "absent"
         /\ state'[s] = Migrated(s) /\ attempts'[s] = 0
         /\ s \in processed' <=> legacy[s] = "processed"
  BY DEF Startup, Exists, Analyses, Sessions
<1>5. \A s \in missing :
         \/ legacy[s] = "processed" /\ state'[s] = "distilled"
         \/ legacy[s] = "errored" /\ state'[s] = "failed"
         \/ legacy[s] = "waiting" /\ state'[s] = "pending"
  BY <1>4 DEF Migrated, TypeOK
<1>6. \A s \in missing : s <= ingested
  BY <1>4 DEF TypeOK, Analyses
<1> HIDE DEF missing
<1>7. AttemptsBounded'
  BY <1>3, <1>4 DEF RowInv, AttemptsBounded
<1>8. FailedOnlyWhenExhausted'
  BY <1>2, <1>3, <1>4, <1>5 DEF RowInv, FailedOnlyWhenExhausted, FailedBefore
<1>9. PendingIsUnprocessed'
  BY <1>3, <1>4, <1>5 DEF RowInv, PendingIsUnprocessed
<1>10. BatchIsOwed' /\ PassIsBatch'
  BY <1>1 DEF BatchIsOwed, PassIsBatch
<1>11. FreshIds'
  <2> SUFFICES ASSUME NEW s \in Sessions, s > ingested
               PROVE  state'[s] = "absent" /\ s \notin batch' \cup processed'
    BY <1>2 DEF FreshIds
  <2>1. s \notin missing
    BY <1>6 DEF TypeOK, Sessions
  <2> QED BY <1>1, <1>3, <2>1 DEF RowInv, FreshIds
<1>12. HistoryIsKept'
  <2> SUFFICES ASSUME NEW s \in Analyses
               PROVE  /\ legacy[s] = "processed" => state'[s] \in {"absent", "distilled"}
                      /\ legacy[s] = "errored" => state'[s] \in {"absent", "failed"}
                      /\ legacy[s] # "waiting" => attempts'[s] = 0 /\ s \notin batch'
    BY <1>2 DEF HistoryIsKept
  <2>1. s \in Sessions
    BY DEF Analyses, Sessions
  <2> QED BY <1>1, <1>3, <1>4, <1>5, <2>1 DEF RowInv, HistoryIsKept
<1> QED BY <1>7, <1>8, <1>9, <1>10, <1>11, <1>12 DEF RowInv

\* The row invariant holds: attempts are bounded, a failed row has spent them
\* all, a waiting row bears no processed stamp, and a pass works on rows that
\* were owed to it.
THEOREM RowsAreSound == Spec => []RowInv
<1> USE DistillationAssumption DEF DistillationAssumption
<1>1. Init => RowInv
  BY DEF Init, RowInv, AttemptsBounded, FailedOnlyWhenExhausted,
         PendingIsUnprocessed, BatchIsOwed, FreshIds, PassIsBatch, HistoryIsKept, Analyses, Sessions
<1>2. TypeOK /\ RowInv /\ [Next]_vars => RowInv'
  <2> SUFFICES ASSUME TypeOK, RowInv, [Next]_vars PROVE RowInv'
    OBVIOUS
  <2> USE DEF rowVars, storeVars, workerVars
  <2>1. CASE IngestFiltered
    <3> USE <2>1 DEF IngestFiltered, RowInv, TypeOK
    <3>1. ingested + 1 \in Sessions \ batch
      BY DEF FreshIds, Sessions
    <3>2. AttemptsBounded' /\ FailedOnlyWhenExhausted' /\ PendingIsUnprocessed'
      BY <3>1 DEF AttemptsBounded, FailedOnlyWhenExhausted, FailedBefore, PendingIsUnprocessed
    <3>3. BatchIsOwed'
      BY <3>1 DEF BatchIsOwed, Current
    <3>4. FreshIds'
      <4>1. \A t \in Sessions : t > ingested' => t > ingested /\ t # ingested + 1
        BY DEF Sessions
      <4> QED BY <4>1 DEF FreshIds
    <3>5. PassIsBatch'
      BY DEF PassIsBatch
    <3>6. HistoryIsKept'
      BY <3>1 DEF HistoryIsKept, Analyses, Sessions
    <3> QED BY <3>2, <3>3, <3>4, <3>5, <3>6
  <2>2. CASE IngestPending
    <3> USE <2>2 DEF IngestPending, RowInv, TypeOK
    <3>1. /\ ingested + 1 \in Sessions \ (batch \cup processed)
          /\ ingested' = ingested + 1
      BY DEF FreshIds, Sessions
    <3>2. \A t \in Sessions \ {ingested + 1} :
             \/ state'[t] = state[t]
             \/ state[t] = "pending" /\ state'[t] = "archived"
      BY DEF PendingOf
    <3>3. state'[ingested + 1] \in {"pending", "archived"}
      BY <3>1
    <3>4. AttemptsBounded' /\ FailedOnlyWhenExhausted' /\ PendingIsUnprocessed'
      BY <3>1, <3>2, <3>3 DEF AttemptsBounded, FailedOnlyWhenExhausted, FailedBefore,
                              PendingIsUnprocessed
    <3>5. BatchIsOwed'
      BY <3>1, <3>2 DEF BatchIsOwed, Current
    <3>6. FreshIds'
      <4>1. \A t \in Sessions : t > ingested' => t > ingested /\ t # ingested + 1
        BY DEF Sessions
      <4> QED BY <3>2, <4>1 DEF FreshIds
    <3>7. PassIsBatch'
      BY DEF PassIsBatch
    <3>8. HistoryIsKept'
      <4>1. \A t \in Analyses : t \in Sessions \ {ingested + 1}
        BY DEF Analyses, Sessions
      <4>2. UNCHANGED <<attempts, legacy, batch>>
        OBVIOUS
      <4>3. \A t \in Analyses : state'[t] = state[t] \/ legacy[t] = "waiting"
        BY <3>2, <4>1 DEF HistoryIsKept
      <4> QED BY <4>2, <4>3 DEF HistoryIsKept
    <3> QED BY <3>4, <3>5, <3>6, <3>7, <3>8
  <2>3. CASE FetchBatch
    <3> USE <2>3 DEF FetchBatch, RowInv, TypeOK
    <3>1. batch' \subseteq Eligible /\ batch' # {}
      OBVIOUS
    <3>2. AttemptsBounded' /\ FailedOnlyWhenExhausted' /\ PendingIsUnprocessed'
      BY DEF AttemptsBounded, FailedOnlyWhenExhausted, FailedBefore, PendingIsUnprocessed
    <3>3. BatchIsOwed' /\ FreshIds' /\ PassIsBatch'
      BY <3>1 DEF BatchIsOwed, FreshIds, PassIsBatch, Eligible
    <3>4. HistoryIsKept'
      BY <3>1 DEF HistoryIsKept, Eligible, TypeOK
    <3> QED BY <3>2, <3>3, <3>4
  <2>4. ASSUME NEW s \in Sessions, WorkerStep(s) PROVE RowInv'
    BY <2>4, WorkerKeepsRowInv
  <2>5. ASSUME NEW p \in Projects, DeleteProject(p) PROVE RowInv'
    BY <2>5, DeleteKeepsRowInv DEF DeleteProject
  <2>6. CASE CleanupRetention
    BY <2>6, DeleteKeepsRowInv DEF CleanupRetention
  <2>7. CASE Crash
    BY <2>7 DEF Crash, DropPass, RowInv, AttemptsBounded, FailedOnlyWhenExhausted, FailedBefore,
       PendingIsUnprocessed, BatchIsOwed, FreshIds, PassIsBatch, HistoryIsKept
  <2>8. CASE Startup
    BY <2>8, StartupKeepsRowInv
  <2>9. CASE UNCHANGED vars
    BY <2>9, RowInvUnchanged DEF vars
  <2> QED BY <2>1, <2>2, <2>3, <2>4, <2>5, <2>6, <2>7, <2>8, <2>9 DEF Next
<1> QED BY <1>1, <1>2, TypeCorrect, PTL DEF Spec

\* No row is ever handed to the LLM more than max_attempts times.
THEOREM AttemptsAreBounded == Spec => []AttemptsBounded
BY RowsAreSound, PTL DEF RowInv

\* No row is failed with attempts left.
THEOREM FailureIsEarned == Spec => []FailedOnlyWhenExhausted
BY RowsAreSound, PTL DEF RowInv

\* No waiting row looks processed to retention or to the startup backfill.
THEOREM PendingRowsAreUnprocessed == Spec => []PendingIsUnprocessed
BY RowsAreSound, PTL DEF RowInv

\* What raw_analyses had processed or failed is never taken up again: its copies
\* are not attempted, over any number of purges, crashes and starts.
THEOREM HistoryStays == Spec => []HistoryIsNotRedistilled
<1>1. TypeOK /\ RowInv => HistoryIsNotRedistilled
  BY DEF TypeOK, RowInv, HistoryIsKept, HistoryIsNotRedistilled
<1> QED BY <1>1, TypeCorrect, RowsAreSound, PTL

-----------------------------------------------------------------------------
(* The ceiling *)

\* Sets of sessions are finite.
LEMMA SessionsAreFinite ==
  ASSUME NEW S \in SUBSET Sessions
  PROVE  IsFiniteSet(S) /\ Cardinality(S) \in Nat
<1>1. MaxSessions \in Int /\ 1 \in Int
  BY DistillationAssumption DEF DistillationAssumption
<1>2. IsFiniteSet(1..MaxSessions)
  BY ONLY <1>1, FS_Interval
<1>3. IsFiniteSet(S)
  BY <1>2, FS_Subset DEF Sessions
<1> QED BY <1>3, FS_CardinalityType

\* A step that brings nobody more owed rows, copies aside, and does not enlarge
\* the batch keeps the backlog invariant.
LEMMA ShrinkingKeepsBacklog ==
  ASSUME TypeOK, BacklogInv,
         \A u \in Users : OwedTo(u)' \ Analyses \subseteq OwedTo(u) \ Analyses,
         batch' \subseteq batch
  PROVE  BacklogInv'
<1> USE DistillationAssumption DEF DistillationAssumption
<1>1. batch \in SUBSET Sessions
  BY DEF TypeOK
<1>2. Cardinality(batch') <= Cardinality(batch) /\ Cardinality(batch') \in Nat
      /\ Cardinality(batch) \in Nat
  BY <1>1, SessionsAreFinite, FS_Subset
<1>3. ASSUME NEW u \in Users
      PROVE  Cardinality(OwedTo(u)' \ Analyses) <= MaxPending + BatchSize
  <2> DEFINE old == OwedTo(u) \ Analyses
             new == OwedTo(u)' \ Analyses
  <2>1. old \in SUBSET Sessions /\ new \in SUBSET old
    BY DEF OwedTo
  <2>2. Cardinality(old) <= MaxPending + BatchSize
    BY DEF BacklogInv
  <2> HIDE DEF old, new
  <2>3. Cardinality(new) <= Cardinality(old)
    BY <2>1, SessionsAreFinite, FS_Subset
  <2>4. Cardinality(new) \in Nat /\ Cardinality(old) \in Nat
    BY <2>1, SessionsAreFinite
  <2>5. Cardinality(new) <= MaxPending + BatchSize
    BY <2>2, <2>3, <2>4
  <2> QED BY <2>5 DEF new
<1> QED BY <1>2, <1>3 DEF BacklogInv

\* Ingest leaves its user at most MaxPending waiting rows, beside those the
\* batch may put back.
LEMMA IngestKeepsBacklog ==
  ASSUME TypeOK, RowInv, BacklogInv, IngestPending
  PROVE  BacklogInv'
<1> USE DistillationAssumption DEF DistillationAssumption
<1> DEFINE s == ingested + 1
           waiting == PendingOf(Owner(s)) \cup {s}
<1>1. s \in Sessions \ batch
  BY DEF IngestPending, RowInv, FreshIds, TypeOK, Sessions
<1>2. PICK overflow \in SUBSET waiting :
          /\ Cardinality(overflow) =
                 IF Cardinality(waiting) > MaxPending
                 THEN Cardinality(waiting) - MaxPending ELSE 0
          /\ state' = [t \in Sessions |-> IF t \in overflow THEN "archived"
                                          ELSE IF t = s THEN "pending"
                                          ELSE state[t]]
  BY DEF IngestPending
<1>3. waiting \in SUBSET Sessions
  BY <1>1 DEF PendingOf
<1>4. UNCHANGED <<batch, project>>
  BY DEF IngestPending, workerVars
<1>5. ASSUME NEW u \in Users
      PROVE  Cardinality(OwedTo(u)' \ Analyses) <= MaxPending + BatchSize
  <2>1. CASE u = Owner(s)
    <3>1. OwedTo(u)' \ Analyses \subseteq (waiting \ overflow) \cup batch
      BY <1>1, <1>2, <1>4, <2>1 DEF OwedTo, Owner, PendingOf
    <3>2. waiting \cap overflow = overflow
      OBVIOUS
    <3>3. Cardinality(waiting \ overflow) = Cardinality(waiting) - Cardinality(overflow)
      BY <1>3, <3>2, SessionsAreFinite, FS_Difference
    <3>4. Cardinality(waiting) \in Nat
      BY <1>3, SessionsAreFinite
    <3>5. Cardinality(waiting \ overflow) <= MaxPending
      BY <1>2, <3>3, <3>4
    <3>6. /\ waiting \ overflow \in SUBSET Sessions
          /\ batch \in SUBSET Sessions
      BY <1>3 DEF TypeOK
    <3>7. Cardinality((waiting \ overflow) \cup batch)
             = Cardinality(waiting \ overflow) + Cardinality(batch)
               - Cardinality((waiting \ overflow) \cap batch)
      BY <3>6, SessionsAreFinite, FS_Union
    <3>8. /\ Cardinality(waiting \ overflow) \in Nat
          /\ Cardinality(batch) \in Nat
          /\ Cardinality((waiting \ overflow) \cap batch) \in Nat
      BY <3>6, SessionsAreFinite
    <3>9. /\ Cardinality(OwedTo(u)' \ Analyses) <= Cardinality((waiting \ overflow) \cup batch)
          /\ Cardinality(OwedTo(u)' \ Analyses) \in Nat
      <4>1. (waiting \ overflow) \cup batch \in SUBSET Sessions
        BY <3>6
      <4>2. IsFiniteSet((waiting \ overflow) \cup batch)
        BY <4>1, SessionsAreFinite
      <4>3. OwedTo(u)' \ Analyses \in SUBSET Sessions
        BY DEF OwedTo
      <4> QED BY <3>1, <4>2, <4>3, SessionsAreFinite, FS_Subset
    <3> QED BY <3>5, <3>7, <3>8, <3>9 DEF BacklogInv
  <2>2. CASE u # Owner(s)
    <3>1. OwedTo(u)' = OwedTo(u)
      BY <1>1, <1>2, <1>3, <1>4, <2>2 DEF OwedTo, Owner, PendingOf
    <3> QED BY <3>1 DEF BacklogInv
  <2> QED BY <2>1, <2>2
<1> QED BY <1>4, <1>5 DEF BacklogInv

\* The ceiling on the backlog of a user is overshot by one batch at most, and by
\* the waiting rows of raw_analyses, which every start may copy.
THEOREM BacklogIsBounded == Spec => []BacklogBounded
<1> USE DistillationAssumption DEF DistillationAssumption
<1>1. Init => BacklogInv
  <2> SUFFICES ASSUME Init PROVE BacklogInv
    OBVIOUS
  <2>1. batch = {} /\ \A u \in Users : OwedTo(u) \ Analyses = {}
    BY DEF Init, OwedTo
  <2> QED BY <2>1, FS_EmptySet DEF BacklogInv
<1>2. TypeOK /\ TypeOK' /\ RowInv /\ BacklogInv /\ [Next]_vars => BacklogInv'
  <2> SUFFICES ASSUME TypeOK, TypeOK', RowInv, BacklogInv, [Next]_vars
               PROVE  BacklogInv'
    OBVIOUS
  <2> USE DEF rowVars, storeVars, workerVars
  <2>1. CASE IngestFiltered
    <3>1. ingested + 1 \in Sessions
      BY <2>1 DEF IngestFiltered, TypeOK, Sessions
    <3>2. \A u \in Users : OwedTo(u)' \ Analyses \subseteq OwedTo(u) \ Analyses
      BY <2>1, <3>1 DEF IngestFiltered, OwedTo, Owner, TypeOK
    <3> QED BY <2>1, <3>2, ShrinkingKeepsBacklog DEF IngestFiltered
  <2>2. CASE IngestPending
    BY <2>2, IngestKeepsBacklog
  <2>3. CASE FetchBatch
    <3>1. batch' \in SUBSET Eligible /\ Cardinality(batch') <= BatchSize
      <4>1. Eligible \in SUBSET Sessions
        BY DEF Eligible
      <4>2. Cardinality(Eligible) \in Nat
        BY <4>1, SessionsAreFinite
      <4> QED BY <2>3, <4>2 DEF FetchBatch
    <3>2. ASSUME NEW u \in Users PROVE OwedTo(u)' = OwedTo(u)
      <4>1. batch = {}
        BY <2>3 DEF FetchBatch, RowInv, PassIsBatch
      <4> QED BY <2>3, <3>1, <4>1 DEF FetchBatch, OwedTo, Owner, Eligible
    <3> QED BY <3>1, <3>2 DEF BacklogInv
  <2>4. ASSUME NEW s \in Sessions, WorkerStep(s) PROVE BacklogInv'
    <3>1. /\ s \in batch
          /\ batch' \subseteq batch
          /\ project' = project
          /\ \A t \in Sessions \ {s} : state'[t] = state[t]
      BY <2>4 DEF WorkerStep, BeginAttempt, ExtractNothing, ExtractSome,
         DedupMemories, SaveMemories, SaveInstincts, FinishRow, InvalidateVault,
         RowRaises, PassAborts, DropPass, Requeue, NextRow, Current, TypeOK
    <3>2. state[s] \in {"pending", "archived", "absent", "distilled"}
      BY <3>1 DEF RowInv, BatchIsOwed
    <3>3. state'[s] = "absent" <=> state[s] = "absent"
      BY <2>4 DEF WorkerStep, BeginAttempt, ExtractNothing, ExtractSome,
         DedupMemories, SaveMemories, SaveInstincts, FinishRow, InvalidateVault,
         RowRaises, PassAborts, Requeue, Exists, TypeOK
    <3>4. ASSUME NEW u \in Users PROVE OwedTo(u)' \subseteq OwedTo(u)
      BY <3>1, <3>2, <3>3 DEF OwedTo, Owner
    <3> QED BY <3>1, <3>4, ShrinkingKeepsBacklog
  <2>5. ASSUME NEW p \in Projects, DeleteProject(p) PROVE BacklogInv'
    <3>1. \A u \in Users : OwedTo(u)' \subseteq OwedTo(u)
      BY <2>5 DEF DeleteProject, Delete, OwedTo, Owner
    <3> QED BY <2>5, <3>1, ShrinkingKeepsBacklog DEF DeleteProject
  <2>6. CASE CleanupRetention
    <3>1. \A u \in Users : OwedTo(u)' \subseteq OwedTo(u)
      BY <2>6 DEF CleanupRetention, Delete, OwedTo, Owner
    <3> QED BY <2>6, <3>1, ShrinkingKeepsBacklog DEF CleanupRetention
  <2>7. CASE Crash
    <3>1. \A u \in Users : OwedTo(u)' \subseteq OwedTo(u)
      BY <2>7 DEF Crash, DropPass, OwedTo, Owner
    <3> QED BY <2>7, <3>1, ShrinkingKeepsBacklog DEF Crash, DropPass
  <2>8. CASE Startup
    <3>1. batch = {} /\ UNCHANGED <<batch, project>>
      BY <2>8 DEF Startup, RowInv, PassIsBatch
    <3>2. \A s \in Sessions \ Analyses : state'[s] = state[s]
      BY <2>8 DEF Startup, RowInv, PendingIsUnprocessed
    <3>3. \A u \in Users : OwedTo(u)' \ Analyses \subseteq OwedTo(u) \ Analyses
      BY <3>1, <3>2 DEF OwedTo, Owner
    <3> QED BY <3>1, <3>3, ShrinkingKeepsBacklog
  <2>9. CASE UNCHANGED vars
    <3>1. \A u \in Users : OwedTo(u)' = OwedTo(u)
      BY <2>9 DEF vars, OwedTo, Owner
    <3> QED BY <2>9, <3>1, ShrinkingKeepsBacklog DEF vars
  <2> QED BY <2>1, <2>2, <2>3, <2>4, <2>5, <2>6, <2>7, <2>8, <2>9 DEF Next
<1>3. TypeOK /\ RowInv /\ BacklogInv => BacklogBounded
  <2> SUFFICES ASSUME TypeOK, RowInv, BacklogInv, NEW u \in Users
               PROVE  Cardinality(PendingOf(u))
                         <= MaxPending + BatchSize + Cardinality(WaitingLegacy(u))
    BY DEF BacklogBounded
  <2> DEFINE queued == PendingOf(u)
             owed == OwedTo(u) \ Analyses
             copies == WaitingLegacy(u)
  <2>1. queued \subseteq owed \cup copies
    <3> SUFFICES ASSUME NEW s \in Sessions, state[s] = "pending", Owner(s) = u
                 PROVE  s \in owed \cup copies
      BY DEF PendingOf
    <3>1. CASE s \notin Analyses
      BY <3>1 DEF OwedTo
    <3>2. CASE s \in Analyses
      <4>1. legacy[s] = "waiting"
        BY <3>2 DEF TypeOK, RowInv, HistoryIsKept
      <4> QED BY <3>2, <4>1 DEF WaitingLegacy
    <3> QED BY <3>1, <3>2
  <2>2. queued \in SUBSET Sessions /\ owed \in SUBSET Sessions /\ copies \in SUBSET Sessions
    BY DEF PendingOf, OwedTo, WaitingLegacy, Analyses, Sessions
  <2>3. Cardinality(owed) <= MaxPending + BatchSize
    BY DEF BacklogInv
  <2> HIDE DEF queued, owed, copies
  <2>4. /\ IsFiniteSet(owed) /\ IsFiniteSet(copies)
        /\ Cardinality(queued) \in Nat /\ Cardinality(owed) \in Nat
        /\ Cardinality(copies) \in Nat
        /\ owed \cup copies \in SUBSET Sessions
    BY <2>2, SessionsAreFinite
  <2>5. /\ IsFiniteSet(owed \cup copies)
        /\ Cardinality(owed \cup copies) \in Nat
        /\ Cardinality(owed \cap copies) \in Nat
    BY <2>2, <2>4, SessionsAreFinite
  <2>6. Cardinality(queued) <= Cardinality(owed \cup copies)
    BY <2>1, <2>5, FS_Subset
  <2>7. Cardinality(owed \cup copies)
          = Cardinality(owed) + Cardinality(copies) - Cardinality(owed \cap copies)
    BY <2>4, FS_Union
  <2>8. Cardinality(queued) <= MaxPending + BatchSize + Cardinality(copies)
    BY <2>3, <2>4, <2>5, <2>6, <2>7
  <2> QED BY <2>8 DEF queued, copies
<1> QED BY <1>1, <1>2, <1>3, TypeCorrect, RowsAreSound, PTL DEF Spec

-----------------------------------------------------------------------------
(* What no step may do *)

\* What the worker does to the states: only the row in hand changes, it is not
\* deleted, and unless the vault cache is being dropped it was not settled.
LEMMA WorkerMovesOneRow ==
  ASSUME TypeOK, RowInv, NEW s \in Sessions, WorkerStep(s)
  PROVE  /\ Current(s)
         /\ \A t \in Sessions \ {s} : state'[t] = state[t]
         /\ state'[s] = "absent" <=> state[s] = "absent"
         /\ phase = "invalidate" \/ state[s] \in {"pending", "archived", "absent"}
         /\ projects' = projects
<1> USE DEF WorkerStep, rowVars, storeVars
<1>1. Current(s)
  BY DEF BeginAttempt, ExtractNothing, ExtractSome, DedupMemories, SaveMemories,
         SaveInstincts, FinishRow, InvalidateVault, RowRaises, PassAborts
<1>2. \A t \in Sessions \ {s} : state'[t] = state[t]
  BY DEF BeginAttempt, ExtractNothing, ExtractSome, DedupMemories, SaveMemories,
         SaveInstincts, FinishRow, InvalidateVault, RowRaises, PassAborts,
         Requeue, TypeOK
<1>3. state'[s] = "absent" <=> state[s] = "absent"
  BY DEF BeginAttempt, ExtractNothing, ExtractSome, DedupMemories, SaveMemories,
         SaveInstincts, FinishRow, InvalidateVault, RowRaises, PassAborts,
         Requeue, Exists, TypeOK
<1>4. phase = "invalidate" \/ state[s] \in {"pending", "archived", "absent"}
  BY <1>1 DEF RowInv, BatchIsOwed, Current
<1>5. projects' = projects
  BY DEF BeginAttempt, ExtractNothing, ExtractSome, DedupMemories, SaveMemories,
         SaveInstincts, FinishRow, InvalidateVault, RowRaises, PassAborts
<1> QED BY <1>1, <1>2, <1>3, <1>4, <1>5

\* A row that waits is deleted only with its project.
THEOREM OwedRowsSurvive == Spec => OwedRowsAreKept
<1>1. TypeOK /\ RowInv /\ [Next]_vars =>
        [\A s \in Sessions : state[s] = "pending" /\ state'[s] = "absent"
                             => project[s] \notin projects']_vars
  <2> SUFFICES ASSUME TypeOK, RowInv, Next, NEW s \in Sessions,
                      state[s] = "pending", state'[s] = "absent"
               PROVE  project[s] \notin projects'
    OBVIOUS
  <2> USE DEF rowVars, storeVars, workerVars
  <2>1. CASE IngestFiltered
    BY <2>1 DEF IngestFiltered, TypeOK
  <2>2. CASE IngestPending
    BY <2>2 DEF IngestPending
  <2>3. CASE FetchBatch
    BY <2>3 DEF FetchBatch
  <2>4. ASSUME NEW t \in Sessions, WorkerStep(t)
        PROVE  project[s] \notin projects'
    BY <2>4, WorkerMovesOneRow
  <2>5. ASSUME NEW p \in Projects, DeleteProject(p)
        PROVE  project[s] \notin projects'
    BY <2>5 DEF DeleteProject, Delete
  <2>6. CASE CleanupRetention
    BY <2>6 DEF CleanupRetention, Delete, Reclaimable, RowInv, PendingIsUnprocessed
  <2>7. CASE Crash
    BY <2>7 DEF Crash, DropPass
  <2>8. CASE Startup
    BY <2>8 DEF Startup, Exists
  <2> QED BY <2>8, <2>1, <2>2, <2>3, <2>4, <2>5, <2>6, <2>7 DEF Next
<1> QED BY <1>1, TypeCorrect, RowsAreSound, PTL DEF Spec, OwedRowsAreKept

\* A settled row is touched again only by deletions, the row in hand aside
\* whose vault cache is being dropped.
THEOREM SettledRowsStay == Spec => SettledStaysSettled
<1>1. TypeOK /\ RowInv /\ [Next]_vars =>
        [\A s \in Sessions :
           (state[s] \in {"distilled", "filtered", "failed"} /\ state'[s] # state[s])
           => (state'[s] = "absent" \/ (phase = "invalidate" /\ Current(s)))]_vars
  <2> SUFFICES ASSUME TypeOK, RowInv, Next, NEW s \in Sessions,
                      state[s] \in {"distilled", "filtered", "failed"},
                      state'[s] # state[s], state'[s] # "absent"
               PROVE  phase = "invalidate" /\ Current(s)
    OBVIOUS
  <2> USE DEF rowVars, storeVars, workerVars
  <2>1. state[ingested + 1] = "absent" \/ ingested + 1 \notin Sessions
    BY DEF RowInv, FreshIds, TypeOK, Sessions
  <2>2. CASE IngestFiltered
    BY <2>1, <2>2 DEF IngestFiltered, TypeOK
  <2>3. CASE IngestPending
    BY <2>1, <2>3 DEF IngestPending, PendingOf
  <2>4. CASE FetchBatch
    BY <2>4 DEF FetchBatch
  <2>5. ASSUME NEW t \in Sessions, WorkerStep(t)
        PROVE  phase = "invalidate" /\ Current(s)
    BY <2>5, WorkerMovesOneRow
  <2>6. ASSUME NEW p \in Projects, DeleteProject(p)
        PROVE  phase = "invalidate" /\ Current(s)
    BY <2>6 DEF DeleteProject, Delete
  <2>7. CASE CleanupRetention
    BY <2>7 DEF CleanupRetention, Delete
  <2>8. CASE Crash
    BY <2>8 DEF Crash, DropPass
  <2>9. CASE Startup
    BY <2>9 DEF Startup, Exists
  <2> QED BY <2>9, <2>2, <2>3, <2>4, <2>5, <2>6, <2>7, <2>8 DEF Next
<1> QED BY <1>1, TypeCorrect, RowsAreSound, PTL DEF Spec, SettledStaysSettled

-----------------------------------------------------------------------------
(* The memories *)

\* A row becomes distilled only when all of its memories are in the store.
THEOREM SavedBeforeSettled == Spec => []FinishAfterSave
<1>1. Init => FinishAfterSave
  BY DEF Init, FinishAfterSave
<1>2. TypeOK /\ RowInv /\ FinishAfterSave /\ [Next]_vars => FinishAfterSave'
  <2> SUFFICES ASSUME TypeOK, RowInv, FinishAfterSave, [Next]_vars
               PROVE  FinishAfterSave'
    OBVIOUS
  <2> USE DEF rowVars, storeVars, workerVars
  <2>1. ASSUME UNCHANGED <<batch, phase, draft, novel, memories, project>>
        PROVE  FinishAfterSave'
    BY <2>1 DEF FinishAfterSave, Current
  <2>2. ASSUME phase' \in {"idle", "begin", "extract", "dedup"}
        PROVE  FinishAfterSave'
    BY <2>2 DEF FinishAfterSave
  <2>3. ASSUME NEW s \in Sessions, WorkerStep(s)
        PROVE  FinishAfterSave'
    <3>1. CASE BeginAttempt(s) \/ ExtractNothing(s) \/ ExtractSome(s)
               \/ InvalidateVault(s) \/ RowRaises(s) \/ PassAborts(s)
      BY <2>2, <3>1 DEF BeginAttempt, ExtractNothing, ExtractSome,
         InvalidateVault, RowRaises, PassAborts, DropPass, NextRow
    <3>2. \A t \in batch : Current(t) => t = s
      BY <2>3, WorkerMovesOneRow, CurrentIsUnique
    <3>3. CASE DedupMemories(s)
      <4>1. draft.facts \subseteq memories[project[s]] \cup novel'
        BY <3>3 DEF DedupMemories
      <4>2. \A t \in batch : Current(t)' => t = s
        BY <3>2, <3>3 DEF DedupMemories, Current
      <4> QED BY <3>3, <4>1, <4>2 DEF DedupMemories, FinishAfterSave
    <3>4. CASE SaveMemories(s)
      <4>1. draft.facts \subseteq memories[project[s]] \cup novel
        BY <3>4 DEF SaveMemories, FinishAfterSave, Current
      <4>2. memories'[project[s]] = memories[project[s]] \cup novel
        BY <3>4 DEF SaveMemories, TypeOK
      <4>3. \A t \in batch : Current(t)' => t = s
        BY <3>2, <3>4 DEF SaveMemories, Current
      <4> QED BY <3>4, <4>1, <4>2, <4>3 DEF SaveMemories, FinishAfterSave
    <3>5. CASE SaveInstincts(s)
      BY <3>5 DEF SaveInstincts, FinishAfterSave, Current
    <3>6. CASE FinishRow(s)
      <4>1. CASE novel # {}
        BY <3>6, <4>1 DEF FinishRow, FinishAfterSave, Current
      <4>2. CASE novel = {}
        BY <2>2, <3>6, <4>2 DEF FinishRow, NextRow
      <4> QED BY <4>1, <4>2
    <3> QED BY <2>3, <3>1, <3>3, <3>4, <3>5, <3>6 DEF WorkerStep
  <2>4. CASE IngestFiltered \/ IngestPending
    BY <2>1, <2>4 DEF IngestFiltered, IngestPending
  <2>5. CASE FetchBatch \/ Crash
    BY <2>2, <2>5 DEF FetchBatch, Crash, DropPass
  <2>6. ASSUME NEW p \in Projects, DeleteProject(p)
        PROVE  FinishAfterSave'
    BY <2>1, <2>6 DEF DeleteProject
  <2>7. CASE CleanupRetention \/ Startup
    BY <2>1, <2>7 DEF CleanupRetention, Startup
  <2>8. CASE UNCHANGED vars
    BY <2>1, <2>8 DEF vars
  <2> QED BY <2>3, <2>4, <2>5, <2>6, <2>7, <2>8 DEF Next
<1> QED BY <1>1, <1>2, TypeCorrect, RowsAreSound, PTL DEF Spec

-----------------------------------------------------------------------------
(* Refinement *)

\* Booking an attempt is a Try of the abstract row machine, or nothing if the
\* row is gone.
LEMMA BeginAttemptRefines ==
  ASSUME TypeOK, RowInv, NEW s \in Sessions, BeginAttempt(s)
  PROVE  Lifecycle!Try(s) \/ UNCHANGED Lifecycle!vars
<1> USE DEF rowVars, BeginAttempt
<1>1. s \in batch /\ attempts[s] < MaxAttempts
  BY DEF RowInv, BatchIsOwed, Current
<1>2. CASE Exists(s)
  BY <1>1, <1>2 DEF Lifecycle!Try
<1>3. CASE ~Exists(s)
  <2>1. attempts' = attempts
    BY <1>3 DEF TypeOK
  <2> QED BY <2>1 DEF Lifecycle!vars
<1> QED BY <1>2, <1>3

\* Putting the row in hand back, or giving it up, is a Settle, or a Release if
\* the row is gone.
LEMMA RequeueRefines ==
  ASSUME TypeOK, NEW s \in Sessions, Current(s), Requeue(s), NextRow(s),
         attempts' = attempts
  PROVE  Lifecycle!Settle(s) \/ Lifecycle!Release
<1> USE DistillationAssumption DEF DistillationAssumption
<1>1. s \in batch /\ batch' = batch \ {s}
  BY DEF Current, NextRow
<1>2. CASE Exists(s)
  <2>1. attempts[s] \in Nat
    BY DEF TypeOK
  <2>2. \/ attempts[s] >= MaxAttempts /\ state' = [state EXCEPT ![s] = "failed"]
        \/ attempts[s] < MaxAttempts /\ state' = [state EXCEPT ![s] = "pending"]
    BY <1>2, <2>1 DEF Requeue
  <2> QED BY <1>1, <1>2, <2>2 DEF Lifecycle!Settle, Exists
<1>3. CASE ~Exists(s)
  BY <1>1, <1>3 DEF Requeue, Lifecycle!Release
<1> QED BY <1>2, <1>3

\* Deleting rows is a Remove.
LEMMA DeleteRefines ==
  ASSUME NEW rows \in SUBSET Sessions, Delete(rows), batch' = batch
  PROVE  Lifecycle!Remove
BY DEF Delete, Lifecycle!Remove

\* What a start copies is an Import.
LEMMA StartupRefines ==
  ASSUME TypeOK, RowInv, Startup
  PROVE  Lifecycle!Import
<1> DEFINE missing == {s \in Analyses : ~Exists(s) /\ project[s] \in projects}
           found == [s \in missing |-> Migrated(s)]
<1>1. batch = {} /\ batch' = batch
  BY DEF Startup, RowInv, PassIsBatch, workerVars
<1>2. missing \in SUBSET {s \in Analyses : state[s] = "absent"}
  BY DEF Exists
<1>3. found \in [missing -> {"pending", "distilled", "failed"}]
  BY DEF Migrated, TypeOK
<1>4. attempts' = [s \in Sessions |-> IF s \in missing THEN 0 ELSE attempts[s]]
  BY DEF Startup
<1>5. state' = [s \in Sessions |-> IF s \in missing THEN found[s] ELSE state[s]]
  BY DEF Startup, RowInv, PendingIsUnprocessed
<1> HIDE DEF missing, found
<1> QED BY <1>1, <1>2, <1>3, <1>4, <1>5 DEF Lifecycle!Import

\* The pipeline implements the row state machine of SessionLifecycle.
THEOREM PipelineImplementsLifecycle == Spec => ImplementsLifecycle
<1> USE DistillationAssumption DEF DistillationAssumption
<1>1. Init => Lifecycle!Init
  BY DEF Init, Lifecycle!Init
<1>2. TypeOK /\ RowInv /\ [Next]_vars => [Lifecycle!Next]_Lifecycle!vars
  <2> SUFFICES ASSUME TypeOK, RowInv, [Next]_vars
               PROVE  Lifecycle!Next \/ UNCHANGED Lifecycle!vars
    OBVIOUS
  <2> USE DEF rowVars, storeVars, workerVars
  <2>1. ingested < MaxSessions =>
          ingested + 1 \in Sessions /\ state[ingested + 1] = "absent"
    BY DEF RowInv, FreshIds, TypeOK, Sessions
  <2>2. CASE IngestFiltered
    <3>1. Lifecycle!RecordFiltered(ingested + 1)
      BY <2>1, <2>2 DEF IngestFiltered, Lifecycle!RecordFiltered
    <3> QED BY <2>1, <2>2, <3>1 DEF IngestFiltered, Lifecycle!Next
  <2>3. CASE IngestPending
    <3>1. Lifecycle!Submit(ingested + 1)
      BY <2>1, <2>3 DEF IngestPending, PendingOf, Lifecycle!Submit
    <3> QED BY <2>1, <2>3, <3>1 DEF IngestPending, Lifecycle!Next
  <2>4. CASE FetchBatch
    <3>1. batch = {}
      BY <2>4 DEF FetchBatch, RowInv, PassIsBatch
    <3>2. Lifecycle!Claim
      BY <2>4, <3>1 DEF FetchBatch, Eligible, Lifecycle!Claim
    <3> QED BY <3>2 DEF Lifecycle!Next
  <2>5. ASSUME NEW s \in Sessions, WorkerStep(s)
        PROVE  Lifecycle!Next \/ UNCHANGED Lifecycle!vars
    <3>1. CASE BeginAttempt(s)
      BY <3>1, BeginAttemptRefines DEF Lifecycle!Next
    <3>2. CASE ExtractNothing(s) \/ RowRaises(s)
      BY <3>2, RequeueRefines DEF ExtractNothing, RowRaises, Lifecycle!Next
    <3>3. CASE ExtractSome(s) \/ DedupMemories(s) \/ SaveMemories(s) \/ SaveInstincts(s)
      BY <3>3 DEF ExtractSome, DedupMemories, SaveMemories, SaveInstincts,
         Lifecycle!vars
    <3>4. CASE FinishRow(s)
      <4>1. s \in batch /\ batch' \in {batch, batch \ {s}} /\ attempts' = attempts
        BY <3>4 DEF FinishRow, NextRow, Current
      <4>2. CASE Exists(s)
        BY <3>4, <4>1, <4>2 DEF FinishRow, Exists, Lifecycle!Settle, Lifecycle!Next
      <4>3. CASE ~Exists(s)
        <5>1. state' = state
          BY <3>4, <4>3 DEF FinishRow, TypeOK
        <5> QED BY <4>1, <5>1 DEF Lifecycle!Release, Lifecycle!Next
      <4> QED BY <4>2, <4>3
    <3>5. CASE InvalidateVault(s)
      BY <3>5 DEF InvalidateVault, NextRow, Lifecycle!Release, Lifecycle!Next
    <3>6. CASE PassAborts(s)
      BY <3>6 DEF PassAborts, DropPass, Lifecycle!Release, Lifecycle!Next
    <3> QED BY <2>5, <3>1, <3>2, <3>3, <3>4, <3>5, <3>6 DEF WorkerStep
  <2>6. ASSUME NEW p \in Projects, DeleteProject(p)
        PROVE  Lifecycle!Next
    BY <2>6, DeleteRefines DEF DeleteProject, Lifecycle!Next
  <2>7. CASE CleanupRetention
    BY <2>7, DeleteRefines DEF CleanupRetention, Lifecycle!Next
  <2>8. CASE Crash
    BY <2>8 DEF Crash, DropPass, Lifecycle!Release, Lifecycle!Next
  <2>9. CASE Startup
    BY <2>9, StartupRefines DEF Lifecycle!Next
  <2>10. CASE UNCHANGED vars
    BY <2>10 DEF vars, Lifecycle!vars
  <2> QED BY <2>2, <2>3, <2>4, <2>5, <2>6, <2>7, <2>8, <2>9, <2>10 DEF Next
<1> QED BY <1>1, <1>2, TypeCorrect, RowsAreSound, PTL
        DEF Spec, ImplementsLifecycle, Lifecycle!Spec

-----------------------------------------------------------------------------
(* Instincts *)

\* Why no row is observed more often than attempted: the row in hand has booked
\* its attempt and not used it, and an id not given out has left no trace.
ObservationInv ==
    /\ \A s \in Sessions : s > ingested => observed[s] = 0
    /\ ObservedOncePerAttempt
    /\ \A s \in Sessions :
          Exists(s) /\ Current(s) /\ phase \in {"extract", "dedup", "save", "knacks"}
          => observed[s] < attempts[s]

\* Steps that neither observe nor book, create no row, and leave nobody in hand.
LEMMA NothingObserved ==
  ASSUME ObservationInv, UNCHANGED <<observed, attempts, ingested>>,
         \A s \in Sessions : state[s] = "absent" => state'[s] = "absent",
         \/ phase' \notin {"extract", "dedup", "save", "knacks"}
         \/ UNCHANGED <<phase, batch>>
  PROVE  ObservationInv'
<1>1. \A s \in Sessions : Exists(s)' => Exists(s)
  BY DEF Exists
<1> QED BY <1>1 DEF ObservationInv, ObservedOncePerAttempt, Current

\* Deleting rows, with their counts, leaves the rest as they are.
LEMMA DeleteKeepsObservations ==
  ASSUME ObservationInv, NEW rows, Delete(rows), UNCHANGED <<ingested, batch, phase>>
  PROVE  ObservationInv'
<1>1. \A s \in Sessions :
         \/ s \in rows /\ ~Exists(s)' /\ observed'[s] = 0
         \/ /\ s \notin rows /\ (Exists(s)' => Exists(s))
            /\ observed'[s] = observed[s] /\ attempts'[s] = attempts[s]
  BY DEF Delete, Exists
<1> QED BY <1>1 DEF ObservationInv, ObservedOncePerAttempt, Current

\* A new row has never been observed.
LEMMA IngestIsUnobserved ==
  ASSUME TypeOK, ObservationInv, RowInv, ingested < MaxSessions, ingested' = ingested + 1,
         \A s \in Sessions \ {ingested + 1} : state[s] = "absent" => state'[s] = "absent",
         UNCHANGED <<observed, attempts, batch, phase>>
  PROVE  ObservationInv'
<1> DEFINE n == ingested + 1
<1>1. n \in Sessions /\ observed[n] = 0 /\ n \notin batch /\ attempts[n] \in Nat
  BY DistillationAssumption
     DEF DistillationAssumption, TypeOK, Sessions, ObservationInv, RowInv, FreshIds
<1>2. \A s \in Sessions \ {n} : Exists(s)' => Exists(s)
  BY DEF Exists
<1>3. (\A s \in Sessions : s > ingested => observed[s] = 0)'
  BY DEF ObservationInv, Sessions, TypeOK
<1>4. ObservedOncePerAttempt'
  BY <1>1, <1>2 DEF ObservationInv, ObservedOncePerAttempt
<1>5. ASSUME NEW s \in Sessions, Exists(s)', Current(s)', phase' \in {"extract", "dedup", "save", "knacks"}
      PROVE  observed'[s] < attempts'[s]
  BY <1>1, <1>2, <1>5 DEF ObservationInv, Current
<1> QED BY <1>3, <1>4, <1>5 DEF ObservationInv

\* Re-running a row feeds its instincts to the store no more often than it was
\* attempted, over crashes, failures and restarts.
THEOREM ObservationsAreBounded == Spec => []ObservedOncePerAttempt
<1> USE DistillationAssumption DEF DistillationAssumption
<1>1. Init => ObservationInv
  BY DEF Init, ObservationInv, ObservedOncePerAttempt, Exists
<1>2. TypeOK /\ RowInv /\ ObservationInv /\ [Next]_vars => ObservationInv'
  <2> SUFFICES ASSUME TypeOK, RowInv, ObservationInv, [Next]_vars PROVE ObservationInv'
    OBVIOUS
  <2> USE DEF rowVars, storeVars, workerVars
  <2>1. CASE IngestFiltered
    BY <2>1, IngestIsUnobserved DEF IngestFiltered, TypeOK
  <2>2. CASE IngestPending
    <3>1. \A s \in Sessions \ {ingested + 1} : state[s] = "absent" => state'[s] = "absent"
      BY <2>2 DEF IngestPending, PendingOf
    <3> QED BY <2>2, <3>1, IngestIsUnobserved DEF IngestPending
  <2>3. CASE FetchBatch
    BY <2>3, NothingObserved DEF FetchBatch
  <2>4. ASSUME NEW s \in Sessions, WorkerStep(s) PROVE ObservationInv'
    <3>1. CASE BeginAttempt(s)
      <4>1. \A t \in Sessions : attempts'[t] = IF t = s /\ Exists(s) THEN attempts[t] + 1 ELSE attempts[t]
        BY <3>1 DEF BeginAttempt, TypeOK
      <4>2. \A t \in Sessions : Current(t) => t = s
        BY <3>1, CurrentIsUnique DEF BeginAttempt, Current
      <4> QED BY <3>1, <4>1, <4>2 DEF BeginAttempt, ObservationInv, ObservedOncePerAttempt, Exists, Current, TypeOK
    <3>2. CASE ExtractNothing(s) \/ RowRaises(s)
      <4>1. \A t \in Sessions : state[t] = "absent" => state'[t] = "absent"
        BY <3>2 DEF ExtractNothing, RowRaises, Requeue, Exists, TypeOK
      <4> QED BY <3>2, <4>1, NothingObserved DEF ExtractNothing, RowRaises, NextRow
    <3>3. CASE ExtractSome(s) \/ DedupMemories(s) \/ SaveMemories(s)
      BY <3>3 DEF ExtractSome, DedupMemories, SaveMemories, ObservationInv, ObservedOncePerAttempt,
         Exists, Current
    <3>4. CASE SaveInstincts(s)
      <4>1. PICK noted \in 0..draft.knacks : observed' = [observed EXCEPT ![s] = @ + noted]
        BY <3>4 DEF SaveInstincts
      <4>2. noted \in 0..1
        BY <4>1 DEF TypeOK, Extraction, DistillationAssumption
      <4>3. /\ observed'[s] = observed[s] + noted
            /\ \A t \in Sessions \ {s} : observed'[t] = observed[t]
            /\ observed[s] \in Nat /\ attempts[s] \in Nat
        BY <4>1 DEF TypeOK
      <4>4. s <= ingested
        BY <3>4 DEF SaveInstincts, Current, RowInv, FreshIds, TypeOK, Sessions
      <4>5. Exists(s) => observed[s] < attempts[s]
        BY <3>4 DEF SaveInstincts, ObservationInv
      <4>6. UNCHANGED <<state, attempts, ingested>> /\ phase' = "finish"
        BY <3>4 DEF SaveInstincts
      <4>7. (\A t \in Sessions : t > ingested => observed[t] = 0)'
        BY <4>3, <4>4, <4>6 DEF ObservationInv, TypeOK, Sessions
      <4>8. ObservedOncePerAttempt'
        BY <4>2, <4>3, <4>5, <4>6 DEF ObservationInv, ObservedOncePerAttempt, Exists
      <4> QED BY <4>6, <4>7, <4>8 DEF ObservationInv
    <3>5. CASE FinishRow(s)
      <4>1. \A t \in Sessions : state[t] = "absent" => state'[t] = "absent"
        BY <3>5 DEF FinishRow, Exists, TypeOK
      <4> QED BY <3>5, <4>1, NothingObserved DEF FinishRow, NextRow
    <3>6. CASE InvalidateVault(s)
      BY <3>6, NothingObserved DEF InvalidateVault, NextRow
    <3>7. CASE PassAborts(s)
      BY <3>7, NothingObserved DEF PassAborts, DropPass
    <3> QED BY <2>4, <3>1, <3>2, <3>3, <3>4, <3>5, <3>6, <3>7 DEF WorkerStep
  <2>5. ASSUME NEW p \in Projects, DeleteProject(p) PROVE ObservationInv'
    BY <2>5, DeleteKeepsObservations DEF DeleteProject
  <2>6. CASE CleanupRetention
    BY <2>6, DeleteKeepsObservations DEF CleanupRetention
  <2>7. CASE Crash
    BY <2>7, NothingObserved DEF Crash, DropPass
  <2>8. CASE Startup
    <3> DEFINE missing == {s \in Analyses : ~Exists(s) /\ project[s] \in projects}
    <3>1. \A s \in Sessions :
             /\ observed'[s] = IF s \in missing THEN 0 ELSE observed[s]
             /\ attempts'[s] = IF s \in missing THEN 0 ELSE attempts[s]
             /\ s \notin missing => (Exists(s)' => Exists(s))
      BY <2>8 DEF Startup, Exists
    <3>2. batch' = {} /\ ingested' = ingested
      BY <2>8 DEF Startup, RowInv, PassIsBatch
    <3> HIDE DEF missing
    <3> QED BY <3>1, <3>2 DEF ObservationInv, ObservedOncePerAttempt, Current
  <2>9. CASE UNCHANGED vars
    BY <2>9, NothingObserved DEF vars
  <2> QED BY <2>1, <2>2, <2>3, <2>4, <2>5, <2>6, <2>7, <2>8, <2>9 DEF Next
<1>3. ObservationInv => ObservedOncePerAttempt
  BY DEF ObservationInv
<1> QED BY <1>1, <1>2, <1>3, TypeCorrect, RowsAreSound, PTL DEF Spec
=============================================================================
