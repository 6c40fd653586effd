---------------------------- MODULE Distillation ----------------------------
(***************************************************************************)
(* The lazy distillation pipeline: the raw_sessions table used as a        *)
(* durable queue, the ingest routes that feed it and enforce the backlog   *)
(* ceiling, the single periodic worker that drains it in bounded batches,  *)
(* the retention job, project deletion, process crashes, and the start,    *)
(* which copies the rows of the retired table raw_analyses into the queue. *)
(*                                                                         *)
(* Every step is one database transaction, one LanceDB call or one LLM     *)
(* call: the places where the asyncio program awaits and another task may  *)
(* run.                                                                    *)
(***************************************************************************)
EXTENDS Integers, FiniteSets

CONSTANTS
    MaxSessions,  \* bound: raw_sessions rows, copied or ingested
    MaxAnalyses,  \* how many rows raw_analyses holds
    MaxCrashes,   \* bound: process deaths and passes cut short
    Users,
    Projects,
    OwnerOf,      \* the user a project belongs to
    Facts,        \* the memories an extraction may yield
    MaxKnacks,    \* bound: the instincts an extraction may yield
    MaxAttempts,  \* settings.distillation_max_attempts
    MaxPending,   \* settings.distillation_max_pending_backlog
    BatchSize     \* DEFAULT_BATCH_SIZE

ASSUME DistillationAssumption ==
    /\ MaxSessions \in Nat
    /\ MaxAnalyses \in 0..MaxSessions
    /\ MaxCrashes \in Nat
    /\ OwnerOf \in [Projects -> Users]
    /\ IsFiniteSet(Facts)
    /\ MaxKnacks \in 0..1
    /\ MaxAttempts \in Nat \ {0}
    /\ MaxPending \in Nat
    /\ BatchSize \in Nat \ {0}

(***************************************************************************)
(* Session k is the k-th row by created_at: first the rows left behind in  *)
(* raw_analyses, which no current code writes to, then those ingested, as  *)
(* they come.  No writer sets RawSession.priority: every row keeps the     *)
(* default 0 and "priority, then created_at" is created_at.                *)
(***************************************************************************)
Sessions == 1..MaxSessions
Analyses == 1..MaxAnalyses

States == {"absent", "pending", "distilled", "filtered", "failed", "archived"}

Phases == {"idle", "begin", "extract", "dedup", "save", "knacks", "finish",
           "invalidate"}

\* An extraction: the memories and the number of instincts.
Extraction == [facts : SUBSET Facts, knacks : 0..MaxKnacks]
Nothing == [facts |-> {}, knacks |-> 0]

VARIABLES
    state,         \* RawSession.distillation_state; "absent" is no row
    attempts,      \* RawSession.attempt_count
    processed,     \* the rows with RawSession.processed_at set
    project,       \* RawSession.project_id
    legacy,        \* what raw_analyses says of its rows
    ingested,      \* the number given out last
    projects,      \* the projects that exist
    memories,      \* LanceDB: the facts stored for a project, once or more
    observed,      \* how often a row's instinct was fed to observe()
    up,            \* the process runs
    crashes,
    batch,         \* rows of the current pass not done yet; the oldest is current
    phase,         \* where _process_one is with the current row
    draft,         \* what the LLM returned for the current row
    novel          \* the facts _save_memories is about to save

rowVars == <<state, attempts, processed, project, legacy, ingested>>
storeVars == <<memories, observed>>
workerVars == <<batch, phase, draft, novel>>
vars == <<rowVars, projects, storeVars, up, crashes, workerVars>>

TypeOK ==
    /\ state \in [Sessions -> States]
    /\ attempts \in [Sessions -> Nat]
    /\ processed \subseteq Sessions
    /\ project \in [Sessions -> Projects]
    /\ legacy \in [Analyses -> {"processed", "errored", "waiting"}]
    /\ ingested \in MaxAnalyses..MaxSessions
    /\ projects \subseteq Projects
    /\ memories \in [Projects -> SUBSET Facts]
    /\ observed \in [Sessions -> Nat]
    /\ up \in BOOLEAN
    /\ crashes \in 0..MaxCrashes
    /\ batch \in SUBSET Sessions
    /\ phase \in Phases
    /\ draft \in Extraction
    /\ novel \in SUBSET Facts

\* The database as the first start of this version finds it.
Init ==
    /\ state = [s \in Sessions |-> "absent"]
    /\ attempts = [s \in Sessions |-> 0]
    /\ processed = {}
    /\ project \in [Sessions -> Projects]
    /\ legacy \in [Analyses -> {"processed", "errored", "waiting"}]
    /\ ingested = MaxAnalyses
    /\ projects = Projects
    /\ memories = [p \in Projects |-> {}]
    /\ observed = [s \in Sessions |-> 0]
    /\ up = FALSE
    /\ crashes = 0
    /\ batch = {}
    /\ phase = "idle"
    /\ draft = Nothing
    /\ novel = {}

-----------------------------------------------------------------------------
(* The backlog *)

Owner(s) == OwnerOf[project[s]]

\* count_pending with a user: the rows of u that wait for the worker.
PendingOf(u) == {s \in Sessions : state[s] = "pending" /\ Owner(s) = u}

\* Every row of S that is not in part is younger than every row that is.
OldestPart(part, S) == \A s \in part, t \in S \ part : s < t

-----------------------------------------------------------------------------
(* Ingest *)

\* Mutant of IngestFiltered: the row is written with a state of its own.
IngestSkipped ==
    /\ up
    /\ ingested < MaxSessions
    /\ project[ingested + 1] \in projects
    /\ ingested' = ingested + 1
    /\ state' = [state EXCEPT ![ingested + 1] = "skipped"]
    /\ UNCHANGED <<attempts, processed, project, legacy, projects, storeVars, up,
                   crashes, workerVars>>

\* A transcript the prefilter rejects is stored for the record only.
IngestFiltered ==
    /\ up
    /\ ingested < MaxSessions
    /\ project[ingested + 1] \in projects
    /\ ingested' = ingested + 1
    /\ state' = [state EXCEPT ![ingested + 1] = "filtered"]
    /\ UNCHANGED <<attempts, processed, project, legacy, projects, storeVars, up,
                   crashes, workerVars>>

\* Mutant of IngestPending: the ceiling is not enforced.
IngestUncapped ==
    /\ up
    /\ ingested < MaxSessions
    /\ project[ingested + 1] \in projects
    /\ ingested' = ingested + 1
    /\ state' = [state EXCEPT ![ingested + 1] = "pending"]
    /\ UNCHANGED <<attempts, processed, project, legacy, projects, storeVars, up,
                   crashes, workerVars>>

\* One transaction: the row is inserted, the pending rows of its user are
\* counted, and the oldest beyond the ceiling are archived.
IngestPending ==
    LET s == ingested + 1
        waiting == PendingOf(Owner(s)) \cup {s}
    IN  /\ up
        /\ ingested < MaxSessions
        /\ project[s] \in projects
        /\ ingested' = s
        /\ \E overflow \in SUBSET waiting :
              /\ Cardinality(overflow) =
                     IF Cardinality(waiting) > MaxPending
                     THEN Cardinality(waiting) - MaxPending ELSE 0
              /\ OldestPart(overflow, waiting)
              /\ state' = [t \in Sessions |->
                             IF t \in overflow THEN "archived"
                             ELSE IF t = s THEN "pending"
                             ELSE state[t]]
        /\ UNCHANGED <<attempts, processed, project, legacy, projects, storeVars, up,
                       crashes, workerVars>>

-----------------------------------------------------------------------------
(* The worker: run_distillation_pass and _process_one *)

Exists(s) == state[s] # "absent"

\* The row being processed: batches are handled oldest first.
Current(s) == s \in batch /\ \A t \in batch : s <= t

\* Mutant of Eligible: the cap on the attempts is forgotten.
EligibleForever == {s \in Sessions : state[s] = "pending"}

\* Mutant of Eligible: the state is not looked at.
EligibleAnyState ==
    {s \in Sessions : Exists(s) /\ attempts[s] < MaxAttempts}

\* The rows _fetch_pending_batch selects from.
Eligible == {s \in Sessions : state[s] = "pending" /\ attempts[s] < MaxAttempts}

\* The current row is done: on to the next one of the batch.
NextRow(s) ==
    /\ batch' = batch \ {s}
    /\ phase' = IF batch = {s} THEN "idle" ELSE "begin"
    /\ draft' = Nothing
    /\ novel' = {}

\* The pass is over before its time.
DropPass ==
    /\ batch' = {}
    /\ phase' = "idle"
    /\ draft' = Nothing
    /\ novel' = {}

\* The rows are read once, at the start of the pass; nothing marks them taken.
FetchBatch ==
    /\ up
    /\ phase = "idle"
    /\ \E rows \in SUBSET Eligible :
          /\ rows # {}
          /\ Cardinality(rows) =
                 IF Cardinality(Eligible) < BatchSize
                 THEN Cardinality(Eligible) ELSE BatchSize
          /\ OldestPart(rows, Eligible)
          /\ batch' = rows
    /\ phase' = "begin"
    /\ UNCHANGED <<rowVars, projects, storeVars, up, crashes, draft, novel>>

\* Mutant of BeginAttempt: the attempt is not booked.
BeginUnbooked(s) ==
    /\ phase = "begin"
    /\ Current(s)
    /\ phase' = "extract"
    /\ UNCHANGED <<rowVars, projects, storeVars, up, crashes, batch, draft, novel>>

\* The attempt is booked before the LLM call.
BeginAttempt(s) ==
    /\ phase = "begin"
    /\ Current(s)
    /\ attempts' = [attempts EXCEPT ![s] = IF Exists(s) THEN @ + 1 ELSE @]
    /\ phase' = "extract"
    /\ UNCHANGED <<state, processed, project, legacy, ingested, projects, storeVars,
                   up, crashes, batch, draft, novel>>

\* Mutant of Requeue: the row is given up one attempt early.
RequeueOneShort(s) ==
    IF Exists(s)
    THEN LET giveUp == attempts[s] + 1 >= MaxAttempts
         IN  /\ state' = [state EXCEPT ![s] = IF giveUp THEN "failed" ELSE "pending"]
             /\ processed' = IF giveUp THEN processed \cup {s} ELSE processed \ {s}
    ELSE UNCHANGED <<state, processed>>

\* Mutant of Requeue: processed_at is stamped whatever the verdict.
RequeueStamped(s) ==
    IF Exists(s)
    THEN LET giveUp == attempts[s] >= MaxAttempts
         IN  /\ state' = [state EXCEPT ![s] = IF giveUp THEN "failed" ELSE "pending"]
             /\ processed' = processed \cup {s}
    ELSE UNCHANGED <<state, processed>>

\* Mutant of Requeue: the row is never given up.
RequeueForever(s) ==
    IF Exists(s)
    THEN /\ state' = [state EXCEPT ![s] = "pending"]
         /\ processed' = processed \ {s}
    ELSE UNCHANGED <<state, processed>>

\* The write both soft failures end in.  It is keyed on the id alone: a row
\* that left 'pending' since the batch was read is written all the same.
Requeue(s) ==
    IF Exists(s)
    THEN LET giveUp == attempts[s] >= MaxAttempts
         IN  /\ state' = [state EXCEPT ![s] = IF giveUp THEN "failed" ELSE "pending"]
             /\ processed' = IF giveUp THEN processed \cup {s} ELSE processed \ {s}
    ELSE UNCHANGED <<state, processed>>

\* The LLM returned nothing usable (junk JSON, or every provider exhausted).
ExtractNothing(s) ==
    /\ phase = "extract"
    /\ Current(s)
    /\ Requeue(s)
    /\ NextRow(s)
    /\ UNCHANGED <<attempts, project, legacy, ingested, projects, storeVars, up, crashes>>

\* The LLM returned memories, an instinct, or both.
ExtractSome(s) ==
    /\ phase = "extract"
    /\ Current(s)
    /\ draft' \in Extraction \ {Nothing}
    /\ phase' = "dedup"
    /\ UNCHANGED <<rowVars, projects, storeVars, up, crashes, batch, novel>>

\* _save_memories, first half: what the store does not hold yet, and some of
\* what it does: a fact is saved again if the lookup raises or if the copy in
\* the store is so old that its recency-weighted score misses the threshold.
\* The project id is the one read with the batch; that the project is gone goes
\* unnoticed.
DedupMemories(s) ==
    /\ phase = "dedup"
    /\ Current(s)
    /\ \E again \in SUBSET (draft.facts \cap memories[project[s]]) :
          novel' = (draft.facts \ memories[project[s]]) \cup again
    /\ phase' = "save"
    /\ UNCHANGED <<rowVars, projects, storeVars, up, crashes, batch, draft>>

\* Mutant of SaveMemories: a save that raises is swallowed, as it is for instincts.
SaveSwallowed(s) ==
    /\ phase = "save"
    /\ Current(s)
    /\ \E saved \in SUBSET novel :
          memories' = [memories EXCEPT ![project[s]] = @ \cup saved]
    /\ phase' = "knacks"
    /\ UNCHANGED <<rowVars, projects, observed, up, crashes, batch, draft, novel>>

\* _save_memories, second half: save_many.
SaveMemories(s) ==
    /\ phase = "save"
    /\ Current(s)
    /\ memories' = [memories EXCEPT ![project[s]] = @ \cup novel]
    /\ phase' = "knacks"
    /\ UNCHANGED <<rowVars, projects, observed, up, crashes, batch, draft,
                   novel>>

\* _save_instincts: an observe() that raises is logged and not counted.
SaveInstincts(s) ==
    /\ phase = "knacks"
    /\ Current(s)
    /\ \E noted \in 0..draft.knacks :
          observed' = [observed EXCEPT ![s] = @ + noted]
    /\ phase' = "finish"
    /\ UNCHANGED <<rowVars, projects, memories, up, crashes, batch, draft,
                   novel>>

\* One transaction: the row is settled, and the counters of its project are
\* bumped (they are modelled in MemoryStore).
FinishRow(s) ==
    /\ phase = "finish"
    /\ Current(s)
    /\ state' = [state EXCEPT ![s] = IF Exists(s) THEN "distilled" ELSE @]
    /\ processed' = IF Exists(s) THEN processed \cup {s} ELSE processed
    /\ IF novel # {}
       THEN phase' = "invalidate" /\ UNCHANGED <<batch, draft, novel>>
       ELSE NextRow(s)
    /\ UNCHANGED <<attempts, project, legacy, ingested, projects, storeVars, up, crashes>>

\* The vault cache of the project is dropped; the row is done.
InvalidateVault(s) ==
    /\ phase = "invalidate"
    /\ Current(s)
    /\ NextRow(s)
    /\ UNCHANGED <<rowVars, projects, storeVars, up, crashes>>

\* A database, embedding or LanceDB call of _process_one raises: the handler
\* in run_distillation_pass puts the row back, or fails it.
RowRaises(s) ==
    /\ phase # "idle"
    /\ Current(s)
    /\ Requeue(s)
    /\ NextRow(s)
    /\ UNCHANGED <<attempts, project, legacy, ingested, projects, storeVars, up, crashes>>

\* The handler fails as well (the database is locked): the exception leaves
\* run_distillation_pass and the rest of the batch is not looked at.
PassAborts(s) ==
    /\ phase # "idle"
    /\ Current(s)
    /\ crashes < MaxCrashes
    /\ crashes' = crashes + 1
    /\ DropPass
    /\ UNCHANGED <<rowVars, projects, storeVars, up>>

WorkerStep(s) ==
    \/ BeginAttempt(s)
    \/ ExtractNothing(s)
    \/ ExtractSome(s)
    \/ DedupMemories(s)
    \/ SaveMemories(s)
    \/ SaveInstincts(s)
    \/ FinishRow(s)
    \/ InvalidateVault(s)
    \/ RowRaises(s)
    \/ PassAborts(s)

-----------------------------------------------------------------------------
(* Deletion, retention, crash and restart *)

\* Rows go, with all that is known of them.
Delete(rows) ==
    /\ state' = [s \in Sessions |-> IF s \in rows THEN "absent" ELSE state[s]]
    /\ attempts' = [s \in Sessions |-> IF s \in rows THEN 0 ELSE attempts[s]]
    /\ observed' = [s \in Sessions |-> IF s \in rows THEN 0 ELSE observed[s]]
    /\ processed' = processed \ rows

\* Project rows own their sessions (ON DELETE CASCADE); the LanceDB rows stay.
DeleteProject(p) ==
    /\ up
    /\ p \in projects
    /\ projects' = projects \ {p}
    /\ Delete({s \in Sessions : project[s] = p})
    /\ UNCHANGED <<project, legacy, ingested, memories, up, crashes, workerVars>>

\* Mutant of Reclaimable: retention is keyed on age alone.
ReclaimableByAge(s) == Exists(s)

\* What retention may delete once it is old enough.
Reclaimable(s) ==
    \/ Exists(s) /\ s \in processed
    \/ state[s] = "archived"

\* cleanup_retention deletes the reclaimable rows past the cutoff.  The cutoff
\* is months: a row of the running pass is never that old.
CleanupRetention ==
    /\ up
    /\ \E old \in SUBSET {s \in Sessions \ batch : Reclaimable(s)} :
          old # {} /\ Delete(old)
    /\ UNCHANGED <<project, legacy, ingested, projects, memories, up, crashes, workerVars>>

\* The process dies, or is cancelled at an await while shutting down:
\* CancelledError is not an Exception, so no handler runs.
Crash ==
    /\ up
    /\ crashes < MaxCrashes
    /\ crashes' = crashes + 1
    /\ up' = FALSE
    /\ DropPass
    /\ UNCHANGED <<rowVars, projects, storeVars>>

\* Mutant of Migrated: the state of the copy is not derived from processed_at.
MigratedBlindly(s) == IF legacy[s] = "errored" THEN "failed" ELSE "pending"

\* The state in which INSERT OR IGNORE puts the copy of a row of raw_analyses.
Migrated(s) ==
    CASE legacy[s] = "processed" -> "distilled"
      [] legacy[s] = "errored" -> "failed"
      [] legacy[s] = "waiting" -> "pending"

\* init_db, before anything else, at every start: pending rows that are stamped
\* become distilled; then every row of raw_analyses that raw_sessions does not
\* hold is copied, those that retention has purged once more, and no backlog
\* ceiling is looked at.  A project takes its rows of both tables with it.
Startup ==
    LET missing == {s \in Analyses : ~Exists(s) /\ project[s] \in projects}
    IN  /\ ~up
        /\ up' = TRUE
        /\ state' = [s \in Sessions |->
                       IF s \in missing THEN Migrated(s)
                       ELSE IF state[s] = "pending" /\ s \in processed THEN "distilled"
                       ELSE state[s]]
        /\ attempts' = [s \in Sessions |-> IF s \in missing THEN 0 ELSE attempts[s]]
        /\ observed' = [s \in Sessions |-> IF s \in missing THEN 0 ELSE observed[s]]
        /\ processed' = {s \in Sessions : IF s \in missing THEN legacy[s] = "processed"
                                          ELSE s \in processed}
        /\ UNCHANGED <<project, legacy, ingested, projects, memories, crashes, workerVars>>

-----------------------------------------------------------------------------
Next ==
    \/ IngestFiltered
    \/ IngestPending
    \/ FetchBatch
    \/ \E s \in Sessions : WorkerStep(s)
    \/ \E p \in Projects : DeleteProject(p)
    \/ CleanupRetention
    \/ Crash
    \/ Startup

Spec == Init /\ [][Next]_vars

(***************************************************************************)
(* The orchestrator starts a pass at every tick for as long as the process *)
(* runs, and a supervisor restarts the process.  A booking of the attempt  *)
(* that is retried is not refused by the database forever, and a started   *)
(* extraction returns (the HTTP client has a timeout).  Users, deletions,  *)
(* retention and crashes are under no obligation.                          *)
(***************************************************************************)
Fairness ==
    /\ WF_vars(FetchBatch)
    /\ WF_vars(\E s \in Sessions : WorkerStep(s))
    /\ \A s \in Sessions : SF_vars(BeginAttempt(s))
    /\ WF_vars(Startup)

FairSpec == Spec /\ Fairness

-----------------------------------------------------------------------------
(* Safety *)

\* The rows of u that every start may put into the queue again.
WaitingLegacy(u) == {s \in Analyses : Owner(s) = u /\ legacy[s] = "waiting"}

\* The ceiling of the backlog (enforce_ceiling_after_ingest) may only be
\* overshot by the rows of one batch and by those a start copies: a row archived
\* under the worker's hands comes back, but each pass can bring back no more rows
\* than it had fetched; a copy that was archived and purged comes back with the
\* next start, but it is there once only.
BacklogBounded ==
    \A u \in Users :
        Cardinality(PendingOf(u)) <= MaxPending + BatchSize + Cardinality(WaitingLegacy(u))

\* "attempt_count capped so we don't grind on a poison row forever": no row is
\* attempted more than max_attempts times, over crashes, restarts and rows
\* that change under the worker.  (A copy made again after a purge is a new row.)
AttemptsBounded == \A s \in Sessions : attempts[s] <= MaxAttempts

\* raw_analyses had failed the row before there were attempts to count.
FailedBefore(s) == s \in Analyses /\ legacy[s] = "errored"

\* A row is given up only after all of its attempts ("failed: after all
\* retries"), whatever went wrong in between.
FailedOnlyWhenExhausted ==
    \A s \in Sessions : state[s] = "failed" => attempts[s] >= MaxAttempts \/ FailedBefore(s)

\* Analyses processed or failed before the migration are history: over any number
\* of purges, crashes and starts the worker never takes them up.
HistoryIsNotRedistilled ==
    \A s \in Analyses : legacy[s] # "waiting" => attempts[s] = 0 /\ state[s] # "pending"

\* A waiting row never carries processed_at.  Retention and the startup
\* backfill both read that stamp: with it the row would be purged undistilled
\* or called distilled by a restart.
PendingIsUnprocessed ==
    \A s \in Sessions : state[s] = "pending" => s \notin processed

\* A row is settled as distilled only with every extracted memory in the
\* project's store: what deduplication dropped is there already, the rest is
\* saved before the state changes (users who delete memories meanwhile aside).
FinishAfterSave ==
    \A s \in batch :
        Current(s) =>
            /\ phase = "save" => draft.facts \subseteq memories[project[s]] \cup novel
            /\ phase \in {"knacks", "finish", "invalidate"} =>
                   draft.facts \subseteq memories[project[s]]

\* Re-running a row after a crash feeds its instincts to the store again, but
\* no more often than the row was attempted.
ObservedOncePerAttempt ==
    \A s \in Sessions : Exists(s) => observed[s] <= attempts[s]

-----------------------------------------------------------------------------
(* The inductive invariants behind them *)

\* Every row of a pass is one that was waiting when the pass began: it can only
\* have been archived or deleted since (the row in hand may be settled too),
\* and it still has an attempt to spend until its own is booked.
BatchIsOwed ==
    \A s \in batch :
        /\ \/ state[s] \in {"pending", "archived", "absent"}
           \/ state[s] = "distilled" /\ Current(s) /\ phase = "invalidate"
        /\ attempts[s] < MaxAttempts \/ (Current(s) /\ phase # "begin")

\* Ids not given out yet have left no trace.
FreshIds ==
    \A s \in Sessions :
        s > ingested => state[s] = "absent" /\ s \notin batch \cup processed

\* The worker is in a pass exactly while rows of it are left, and only while
\* the process runs.
PassIsBatch ==
    /\ phase = "idle" <=> batch = {}
    /\ batch # {} => up

\* The copy of a row that was settled in raw_analyses stays as it was copied.
HistoryIsKept ==
    \A s \in Analyses :
        /\ legacy[s] = "processed" => state[s] \in {"absent", "distilled"}
        /\ legacy[s] = "errored" => state[s] \in {"absent", "failed"}
        /\ legacy[s] # "waiting" => attempts[s] = 0 /\ s \notin batch

RowInv ==
    /\ AttemptsBounded
    /\ FailedOnlyWhenExhausted
    /\ PendingIsUnprocessed
    /\ BatchIsOwed
    /\ FreshIds
    /\ PassIsBatch
    /\ HistoryIsKept

\* The rows that wait, or may be put back to wait by the running pass.  Of those
\* that are not copies only an ingest adds to them, and it leaves at most
\* MaxPending outside the batch.
OwedTo(u) ==
    {s \in Sessions :
        /\ Owner(s) = u
        /\ \/ state[s] = "pending"
           \/ s \in batch /\ state[s] \in {"archived", "distilled"}}

BacklogInv ==
    /\ Cardinality(batch) <= BatchSize
    /\ \A u \in Users : Cardinality(OwedTo(u) \ Analyses) <= MaxPending + BatchSize

-----------------------------------------------------------------------------
(* Action properties *)

\* A row that is owed distillation disappears only with its project.
OwedRowsAreKept ==
    [][\A s \in Sessions : state[s] = "pending" /\ state'[s] = "absent"
                           => project[s] \notin projects']_vars

\* A settled row is settled: only retention and project deletion touch it
\* again.  The one exception is the row in hand, when dropping the vault cache
\* raises after the row was committed as distilled.
SettledStaysSettled ==
    [][\A s \in Sessions :
         (state[s] \in {"distilled", "filtered", "failed"} /\ state'[s] # state[s])
         => (state'[s] = "absent" \/ (phase = "invalidate" /\ Current(s)))]_vars

-----------------------------------------------------------------------------
(* Liveness *)

\* A waiting row with attempts left is eventually settled, archived or
\* deleted, or has spent its attempts.
OwedRowsProgress ==
    \A s \in Sessions :
        (s \in Eligible) ~> (s \notin Eligible)

\* While no pass is ever cut short, no row stays pending: each is settled,
\* archived or deleted, also one that spends its last attempt.
EveryRowSettles ==
    [](crashes = 0) => \A s \in Sessions : (state[s] = "pending") ~> (state[s] # "pending")

-----------------------------------------------------------------------------
(* Refinement *)

Lifecycle == INSTANCE SessionLifecycle WITH claimed <- batch, Imported <- Analyses

\* The pipeline keeps the promise of the row state machine (the docstring of
\* RawSession), as far as the code keeps it: only rows in the worker's hands
\* are attempted and settled, and none is settled against its attempt count.
ImplementsLifecycle == Lifecycle!Spec

-----------------------------------------------------------------------------
(* Claims of the repository that the code does not keep *)

\* distillation_worker.py: "once a row hits max_attempts it transitions to
\* 'failed'": between two passes no row is left pending with its attempts spent.
ExhaustedRowsFail ==
    \A s \in Sessions :
        phase = "idle" /\ state[s] = "pending" => attempts[s] < MaxAttempts
=============================================================================
