# Verification of piLoci

piLoci is a self-hosted memory service for coding agents: it takes session
transcripts in, distils them with a small local LLM into memories and
"instincts", serves them back over MCP and REST, and lets teams share
documents. It is one asyncio process over SQLite (rows), LanceDB (vectors),
Redis (web sessions, pairing codes) and the file system (blobs, caches).

This directory holds TLA+ specifications of the parts of it that have a
protocol, TLC configurations that check them, and TLAPS proofs of their safety.
Paths below are relative to `src/src/piloci/` unless they start with `src/`.

1. [The system](#1-the-system)
2. [The plan](#2-the-plan)
3. [The modules](#3-the-modules)
4. [What the runs check](#4-what-the-runs-check)
5. [What is proved](#5-what-is-proved)
6. [Where the code departs from what is said of it](#6-where-the-code-departs-from-what-is-said-of-it)
7. [What is not modelled](#7-what-is-not-modelled)

## 1. The system

### How the parts hang together

Everything runs in one process and one event loop. A task gives way to others
wherever it awaits: a database call, a LanceDB call, a Redis call, an LLM call.
There is no lock around a sequence of such calls, and no transaction spans two
stores. Two facts about the SQL layer matter everywhere: a row is read by one
statement and written by a later one, and the ORM's `UPDATE` lists only the
columns whose value was changed and is keyed on the primary key alone, so what
was checked on reading is not checked again on writing.

    clients --ingest--> raw_sessions --+                      +--> LanceDB memories
                                       | distillation pass    +--> LanceDB instincts
    timer, run-now --> orchestrator ---+----------------------+--> Project counters
                           |                                  +--> vault cache dropped
                           +--> profile refresh, weekly digest
    REST / v1 / MCP ----------------------------------------------> memories, counters
    team routes, doc tool --> team_documents, blobs --(tasks)--> team index, LOCI.md

### Inventory

| Component | State | Operations | What is hard about it | What makes it correct |
|---|---|---|---|---|
| Distillation queue and worker (`curator/distillation_worker.py`, `curator/backlog.py`) | `raw_sessions`: state, attempts, stamps | fetch a batch, book an attempt, extract, deduplicate, save, settle; error handler | rows change while the worker has them; crash between any two writes; partly failed saves | attempts bounded, no row lost or given up early, saved before settled, backlog bounded, every row settles |
| Session ingest (`api/routes.py`, `curator/prefilter.py`) | `raw_sessions` | insert, enforce the ceiling, skip duplicates | check-then-insert of a session id | one row per session, ceiling per user |
| Retention (`ops/maintenance.py`) | `raw_sessions`, `audit_logs` | delete what is terminal and old | which rows are terminal | rows still owed are kept |
| Session upload (`tools/memory_tools.py` hook, `api/routes.py`) | `state.json` on the client, `raw_sessions` | scan, post, look up, store, mark | overlapping hooks, lost answers, a mark without a row | what is marked has been stored, a repeat is skipped |
| Projects (`api/routes.py`, `ops/backfill.py`) | slugs, folders, sessions | resolve, claim, create, delete, backfill | find-then-create over unique slugs, the backfill beside live uploads | sessions of two folders do not merge |
| Schema start-up (`db/session.py`) | schema, `raw_analyses` | add columns, backfill at every start | copies made again after retention purged them, past the ceiling | history is not distilled again, nothing waiting is lost, backlog bounded |
| Periodic curator (`curator/periodic.py`) | stop and wake events, place in the rotation | tick, run-now, stop | event races, starvation | stop wins, run-now is served, each job has its turn |
| Process start-up and shutdown (`main.py`) | background tasks | start, stop with ten seconds of grace, cancel | cancellation at any await | as above |
| Memory store (`storage/lancedb_store.py`, `api/v1.py`, `tools/memory_tools.py`) | LanceDB rows of projects and teams, `memory_count` | save, remember (deduplicated), update, retag, delete, clear | read-then-upsert over two calls, counter in another store | vector belongs to text, projects and teams are isolated |
| Team documents (`api/team_routes.py`, `storage/team_files.py`, `curator/team_doc_index.py`, `curator/team_index.py`) | rows, blobs, index chunks, LOCI.md | create, upload, edit, delete, doc tool, index and map tasks | lost updates, unordered background tasks, shared blobs | one live document per path, deletion final, index and map follow |
| Extraction (`curator/extraction.py`) | none | chunk a transcript, merge and parse LLM answers | window arithmetic | windows cover the text |
| Scheduler and budget (`curator/scheduler.py`, `curator/budget.py`) | monthly spend | idle window; booking of a call | midnight, boundaries | a window holds the times from its start to its end |
| Profile refresh, weekly digest (`curator/profile.py`, `curator/weekly_digest_worker.py`) | one row each | read, LLM, overwrite | change during the LLM call | no change is overlooked |
| Instincts (`storage/instincts_store.py`) | confidence, count | observe, contradict | read-modify-write | bounds, no lost observation |
| Vault cache (`curator/vault.py`) | a JSON file per project | rebuild, drop | rebuild racing a drop | never staler than the last drop |
| Team wiki (`curator/team_wiki_worker.py`) | articles, build flag, time stamp | build, sweep, flag | lock in a column with a time-out | one build at a time, hand edits survive |
| Teams and invites (`api/team_routes.py`) | members, invitations | invite, accept, reject | check-then-act | an invitation is answered once |
| Web sessions (`auth/session.py`) | Redis keys and a set per user | create, evict, delete all | not atomic across keys | limit kept, none left behind |
| Accounts and sign-in (`auth/`) | users, reset tokens | sign up, log in, reset | check-then-act | single use, one first user |
| Device and install pairing (`auth/`) | short-lived codes in Redis | create, approve, deny, poll, consume | read-then-write | delivered once, verdict final |
| LLM gateway (`curator/gemma.py`, `curator/llm_providers.py`) | one permit, cool-downs | call, fall back | everyone waits for one permit | permit returned |
| Health monitor, Telegram bot (`notify/`) | alert state, offset | poll, alert | debouncing | one alert per incident |
| HTTP, MCP transport, CLI, installer, web client | little | dispatch, formatting | - | - |

`PROJECT.json` lists each with its status, and the hazards of the code at
their lines with the properties that would catch them.

## 2. The plan

The order is that of the damage a mistake would do: first the queue no session
may get lost in, then what feeds and drives it, then the stores that hold what
users see, then the team side, then accounts and the smaller jobs.

| Step | Modules | Composition, abstract specification | State |
|---|---|---|---|
| 1 | `Distillation` with `SessionLifecycle` and `DistillationProofs` | queue, ingest, worker, retention, deletion, crash and the migration at every start in one module because they share every row; implements `SessionLifecycle` | modelled, proved |
| 2 | `PeriodicCurator` | drives the passes; its ticks are the fairness of `FetchBatch` | modelled, types proved |
| 3 | `MemoryStore` | the store the worker saves to, with its other writers | modelled, proved |
| 4 | `TeamDocs` | rows, blobs, index and map | modelled, proved |
| 5 | `SessionUpload`, `Projects` | the deduplicating upload with its client, folders and projects with the operator's backfill | modelled, proved |
| 6 | `TeamWiki`, `TeamInvites` | build flag, change-gate and sweep beside editors; membership | modelled, proved |
| 7 | `WebSessions`, `Accounts`, `Pairing` | what lives in Redis and in the users table | modelled, proved |
| 8 | `IdleWindows`, `Chunking`, `LlmGateway` | pure functions against reference definitions; the slot, the chain, the bookings | modelled, proved |
| 9 | `Instincts`, `Profiles`, `VaultCache`, `WeeklyDigest`, `HealthMonitor` | read-modify-write, stale gates, notices | modelled, proved |
| 10 | `MCRequests`, `MCJobs`, `MCTeamWiki` | one run over several components that share no state | checked, proved to implement their parts |
| 11 | `MemoryStoreProofs`, `IdentityProofs`, `UploadProofs`, `TeamDocsProofs`, `TeamProofs`, `RequestsProofs`, `JobsProofs` | one proof module for components that belong together | proved (section 5) |

Each of the modules defines its own specification and declares no RECURSIVE
operator, so that it can be reasoned about without the composites of step 10.
The theorems of step 11 were taken in the order of the steps: first the safety
properties of the stores (memories, documents, uploads and projects), then of
accounts, tokens and teams, then of the jobs; last that the composites
implement their parts, which carries all of it over to them. Left for later:
abstract specifications for the gateway's slot and for the index of team
documents, which now have invariants only.

## 3. The modules

All of them cut the code at its awaits: one action is what a task does from
one await to the next, and it contains every state change made there. The
constants of each module carry named assumptions, which TLC evaluates and the
proofs use. Operators marked "Mutant of" are not part of any specification:
each is a plausible mistake in the definition it names, put in its place to
see that a property notices.

### Distillation

The `raw_sessions` table as a durable queue. Session *k* is the *k*-th row by
`created_at` (no writer sets `priority`, which leaves `ORDER BY priority,
created_at` as `created_at`): first `Analyses`, the rows left behind in
`raw_analyses`, which nothing writes to any more, then what is ingested. The
model begins with the first start of this version, on a database whose
`raw_analyses` may hold processed, errored and waiting rows (`legacy`).

| Action | Code |
|---|---|
| `IngestFiltered`, `IngestPending` | `route_ingest`: insert, and for pending rows `enforce_ceiling_after_ingest`, in one transaction |
| `FetchBatch` | `_fetch_pending_batch`: oldest pending rows with attempts left; nothing marks them as taken |
| `BeginAttempt` | `_process_one` books the attempt before the LLM call |
| `ExtractNothing`, `ExtractSome` | the LLM's answer; the empty one is a soft failure (`Requeue`) |
| `DedupMemories`, `SaveMemories` | `_save_memories`; the lookup may miss an old copy or raise |
| `SaveInstincts` | `_save_instincts`, where a failing `observe` is swallowed |
| `FinishRow`, `InvalidateVault` | the settling transaction, and the drop of the cache after it |
| `RowRaises` | the handler in `run_distillation_pass`, from any point of `_process_one` |
| `PassAborts` | the handler itself raises: the rest of the batch is abandoned |
| `DeleteProject`, `CleanupRetention` | cascade, which takes rows of both tables; retention by `processed_at` or archived |
| `Crash` | death or cancellation at an await. A stop between two rows of a pass is a crash at that point |
| `Startup` | `init_db`: stamped pending rows become distilled, and every row of `raw_analyses` that `raw_sessions` does not hold is inserted, those purged before once more, in the state `Migrated` derives, whatever the ceiling |

A copy that is made again is a new row: its attempts and observations count from
zero. A waiting analysis that was distilled and purged is thus distilled again
at the next start, while a processed or errored one never is
(`HistoryIsNotRedistilled`).

Abstractions: the transcript is nothing but its extraction, a set of facts and
at most one instinct (`MaxKnacks`; none where a run is about the queue alone);
retention's cutoff is a choice among the reclaimable rows that are not in the
running pass (a row touched minutes ago is not months old); a memory is known by its fact, so copies of a fact are one element.

### SessionLifecycle

What the queue promises about one session, without batches, phases, saves and
crashes: which state may follow which, that only a claimed row is tried or
settled, that giving up takes all attempts and putting back takes one that is
left; and that rows of an older table are copied as they are, with no attempt
spent, while the worker is at rest (`Import`). `Distillation` implements it with
`claimed <- batch` and `Imported <- Analyses`.

### PeriodicCurator

`run_periodic_curator`: sleeping on two events and a timer, and the choice made
on waking (`_sleep_or_signal` and the loop body up to its next await are one
step). `WeatherTurns` is the temperature and load gate, `Kill` the cancellation
by `_shutdown`, `StartProcess` a new process with fresh events. `Pause` and
`Resume` are the two commands of the Telegram bot.

### MemoryStore

The memories of projects and teams in one LanceDB table, and `memory_count` in
SQLite. A request performs one operation; `MemoryStore.update` is two steps
(`UpdateRead`, `UpdateWrite`), because it reads the row and then merge-inserts
it by id. Which writers touch the counter, and when, is as in the code: the
worker after saving, REST delete and clear; not REST create, v1 or MCP. The
team variants (`TeamSave`, `TeamPatch`, `TeamRetag`, `TeamForget`, `TeamErase`)
address a row by team and id and touch no counter. Hybrid search and ranking
are not modelled; lookups are exact on equal texts and may miss in the worker.

### VaultCache

`vault.json` of a project: `ListForVault` lists the memories, `WriteVault`
writes the file made of that list, `ChangeMemories` and `Invalidate` are a
writer before and after its drop of the file, and `WriterDies` one that never
comes to it. Files are found by slug only, which two users may share.

### WebSessions

Redis keys of sessions, the set of ids per user, and the counter of failed
sign-ins; every Redis call is a step. `CountListed`, `ReadListed` and
`DropMember` are `_enforce_session_limit`, with the reading of the session keys
as the deployed client does it (bytes, see section 6). `StartSweep` and
`FinishSweep` delete all sessions of a user. Keys expire at any time.

### Accounts

Rows of users and reset tokens. An operation is two steps, the read with its
checks (`Begin...`) and the commit (`Commit...`), since other requests commit
between them; the commit writes the columns the ORM has seen change, by the id
of the row. Passwords, second-factor secrets and tokens are named after the
request that set them.

### Pairing

API tokens and the two ways to a machine: an install code, and the device flow.
`ReadForApproval`/`WriteApproval` and `ReadForDenial`/`WriteDenial` are the two
Redis calls of `approve` and `deny`, `PollTerminal`/`DeleteDelivered` those of
`poll`. Keys expire at any time.

### Projects

`_resolve_or_create_project` with its claim of a project without a folder, the
insert that may meet a taken slug and the second one with a hash; the init tool
with `create_project_fn`, which looks at what is in its way and inserts up to
three times; creation and deletion by hand; and
`backfill_cwd`, in which every query and transaction is a step and which may be
interrupted anywhere. Slugs of the folders of interest collide, since only
those are of interest. The uploads are those with a token of the user, which
resolve their folder; a token of one project files every session under that
project, whatever its folder (`api/routes.py:2793`), and is left out.

### SessionUpload

The hook script and `route_sessions_ingest`: scanning the folder against
`state.json`, posting a batch, the lookup and insert of each session, the
answer, and the write of `state.json`, which another hook may have written
since. Answers are lost, hooks and server are killed.

### WeeklyDigest, Profiles, Instincts

Three jobs that read, think and write. `WeeklyDigest`: the sessions of a week
are counted, the row is upserted later; the worker makes completed weeks without
a row, a request any week. `Profiles`: the gate compares the newest memory with
the stored profile, in whole seconds; `AskForProfile` lists the memories,
`StoreProfile` stores what the LLM made of them, or nothing of use.
`Instincts`: `LookForInstinct`/`RecordObservation` and
`ReadInstinct`/`WriteDecay` compute from the row they have read.

### HealthMonitor

One poll is `Evaluate` (trackers and the notices they fire), `LookAtWindow`
(queue them or flush), `Send` per message, and `ReportAndSleep`. `Folded` is the
consolidated summary. Readings, the window and restarts change at any time.

### LlmGateway

`_call_one` with its retries, `chat_json` and `chat_text` with their chain of
targets and their healing of cut answers, `chat_stream`, the slot for the local
model with its queue, `CancelCall` at any await, the providers' rows, and
`RecordUsage`, the booking of an external call. A stream holds the slot while its
client reads (`StreamEnds`).

### IdleWindows and Chunking

Pure functions: `IdleWindow.contains` and `_next_idle_window`;
`_split_full_coverage` and the bound on the number of chunks that are read, for
calls that prefer an external provider (of the callers, only the loop that
nothing starts sets that flag). A behaviour is one question; its initial states
are all questions within the bounds.

### TeamDocs

The documents of one team. A request finds its document (`UploadRead`,
`SaveRead`, `EditRead`, `DeleteRead`), writes and commits it (`Write`,
`DeleteWrite`; `CreateDocument` is one step), and then in one go drops the blob
of a deleted document and creates two background tasks (`Finish`). The index
task deletes the document's chunks (`TaskClear`) and merges the new ones in
(`TaskInsert`); the map task reads the live documents and LOCI.md (`MapRead`)
and upserts it (`MapWrite`). Either may fail, and a crash takes all of them.
`Assigned` is what the ORM does to a column: a value equal to the one read is
not written. The doc tool of the MCP server changes rows and starts no tasks.

Left out: versions, authors, sizes and types of a document; LOCI.md as a
document somebody edits by hand; the wiki articles listed in it; membership.

The history variable `disturbed` names the documents for which nothing is
promised: those changed on the basis of an outdated read or while an older
index task was on its way, those with a failed task, and those the doc tool
changed. The run shows that nothing else disturbs the index.

### TeamWiki

The articles of a team, the mark of its last build and the build flag. A
request (`RequestBuild`, `QueueBuild`: the flag is read in one transaction and
set in another) or the worker at dawn (`FindDue`) starts a build, which reads
the material (`StartBuild`), drafts and stores topic after topic
(`DraftArticle`, `DraftFails`, `StoreArticle`), sweeps (`SelectStale`,
`DeleteStale`) and marks (`FinishBuild`, `EndBuild`). Whatever is not guarded
may raise and end a build without its mark (`BuildRaises`). People edit in two
steps. A text is named after the material it was drafted from.

Time is a counter of instants, `Second` of which make a second. A writer reads
the clock (`StampChange`) and commits later (`CommitChange`), other changes,
builds and marks in between; `Stamp` is the date the gate compares, cut to the
whole second for a memory (`int(time.time())`) and exact for a document, against
a mark that is exact. A topic may be left with too little text to be an article
(`thin`).

Abstractions: the clusters of a team have slugs of their own (`_cluster_slug` may
give two of them one); a topic has one writer at a time and keeps no text twice;
a topic whose last item goes is gone, one that loses another item keeps the
date of the newest; team, memories and documents are read in one step; the
index chunks of documents, which the scan for memories may meet, are no material
of their own.

`excused` names the topics for which `NoChangeIsForgotten` promises nothing, and
each entry is a change the code loses: one committed beside a build, one whose
stamp at its commit is not later than the last mark, a failed draft, an article
whose row another writer took, two builds at a time. A later build that drafts
the topic from its present material takes it off again.

### TeamInvites

Team, members and invitations. `ReadInvite` is the check of an answer,
`AnswerInvite` its commit, with the row's UPDATE that fails if it is gone; both
routes, by token and by id, are these two steps. `BeginRemoval` and
`RemoveMember` are the owner's, `LeaveWithAccount` the cascade.

### The composites MCRequests, MCJobs, MCTeamWiki

Components that share no state in the model are checked in one run. A
behaviour is about one of them, its `focus`, chosen at the start; the others
stand still. The state spaces then add up instead of multiplying, and every
property is checked over all the behaviours of its own component. `View`
leaves out what stands still. In `MCJobs`, which checks liveness, there is no
view, and the fairness of each component is asked of the behaviours about it.

## 4. What the runs check

Each run uses `-workers 2`. "States" are distinct states.

| Run | States | Bounds | What it shows |
|---|---|---|---|
| `distillation` | 243 927 | 3 sessions, one of them of `raw_analyses`, 1 project, 1 fact and 1 instinct, ceiling 1, batch 2, 2 attempts, 1 crash or aborted pass | the safety of the queue, and that it implements `SessionLifecycle` |
| `distillation_live` | 83 724 | 4 sessions, one of them of `raw_analyses`, batch 1, no instincts, under `FairSpec` | the bound on the backlog, and that rows come up and settle |
| `requests` | 1 531 000 | below | what concurrent requests of clients keep |
| `jobs` | 244 684 | below, under `JobsFairness` | what the background jobs keep, and that they come to an end |
| `team_docs` | 1 435 572 | 3 requests, 2 paths, a text of two chunks, a binary file | unique paths, index and map that follow |
| `team_wiki` | 753 673 | below | change-gate, sweep, membership |

Bounds of the composites, by component:

| Component | Bounds |
|---|---|
| memories | 3 requests, 2 projects, 1 team, 2 texts, 2 tags (one request has the first text, and the first project or the team: names are interchangeable) |
| vault caches | 3 projects, two of them with one slug, 2 readers, 2 writers, 2 changes |
| web sessions | 1 user, 2 sign-ins at a time, limit 1, lock-out after 2, 2 sessions |
| accounts | 2 people, 2 requests at a time, 4 in all |
| pairing | 1 device, 2 browsers, 2 pollers, 2 tokens |
| projects | 2 folders of one name, 1 upload, 1 init, 2 projects, 3 sessions |
| uploads | 2 transcripts growing to version 2, 2 hooks, batches of 2 |
| curator | 3 jobs, tick of 2, 2 run-now calls, 1 restart |
| digests | weeks 0 to 2, 2 sessions each, 1 caller |
| profiles | 2 memories, 3 seconds, 3 saves |
| instincts | 1 habit, 2 contradict calls, 5 observations |
| health monitor | 1 kind, 2 consecutive readings, cool-down and interval of 2 polls, 4 queued notices |
| gateway | 1 provider and that of the server, 2 callers, 2 attempts, 1 continuation, 1 booking |
| idle windows | a day of 8 times: 512 questions |
| chunking | texts up to 30, windows up to 6 with every overlap, up to 6 samples, 4 chunks of full coverage |
| wiki | 2 topics, one of memories; 1 requested build beside the worker's, 1 editor, 3 instants in seconds of 2, 2 rows, 1 edit; of instants, rows, edits, thin topics, changes and edits under way at most 4 together, 3 while two builds are at work (`FewEvents`) |
| invitations | 2 members, 2 answers at a time, 2 invitations |

Why the bounds are enough to be of interest. Three sessions with a ceiling of
one and a batch of two make an ingest archive a row while the worker has it,
or while it waits, and leave one for retention. The row of `raw_analyses` is
copied, settled or archived, purged and copied again after the crash; with
three more rows a batch of one, the ceiling and that copy make the bound of the
backlog reachable. Two attempts
distinguish the last one from the others; one crash can fall between any two
steps. Three requests on a memory or a document are one that creates it and two
that race on it. The text of two chunks and the one chunk of a binary file make
a longer revision be replaced by a shorter one. In `distillation_live` instincts
would only multiply the states: no property of that run looks at them. Everywhere
else two tasks of a kind are there wherever a race needs two, and one more step
(a save, a session, a restart, a token) than the shortest sequence that a
mistake in the code would need: every property is seen to fail on its mutant
within these bounds. Two sessions in a week are what tells a digest counted
early from a complete one; five observations reach the promotion at four and
go one beyond; 30 characters in windows of 6 are several windows more than the
4 that are read in full. In the wiki a second of two instants is the shortest
in which a change can follow the mark of a build.

The properties, by the question they answer:

- *Can a row be lost, or ground on for ever?* `RowInv` (attempts are bounded, a
  row fails only when exhausted, a waiting row carries no stamp), `OwedRowsAreKept`
  over retention and deletion, `OwedRowsProgress` and `EveryRowSettles`.
- *Is anything settled before its results are stored, or stored too often?*
  `FinishAfterSave`, `ObservedOncePerAttempt`.
- *Does the queue do what one session is promised?* `ImplementsLifecycle`: a
  settled row stays settled, with the one exception the code has, the cache
  drop that raises after the commit.
- *How far can the ceiling be overshot?* `BacklogBounded`: by one batch, and by
  the waiting rows that a start copies.
- *Do concurrent updates mix?* `VectorMatchesText`, `ForeignRowsUntouched`.
- *Does a cache outlive what it shows?* `CachedVaultIsFresh`, with the exceptions
  it names.
- *Can a user be locked out for ever?* `LockoutsEnd`, `SomebodyCanApprove`,
  `DisconnectKeepsAccess`.
- *Is there a token nobody knows of?* `GivenTokensAreKnown`.
- *Do folders, sessions and marks stay together?* `FoldersStayApart`,
  `MarksAreEarned`, `RepeatsAreSkipped`.
- *Does a start repeat history?* `HistoryIsNotRedistilled`, over purges that make
  the copy be made again.
- *Do jobs that think for minutes overlook what came meanwhile?*
  `DigestsCoverTheirWeek`, `SkippedIsCovered`, `ObservationsAreCounted`.
- *Is the operator told the truth, and not too often?* `LastNoticeIsTrue`,
  `ReportsKeepTheirDistance`.
- *Does it come to an end?* `StopEndsIt`, `RunNowIsServed`, `EveryCallEnds`.
- *Is the arithmetic right?* `WindowsMatchTheClock`, `WholeTextIsRead`.
- *Do the three views of a document agree?* `OnePathOneDocument`, `IndexIsFresh`,
  `MapIsFresh`.
- *Does the wiki follow its material and spare what people wrote?*
  `NoChangeIsForgotten`, `HumanArticlesAreNotSwept`.
- *Does anybody join uninvited?* `JoinsAreInvited`.

Properties with exceptions keep them in a history variable (`crossed`,
`unsure`, `late`, `excused`, `raced`, `unfoldered`, `governed`, `orphaned`,
`disturbed`) that no step of the code reads. Each exception is a real departure of
the code, listed in section 6, and the run shows that it is the only one.

`CHECK_DEADLOCK FALSE` is set where the bounds on sessions, crashes, requests
or starts let the system come to rest, and in the runs that end in a violation.

### Fairness

- `Distillation.FairSpec`: the orchestrator starts a pass at every tick
  (`WF(FetchBatch)`), the event loop runs a ready task (`WF` of the worker's
  step), a supervisor restarts the process (`WF(Startup)`), and the booking of a
  row's attempt, tried in pass after pass, is not refused by the database every
  time (`SF(BeginAttempt)`; `RowRaises` competes with it). Ingests, deletions, retention
  and crashes are under no obligation. `EveryRowSettles` is stated for
  behaviours in which no pass is cut short, because of the finding
  `exhausted_rows_fail` below.
- `JobsFairness`, curator: time passes, ready tasks run and jobs end (their LLM
  calls have time-outs). Nothing is assumed of the weather, of run-now calls and of
  restarts.
- `JobsFairness`, gateway: each caller goes on (`WF` of its steps), since every
  HTTP request has a time-out and the event loop runs ready tasks. For `StreamEnds`
  that takes a client that reads on, or whose connection breaks: `chat_stream`
  yields while it holds the slot (`curator/gemma.py:327-358`). Nothing is
  assumed about answers, or about who cancels. The slot is granted in turn, as
  `asyncio.Semaphore` does, and so weak fairness is enough.

## 5. What is proved

Every safety property of the passing runs, invariant or action property, is a
theorem: what a run shows for a few requests, rows or crashes holds for any
number. Each theorem is about the specification its module defines, without
fairness, and uses only the named assumption of that module on its constants.

| Proof module | Theorem | States |
|---|---|---|
| `DistillationProofs` | `TypeCorrect`, `RowsAreSound` | `TypeOK`, `RowInv` |
| | `AttemptsAreBounded`, `FailureIsEarned`, `PendingRowsAreUnprocessed` | the three safety invariants in `RowInv` |
| | `BacklogIsBounded` | `BacklogBounded` |
| | `OwedRowsSurvive`, `SettledRowsStay` | `OwedRowsAreKept`, `SettledStaysSettled` |
| | `HistoryStays` | `HistoryIsNotRedistilled` |
| | `SavedBeforeSettled`, `ObservationsAreBounded` | `FinishAfterSave`, `ObservedOncePerAttempt` |
| | `PipelineImplementsLifecycle` | `Distillation` implements `SessionLifecycle` |
| `MemoryStoreProofs` | `VectorsMatchTheirTexts`, `ProjectsAreIsolated` | `VectorMatchesText`, `ForeignRowsUntouched` |
| `IdentityProofs` | `LockoutsAlwaysEnd` | `LockoutsEnd` |
| | `ApproversRemain`, `DisconnectingIsSafe` | `SomebodyCanApprove`, `DisconnectKeepsAccess` |
| | `GivenTokensCanBeRevoked` | `GivenTokensAreKnown` |
| `UploadProofs` | `MarksStayEarned`, `RepeatsStaySkipped` | `MarksAreEarned`, `RepeatsAreSkipped` |
| | `FoldersAreKeptApart` | `FoldersStayApart` |
| `TeamDocsProofs` | `PathsAreUnique`, `TheIndexCatchesUp`, `TheMapCatchesUp` | `OnePathOneDocument`, `IndexIsFresh`, `MapIsFresh` |
| `TeamProofs` | `ChangesReachTheWiki`, `SweepsSpareHumans` | `NoChangeIsForgotten`, `HumanArticlesAreNotSwept` |
| | `JoiningTakesAnInvitation` | `JoinsAreInvited` |
| `JobsProofs` | `DigestsStayComplete`, `SkippingLosesNothing`, `ObservationsStayCounted` | `DigestsCoverTheirWeek`, `SkippedIsCovered`, `ObservationsAreCounted` |
| | `TheOperatorIsToldTheTruth`, `ReportsAreSpaced` | `LastNoticeIsTrue`, `ReportsKeepTheirDistance` |
| | `CallsTakeTurns` | no two calls talk to the local model at a time (stated there only) |
| | `WindowsKeepTime`, `WholeTextsAreRead` | `WindowsMatchTheClock`, `WholeTextIsRead` |
| `RequestsProofs` | `CachedVaultsStayFresh` | `CachedVaultIsFresh` |

Each component has its type theorem beside them (`...TypeCorrect`, or the type
invariant together with the inductive one, `...AreSound`).

*The composites.* `RequestsRefineTheirParts`, `JobsRefineTheirParts` and
`TeamsRefineTheirParts` show that a behaviour of a composite is, for every
component, a behaviour of the component's own specification. The theorems about
the components therefore carry over (`RequestsTypeCorrect`, `RequestsAreSafe`,
`RequestsTakeNothingAway`, `JobsTypeCorrect`, `JobsAreSafe`,
`JobsKeepTheirPromises`, `TeamsTypeCorrect`). `JobsSpec` adds fairness, which
these results do not use.

*Assumptions.* They are naturals for bounds, positive where the code would
divide by them or loop on them, and finite sets where something is counted
(`Facts`, `MemoryRequests`, `Providers`: rows of one table). Three say that no
project, folder or transcript is called like the value that stands for its
absence. Nothing is assumed of interleavings.

### Distillation

None of the three safety invariants is inductive alone: the
handler `Requeue` writes a row by its id whatever its state is by then, so what
the row may be has to be known. `RowInv` adds four facts. `BatchIsOwed`: a row
of the batch was pending when it was fetched, so it can only have been archived
or deleted since, or be the row in hand after its settling; and it has an
attempt left until its own is booked. `FreshIds`: an id not yet given out has
left no trace, so an ingest meets no row of the batch. `PassIsBatch`: a pass is
going on exactly while its batch is not empty. `HistoryIsKept`: a copy of a
processed or errored analysis is there as it was copied or not at all, was
never attempted and is in no batch; `HistoryStays` follows. Every worker step keeps `RowInv`
(`WorkerKeepsRowInv`, with one lemma for `Requeue`), and so do the others.

*The backlog* needs more: the pending rows alone are not bounded inductively,
since archived rows come back, and starts add to them. `OwedTo(u)` is the set of
rows that are pending or may be put back by the running pass. Of those that are
not copies only an ingest makes more, and it leaves at most `MaxPending` outside
the batch (`IngestKeepsBacklog`), so that `MaxPending + BatchSize` bounds them
(`BacklogInv`). Of the copies only those of waiting analyses are ever pending
(`HistoryIsKept`), and each is there once: `WaitingLegacy(u)` bounds the rest. The argument uses the
library's facts on cardinalities.

*Observations* (`ObservationInv`): the row in hand has booked an attempt that it
has not used, from the booking to the observation.

*Refinement* is proved step by step under `RowInv`; the worker's bookkeeping
between two writes to the row is a stutter, `Requeue` is `Settle`, an ingest is
`Submit` with the archived rows as its overflow. `AttemptsBounded`,
`FailedOnlyWhenExhausted` and `PendingIsUnprocessed` are conjuncts of `RowInv`, and
`SettledStaysSettled` follows from `SessionLifecycle`: the runs check `RowInv` and
the refinement, the theorems state all four.

### Stores and caches

*Memories.* The second call of an update names its row by the id alone. It
stays at home because of `WritersAreAtHome` (the row under the id, if there is
one, is of the project the update checked), which needs `WritersAgree` (all who
hold one id are of one project, since a row deleted between the two calls comes
back) and `FreshIdsAreEmpty`. That ids never run out, `IdsSuffice`, is a
statement about cardinalities and belongs to type correctness.

*Documents.* `IndexInv` says of a document whose changes did not overlap that
at most one task about it is under way, that the task works on the present
content, and that without one the chunks are those of the content. `MapInv`
says what a map task has read when it is about to write: the live documents,
and the map as it is, unless another has drawn it since. `WorkHasADocument` and
`StepsAreInOrder` tell which requests are about a document that exists.

*Vault caches.* With `CachedVaultIsFresh` goes only that readers ask for
projects: the exceptions of the property (`crossed`) are what makes it inductive.

### Accounts and tokens

*Approval.* That the first account can approve the others holds because a
sign-up decides to be the first by looking at the table. `LateComersAreNotAlone`
says that who did not find it empty will not find it empty, and `IdsAreSpent`
with `NumbersAreOwn` that an account made after a deletion is told apart from
the one a request has read. *Disconnecting* needs `DisconnectsHavePasswords`: the
password seen when the request began is still there when the link goes.

*Tokens.* A token is known before anybody can fetch it; `TokensOnTheWayAreKnown`
follows it through the request that mints it, the browser that approves it and
the poller that has read its record.

### Uploads and projects

A mark is written after the answer, from what was read before the request.
`ReadingsAreEarned` and `BatchesAreDealtWith` say that what was read was earned then
and that a posted session is stored or still in the request; both survive kills,
because a killed hook forgets what it read and its request goes on.
`RequestsAreAlone` excludes the double insert for sessions that were never in two
requests (`raced` names the others).

`FoldersStayApart` needs to know what the reads before an await were about:
`Suits(n, f)` says that sessions of folder `f` may still be filed under project
`n`, for uploads and inits that have found it (`TasksSuit`) and for the
backfill that is about to move to it (`BackfillSuits`). A project may be
deleted meanwhile, and its number is not given out again (`RowsAreKnown`).

### Teams

`WikiInv` describes a build that is alone at work: every topic that is not
`excused` has the material the build has read, or none, or too little
(`BuildsCoverTheirTopics`); it is drafted, being written or yet to be drafted;
what is drafted stays (`DraftsAreKept`); and the row to be replaced is the row
that was read unless a person was faster (`RowsAreAsRead`). A commit excuses its
topic unless no build is at work and the new stamp is later than the mark, so
that a topic that is not excused opens the gate until a build that knows it is
marked. All of it holds for any length of the second. When the build ends,
`TopicsAreTold` follows topic by topic, which is `NoChangeIsForgotten`. Joins rest
on one fact, that an answer in progress is about the invitation it was read from.

### Background jobs

*Monitor.* `LastNoticeIsTrue` is about four places a notice can be in: the queue
that waits for the window, the notices just fired, the messages on their way and
what the operator has read. `NewsSays` states for one kind that the last word
among them is what the tracker holds true, unless it was lost. One lemma for
each move (`NewsGoesOut`, `NewsWaits`, `NewsIsRead`, `NewsIsLost`) says that it
survives the move; `ReadingsAreToldOf` that a tracker changes its mind exactly when
it fires. That the summary of the queue keeps the last word (`SummaryIsComplete`,
`OutboxInOrder`) rests on `AscendingCounts`: the numbers of a finite set, ranked
by how many are smaller, are all there and in order. `ChainsAreCounted` proves
that for any finite chain of sets, and the gateway's order of providers uses it too.

*Gateway.* `SlotInv`: the slot and its queue hold exactly the calls that want the
local model, each once, and who talks to it is first. A call goes on in one of three
ways, `Leaves`, `Joins` or `Keeps`, and each keeps the order of the others
(`SlotLeft`, `SlotJoined`, `SlotKept`); `CallStep` shows that every step of a call
is one of them, cancellation at any await included. `CallsTakeTurns` follows.

*Read, think, write.* Digests, profiles and instincts read before an await and write
after it. Their invariants say what the value in hand is still good for:
the count of a past week that nothing but a loss can change (`CountsAreOfPastWeeks`),
the memories an older profile covers (`OlderNotesAreCovered`), a confidence that was
earned when it was read (`ObserverIsCurrent`, `CriticsAreEarned`).

*Arithmetic.* `WindowsKeepTime` is a case split at midnight (`AroundMidnight`).
`WholeTextsAreRead` finds the chunk that shows a character by dividing its place
by the stride (`Quotient`, `StrideOf`, `CharacterIsShown`).

Where induction would be used, a least or greatest element stands for it: of the
places of a notice in the queue the summary keeps the first, and the last word
about a kind is at the greatest place (`LeastNatural`, from the well-foundedness of
`<`, and `MaxOfBounded`).

### What stays model-checked only

- The five liveness properties: `OwedRowsProgress`, `EveryRowSettles`,
  `StopEndsIt`, `RunNowIsServed`, `EveryCallEnds`. Fairness, and the ENABLED in it,
  are outside what the prover supports.
- What a fold computes, since induction over data is out of its reach too:
  of long texts nothing is proved beyond what `WholeTextIsRead` says of full
  coverage. Where a theorem needed an order, the
  model defines it by rank and not by recursion (`Ascending`, `UserFallbacks`).
- The findings of section 6, which are counterexamples.

## 6. Where the code departs from what is said of it

Each of these runs finds a behaviour of the program that contradicts a line of
the repository (quoted in `PROJECT.json`).

| Run | Departure |
|---|---|
| `exhausted_rows_fail` | "once a row hits max_attempts it transitions to 'failed'" (`curator/distillation_worker.py:164`): a crash in the last attempt leaves it pending, never to be fetched again |
| `live_blobs_exist` | "not shared across rows here" (`api/team_routes.py:1103`): two documents of a team with the same bytes share a file, and deleting one deletes it |
| `session_limit` | "Enforce max sessions per user" (`auth/session.py:59`): keys built from undecoded members are not found, so that nothing is evicted |
| `pause_holds` | "the worker re-reads it each poll" (`notify/telegram_bot.py:243`): nothing that runs does |
| `run_now_keeps_the_gates` | run-now "doesn't bypass temperature/load gates", "if held, the worker will hold" (`api/distillation_routes.py:338, 353`): `curator/periodic.py:132-134` starts the pass before it reads the temperature, on purpose |
| `memory_changes_trigger` | a memory change after the last build "should still trigger a rebuild" (`curator/team_wiki_worker.py:1236-1242`): memories are dated in whole seconds and the mark is not, so that one saved in the second of the mark opens no gate |

Met while modelling, without a run of their own. Some are the exceptions the
properties make.

*Distillation and its surroundings*

- "raw kept but won't be processed" (`db/models.py:182`): a row archived while
  the worker has it is distilled, failed or put back to pending.
- `curator/backlog.py:9` speaks of a hard ceiling; a row that comes back after it
  was archived exceeds it until the next ingest, by a batch at most; and the copy
  of `raw_analyses` at a start looks at no ceiling at all (`BacklogBounded`).
- "book the call against the budget ... use a flat default cost"
  (`curator/distillation_worker.py:379`): the call is booked with no tokens and no
  cost, which comes to 0 USD.
- `ops/maintenance.py:22`: a raw session "is reclaimable once it reaches a
  terminal state"; filtered rows have no `processed_at` and are never deleted.
- `db/session.py:115-117`: re-running the copy of legacy rows "is a no-op"; rows
  retention has purged are inserted again. `HistoryIsNotRedistilled` shows that
  those processed or errored before are not distilled again; one that was still
  waiting when it was copied is, as often as it is purged.
- An exact duplicate older than about 17 days scores below the 0.95 of the
  worker's deduplication, because the score is blended with recency.
- Preferences of the scheduler are saved but read by nothing; `is_budget_exhausted`
  is asked only by the loop nothing starts; the `cap_usd` of the status is that of
  the server; with a cap of 0 the remaining budget is 0 and never exhausted. An
  external call with an empty extraction, and the external calls of profiles,
  digests and the wiki, are not booked at all.

*Uploads and projects*

- A transcript that has grown is sent again and skipped by its session id; the
  id is compared whole and stored cut to 200 characters; `/api/ingest` has no
  deduplication. Two requests with one session at the same time insert it twice
  (`RepeatsAreSkipped`).
- One folder may get two projects; two claims of an old project merge two
  folders (`FoldersStayApart`). `ops/backfill.py:21` "Idempotent ... Safe to run
  repeatedly": an interrupted backfill is not completed by the next one, since the
  project it stamped is no longer selected; and two projects with one folder
  make it raise.
- `create_project_fn` ends with an insert that is there to raise (`main.py:208`,
  "will throw"); if the project in its way has gone meanwhile the insert
  succeeds, and the init tool reports a failure although the project exists.
- `src/PLAN.md:425`: deleting a project deletes its memories for good;
  `route_delete_project` leaves the LanceDB rows, and a running pass adds more.
  Its instincts stay as well.

*Memories and caches*

- Deletion is permanent (`src/PLAN.md:416`): an update that read the memory
  before its deletion inserts it again, also in a team.
- "Store new information ... permanently" (`src/docs/index.md:26`): if the memory
  to be refreshed was deleted after the lookup, the tool answers "updated" and
  nothing is stored.
- `src/PLAN.md:330`: `memory_count` is a cache, periodically synchronised; no job
  synchronises it, and half of the writers do not update it.
- A change of a team memory's metadata may change its author; the team's cache is
  not dropped when a tool forgets a memory.
- A vault file filled while a writer is between its change and its drop, or
  written after the drop, stays until the next change; the directory is keyed
  by the slug alone, which two users may share (`CachedVaultIsFresh`).

*Profiles, digests, instincts*

- The gate of a profile hides what was saved during the LLM call or in the same
  second; a failed answer stores an empty profile and closes the gate; deletions
  are not noticed; of more than 200 memories any 200 are listed
  (`SkippedIsCovered`).
- A digest requested during its week stays partial, one counted before the end of
  the week may overwrite the worker's, and a process that is down for a whole
  week never makes its digest (`DigestsCoverTheirWeek`).
- Two overlapping contradict calls lower a confidence once, and one written after an
  observation undoes its boost (`ObservationsAreCounted` is about the count, which
  no call loses).

*Monitor, windows, models*

- The class comment of the idle window (`curator/scheduler.py:42-43`) says it wraps
  when `end <= start`; with equal bounds it is empty (`start <= now < end`), and a
  next start is announced all the same. `WindowsMatchTheClock` says nothing of
  equal bounds.
- "the last always covers the closing" (`curator/extraction.py:180`): a last window
  that starts less than a stride after the one kept before it is dropped, so that
  a text a little longer than a window loses its end.
- The cool-down of `_eval_breach` is said to hold back repeats of an alert that is
  on; it also holds back a new breach after a recovery. The night's summary
  folds a breach, a recovery and a breach into one line; the queue is cleared
  before its messages are sent, and a restart forgets it (`LastNoticeIsTrue`). A process that
  restarts more often than the interval never reports.
- `chat_text` "NEVER silently truncates" and returns a cut text after its last
  continuation; the "no-loss path" of the extraction drops the chunks beyond
  `FULL_COVERAGE_MAX_CHUNKS` (`WholeTextIsRead` holds up to there); a JSON answer
  whose content is null raises past the retries; a provider deleted meanwhile is
  still called.
- `curator/team_doc_index.py:50-52` "Coverage is contiguous-ish": a document of
  10,000 characters leaves 4,000 of them in no chunk, its end among them.

*Accounts, sessions, pairing*

- Two sign-ups that overlap are both first users, and both administrators; a
  reset token can be used by two overlapping requests; overlapping changes of the
  second factor, and a re-hash at sign-in, undo each other's column; two
  administrators may demote each other.
- A session made while all sessions of its user are being deleted stays.
- A denial may be overwritten by an approval that read the record before it, and
  a delivered record written back.

*Teams*

- An accept and a reject that overlap leave a member with a rejected invitation.
- "optimistic `parent_hash`" (`cli_files.py:140`): two edits with the same parent
  are both accepted.
- `storage/lancedb_store.py:645-647`: a reindex leaves "no orphan/dupe chunks";
  two index tasks of one document, or one and a deletion, can. `IndexIsFresh`
  says when it holds.
- `tools/memory_tools.py:1281`: the doc tool "uses the same upsert semantics the
  REST routes already exercise"; it starts no index task, redraws no LOCI.md and
  drops no cache, so that both stay behind until a route changes the document.
- A text saved over a binary document by PUT or by the doc tool leaves
  `is_binary` and `storage_key` as they are.
- Two builds of a wiki may run; a build that failed to draft, or during which material
  changed, is marked as up to date; a document is dated before awaits and its
  commit, so that one committed after a mark may be dated before it; deleted
  documents do not open the gate, and a topic that is too thin keeps whatever
  article it had or loses it to the sweep (`NoChangeIsForgotten`). A human article is overwritten by the next build
  that drafts its topic, and the sweep deletes the revisions of an article that was
  edited after its selection.

## 7. What is not modelled

- The continuous loop `run_distillation_worker` with `decide` and `poll` of the
  scheduler: nothing starts it any more. With it goes the only caller that asks
  for full coverage of a transcript, of which `Chunking` is the arithmetic; the
  even sampling of the other calls is left out.
- Uploads with a token of one project (`api/routes.py:2793-2798`), which file the
  sessions of any folder under it: `FoldersStayApart` is about uploads that resolve
  their folder.
- Tokens that go with the deletion of their user or project (`db/models.py:139-144`):
  `GivenTokensAreKnown` is about accounts that stay.
- Of the team wiki: two clusters with one slug, identical copies of a text, and
  concurrent writers of one topic.
- Search: embeddings, hybrid ranking, the recency blend. They read.
- What is said to a language model and how its answer is parsed, repaired and
  merged. The models take an answer for anything or nothing.
- The team's vault cache (a copy of the project's, `curator/team_vault.py`), the
  wiki graph, images and exports; versions and authorship columns of team
  documents.
- MCP transport and dispatch; the bot's long polling and its reading commands;
  data portability (one long read, one long write); audit rows.
- Without a protocol of their own: headers and middleware, logging, settings, listing
  routes, the command line and installer, client libraries, the web front end.

Redis, LanceDB, SQLite and the LLM are modelled by what the code relies on: single
calls are atomic, any call may fail, an LLM answers anything or nothing.
