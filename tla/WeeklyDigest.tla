---------------------------- MODULE WeeklyDigest ----------------------------
(***************************************************************************)
(* The weekly digest of one user.  Every hour the worker looks for users   *)
(* with sessions in the last completed week and makes the digest of those  *)
(* that have none; POST /api/weekly-digest/regenerate makes that of any    *)
(* week, the running one included.  Both count first, ask the LLM, and     *)
(* then upsert the row of the user and the week.                           *)
(***************************************************************************)
EXTENDS Integers, FiniteSets

CONSTANTS
    Callers,      \* regenerate requests under way
    MaxWeek,      \* bound: the clock, in weeks
    MaxPerWeek    \* bound: sessions of the user in a week

ASSUME WeeklyDigestAssumption == MaxWeek \in Nat /\ MaxPerWeek \in Nat

Weeks == 0..MaxWeek

VARIABLES
    week,       \* the running week
    held,       \* the sessions of a week in raw_sessions
    digest,     \* the weekly_digests row of a week: its sessions, or NoDigest
    makers,     \* generate_for_user, called by the worker or by a request
    unsure      \* history: weeks whose digest was asked for before they were over, or
                \* that lost sessions afterwards

digestVars == <<week, held, digest, makers, unsure>>

NoDigest == -1
DigestRows == NoDigest..MaxPerWeek
Worker == "worker"
Makers == Callers \cup {Worker}
NotMaking == [week |-> -1, count |-> 0, unsure |-> FALSE]

DigestTypeOK ==
    /\ week \in Weeks
    /\ held \in [Weeks -> 0..MaxPerWeek]
    /\ digest \in [Weeks -> DigestRows]
    /\ makers \in [Makers -> [week : -1..MaxWeek, count : 0..MaxPerWeek, unsure : BOOLEAN]]
    /\ unsure \subseteq Weeks

DigestInit ==
    /\ week = 0
    /\ held = [w \in Weeks |-> 0]
    /\ digest = [w \in Weeks |-> NoDigest]
    /\ makers = [m \in Makers |-> NotMaking]
    /\ unsure = {}

-----------------------------------------------------------------------------

WeekEnds ==
    /\ week < MaxWeek
    /\ week' = week + 1
    /\ UNCHANGED <<held, digest, makers, unsure>>

IngestThisWeek ==
    /\ held[week] < MaxPerWeek
    /\ held' = [held EXCEPT ![week] = @ + 1]
    /\ UNCHANGED <<week, digest, makers, unsure>>

\* Retention or the deletion of a project takes a session away.
LoseSession(w) ==
    /\ held[w] > 0
    /\ held' = [held EXCEPT ![w] = @ - 1]
    /\ makers' = [m \in Makers |->
           IF makers[m].week = w THEN [makers[m] EXCEPT !.unsure = TRUE] ELSE makers[m]]
    /\ unsure' = unsure \cup {w}
    /\ UNCHANGED <<week, digest>>

\* Mutant of TargetWeek: the running week.
ThisWeek == week

\* previous_week_start.
TargetWeek == week - 1

\* aggregate_week_for_user: the sessions created in [start, end).
Count(m, w) ==
    makers' = [makers EXCEPT ![m] =
        [week |-> w, count |-> held[w], unsure |-> m \in Callers /\ w >= week]]

\* A cycle of the worker: the user has sessions in the week and no digest of it.
WorkerCounts ==
    /\ makers[Worker] = NotMaking
    /\ TargetWeek \in Weeks
    /\ held[TargetWeek] > 0
    /\ digest[TargetWeek] = NoDigest
    /\ Count(Worker, TargetWeek)
    /\ UNCHANGED <<week, held, digest, unsure>>

\* A forced call: neither the digest that is there nor an empty week is in its
\* way, and the caller names the week (the last completed one by default).
CallerCounts(c, w) ==
    /\ makers[c] = NotMaking
    /\ Count(c, w)
    /\ UNCHANGED <<week, held, digest, unsure>>

\* render_summary falls back to a sentence made of the counts, so the digest is
\* stored whatever the LLM does.
UpsertDigest(m) ==
    LET made == makers[m]
    IN  /\ made # NotMaking
        /\ digest' = [digest EXCEPT ![made.week] = made.count]
        /\ unsure' = IF made.unsure THEN unsure \cup {made.week} ELSE unsure \ {made.week}
        /\ makers' = [makers EXCEPT ![m] = NotMaking]
        /\ UNCHANGED <<week, held>>

\* The store or the database raises, or the process is restarted.
DigestFails(m) ==
    /\ makers[m] # NotMaking
    /\ makers' = [makers EXCEPT ![m] = NotMaking]
    /\ UNCHANGED <<week, held, digest, unsure>>

DigestNext ==
    \/ WeekEnds
    \/ IngestThisWeek
    \/ \E w \in Weeks : LoseSession(w)
    \/ WorkerCounts
    \/ \E c \in Callers, w \in Weeks : CallerCounts(c, w)
    \/ \E m \in Makers : UpsertDigest(m) \/ DigestFails(m)

DigestSpec == DigestInit /\ [][DigestNext]_digestVars

-----------------------------------------------------------------------------

\* The digest of a completed week counts all of its sessions, in whatever order
\* worker and requests count and store, unless a request asked for it before the
\* week was over (no worker makes it again) or sessions were deleted since.
DigestsCoverTheirWeek ==
    \A w \in Weeks :
        (w < week /\ digest[w] # NoDigest /\ w \notin unsure) => digest[w] = held[w]
=============================================================================
