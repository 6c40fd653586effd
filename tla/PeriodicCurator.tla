--------------------------- MODULE PeriodicCurator ---------------------------
(***************************************************************************)
(* The orchestrator that starts the curation jobs: one at a time, in       *)
(* rotation, one per tick of a timer; a tick on a hot device is skipped,   *)
(* and POST /api/distillation/run-now forces a distillation pass between   *)
(* the ticks.                                                              *)
(*                                                                         *)
(* The orchestrator is one asyncio task.  It gives way to others while it  *)
(* sleeps and while a job runs, and nowhere else: what it does on waking   *)
(* up (look at the events, at the thermometer, pick the job) is one step.  *)
(***************************************************************************)
EXTENDS Integers, Sequences

CONSTANTS
    HasInstincts, \* there is an instincts store
    Tick,         \* units of time between two ticks
    MaxWakes,     \* bound: calls of run-now
    MaxRestarts   \* bound: process starts after the first

ASSUME PeriodicCuratorAssumption ==
    /\ HasInstincts \in BOOLEAN
    /\ Tick \in Nat \ {0}
    /\ MaxWakes \in Nat
    /\ MaxRestarts \in Nat

\* The rotation: distillation and digest need the instincts store.
Jobs == IF HasInstincts THEN <<"distill", "profile", "digest">> ELSE <<"profile">>

JobNames == {Jobs[i] : i \in 1..Len(Jobs)}

VARIABLES
    pc,        \* "asleep", "running" a job, or "stopped"
    remaining, \* what is left of the tick while asleep
    job,       \* the job running
    forced,    \* it was started by run-now
    idx,       \* the number of jobs started in rotation, modulo their number
    wake,      \* the wake event is set
    hot,       \* the SoC is over its temperature or load ceiling
    stop,      \* the stop event is set
    wakes,
    restarts,
    paused     \* settings.distillation_enabled was cleared by /pause

curatorVars == <<pc, remaining, job, forced, idx, wake, hot, stop, wakes, restarts, paused>>

CuratorTypeOK ==
    /\ pc \in {"asleep", "running", "stopped"}
    /\ remaining \in 0..Tick
    /\ job \in JobNames \cup {"none"}
    /\ forced \in BOOLEAN
    /\ idx \in 0..(Len(Jobs) - 1)
    /\ wake \in BOOLEAN
    /\ hot \in BOOLEAN
    /\ stop \in BOOLEAN
    /\ wakes \in 0..MaxWakes
    /\ restarts \in 0..MaxRestarts
    /\ paused \in BOOLEAN

CuratorInit ==
    /\ pc = "asleep"
    /\ remaining = Tick
    /\ job = "none"
    /\ forced = FALSE
    /\ idx = 0
    /\ wake = FALSE
    /\ hot \in BOOLEAN
    /\ stop = FALSE
    /\ wakes = 0
    /\ restarts = 0
    /\ paused = FALSE

-----------------------------------------------------------------------------
(* The world around it *)

TimePasses ==
    /\ pc = "asleep"
    /\ remaining > 0
    /\ remaining' = remaining - 1
    /\ UNCHANGED <<pc, job, forced, idx, wake, hot, stop, wakes, restarts, paused>>

\* The device heats up or cools down.
WeatherTurns ==
    /\ hot' = ~hot
    /\ UNCHANGED <<pc, remaining, job, forced, idx, wake, stop, wakes, restarts, paused>>

\* route_run_now: request_wake sets the event, whatever the orchestrator does.
RunNow ==
    /\ wakes < MaxWakes
    /\ wakes' = wakes + 1
    /\ wake' = TRUE
    /\ UNCHANGED <<pc, remaining, job, forced, idx, hot, stop, restarts, paused>>

\* _shutdown sets the stop event.
Shutdown ==
    /\ ~stop
    /\ stop' = TRUE
    /\ UNCHANGED <<pc, remaining, job, forced, idx, wake, hot, wakes, restarts, paused>>

\* Ten seconds later _shutdown cancels the task.  (A process that dies is one
\* that was told to stop and killed at once.)
Kill ==
    /\ pc # "stopped"
    /\ stop
    /\ pc' = "stopped"
    /\ job' = "none"
    /\ forced' = FALSE
    /\ UNCHANGED <<remaining, idx, wake, hot, stop, wakes, restarts, paused>>

\* A new process: the events, the flag and the place in the rotation live in memory.
StartProcess ==
    /\ stop
    /\ pc = "stopped"
    /\ restarts < MaxRestarts
    /\ restarts' = restarts + 1
    /\ pc' = "asleep"
    /\ remaining' = Tick
    /\ idx' = 0
    /\ wake' = FALSE
    /\ stop' = FALSE
    /\ paused' = FALSE
    /\ UNCHANGED <<job, forced, hot, wakes>>

\* The Telegram commands /pause and /resume set the flag of the running process;
\* the orchestrator has looked at it when it was started, and does not again.
Pause ==
    /\ ~stop
    /\ paused' = TRUE
    /\ UNCHANGED <<pc, remaining, job, forced, idx, wake, hot, stop, wakes, restarts>>

\* /resume, and the end of the bot's own loop.
Resume ==
    /\ paused' = FALSE
    /\ UNCHANGED <<pc, remaining, job, forced, idx, wake, hot, stop, wakes, restarts>>

-----------------------------------------------------------------------------
(* The orchestrator *)

StartJob(name, byRunNow) ==
    /\ pc' = "running"
    /\ job' = name
    /\ forced' = byRunNow

SleepAgain ==
    /\ remaining' = Tick
    /\ UNCHANGED <<pc, job, forced>>

\* Mutant of WakeToStop: a pending wake hides the stop event.
WakeHidesStop ==
    /\ pc = "asleep"
    /\ stop
    /\ ~wake
    /\ pc' = "stopped"
    /\ UNCHANGED <<remaining, job, forced, idx, wake, hot, stop, wakes, restarts, paused>>

\* Of the two events stop wins.
WakeToStop ==
    /\ pc = "asleep"
    /\ stop
    /\ pc' = "stopped"
    /\ UNCHANGED <<remaining, job, forced, idx, wake, hot, stop, wakes, restarts, paused>>

\* run-now: a pass at once, past rotation and gate ("user asked for it").  Without an instincts store
\* there is no distillation job and the wake comes to nothing.
WakeToRunNow ==
    /\ pc = "asleep"
    /\ ~stop
    /\ wake
    /\ wake' = FALSE
    /\ IF "distill" \in JobNames
       THEN StartJob("distill", TRUE) /\ UNCHANGED remaining
       ELSE SleepAgain
    /\ UNCHANGED <<idx, hot, stop, wakes, restarts, paused>>

\* Mutant of WakeToTick: the place in the rotation runs past its end.
TickOverruns ==
    /\ pc = "asleep"
    /\ ~stop
    /\ ~wake
    /\ remaining = 0
    /\ IF hot
       THEN SleepAgain /\ UNCHANGED idx
       ELSE /\ StartJob(Jobs[(idx % Len(Jobs)) + 1], FALSE)
            /\ idx' = idx + 1
            /\ UNCHANGED remaining
    /\ UNCHANGED <<wake, hot, stop, wakes, restarts, paused>>

\* The tick: a hot device is left alone, and the job keeps its turn.
WakeToTick ==
    /\ pc = "asleep"
    /\ ~stop
    /\ ~wake
    /\ remaining = 0
    /\ IF hot
       THEN SleepAgain /\ UNCHANGED idx
       ELSE /\ StartJob(Jobs[idx + 1], FALSE)
            /\ idx' = (idx + 1) % Len(Jobs)
            /\ UNCHANGED remaining
    /\ UNCHANGED <<wake, hot, stop, wakes, restarts, paused>>

\* Mutant of JobEnds: the event is cleared with the pass it may have missed.
JobEndsDeaf ==
    /\ pc = "running"
    /\ pc' = IF stop THEN "stopped" ELSE "asleep"
    /\ remaining' = Tick
    /\ job' = "none"
    /\ forced' = FALSE
    /\ wake' = FALSE
    /\ UNCHANGED <<idx, hot, stop, wakes, restarts, paused>>

\* The job returns or raises; what it raises is logged.  A stop event is seen
\* before the next sleep.
JobEnds ==
    /\ pc = "running"
    /\ pc' = IF stop THEN "stopped" ELSE "asleep"
    /\ remaining' = Tick
    /\ job' = "none"
    /\ forced' = FALSE
    /\ UNCHANGED <<idx, wake, hot, stop, wakes, restarts, paused>>

CuratorNext ==
    \/ TimePasses
    \/ WeatherTurns
    \/ RunNow
    \/ Shutdown
    \/ Kill
    \/ StartProcess
    \/ Pause
    \/ Resume
    \/ WakeToStop
    \/ WakeToRunNow
    \/ WakeToTick
    \/ JobEnds

CuratorSpec == CuratorInit /\ [][CuratorNext]_curatorVars

\* Time passes, the event loop runs a task that is ready, and a job ends (its
\* LLM calls have timeouts).  Nobody has to press run-now or to stop the
\* process, and the device need not cool down.
CuratorFairness ==
    /\ WF_curatorVars(TimePasses)
    /\ WF_curatorVars(WakeToStop)
    /\ WF_curatorVars(WakeToRunNow)
    /\ WF_curatorVars(WakeToTick)
    /\ WF_curatorVars(JobEnds)

-----------------------------------------------------------------------------
(* Properties *)

\* Told to stop, the orchestrator comes to an end, even if a job was running.
StopEndsIt == stop ~> pc = "stopped"

\* A run-now is answered by a pass, also when it arrives while a job is running
\* or together with a tick; only the end of the process cancels it.  It holds on a
\* hot device too, where the docstring of route_run_now has it held back: see
\* RunNowKeepsTheGates.
RunNowIsServed == wake ~> (forced \/ stop)

-----------------------------------------------------------------------------
(* Claims of the repository that the code does not keep *)

\* telegram_bot.py: the worker reads distillation_enabled once per cycle, so that
\* clearing it takes effect at the next poll.  Violated: a paused orchestrator
\* goes on starting the jobs of its rotation.
PauseHolds ==
    [][paused /\ pc = "asleep" /\ pc' = "running" => forced']_curatorVars

\* route_run_now: it "doesn't bypass temperature/load gates - those still apply", and
\* the response says that "if held, the worker will hold".  Violated: the orchestrator
\* answers the wake before it looks at the thermometer.
RunNowKeepsTheGates ==
    [][pc = "asleep" /\ pc' = "running" /\ forced' => ~hot]_curatorVars
=============================================================================
