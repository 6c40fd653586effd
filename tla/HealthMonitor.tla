---------------------------- MODULE HealthMonitor ----------------------------
(***************************************************************************)
(* notify/health.py: the poll that watches heat, load, swap and backlog,   *)
(* tells the operator when one of them breaches and when it recovers,      *)
(* keeps quiet outside the active window, and reports at intervals.        *)
(*                                                                         *)
(* Time passes in polls.  Sends may fail, the window may open or close     *)
(* between any two steps, and a restart forgets everything in memory.      *)
(***************************************************************************)
EXTENDS Integers, Sequences, FiniteSets

CONSTANTS
    Kinds,       \* what is watched, in the order of the evaluators
    Consecutive, \* health_alert_consecutive
    Cooldown,    \* health_alert_cooldown_min, in polls
    Interval,    \* health_periodic_report_interval_min, in polls
    MaxQueue     \* bound: the window opens before more notices than this wait

ASSUME HealthAssumption ==
    /\ Kinds \in Seq(STRING)
    /\ {Consecutive, Cooldown, Interval, MaxQueue} \subseteq Nat

VARIABLES
    breached, \* the readings that are at or above their threshold
    open,     \* the active window is open
    tracker,  \* per kind: alerted, consecutive_breaches, polls since last_fired_at
    queue,    \* _pending_queue
    monitor,  \* the monitor task: where it is, the notices fired, the messages to send
    beat,     \* polls since _heartbeat.last_sent_at
    told,     \* what the operator last read about each kind
    excused,  \* kinds of which a notice was lost, forgotten or folded into another
    silence   \* polls since the operator last got a report

healthVars == <<breached, open, tracker, queue, monitor, beat, told, excused, silence>>

Watched == {Kinds[i] : i \in DOMAIN Kinds}
Notices == [kind : Watched, says : {"trouble", "fine"}]

AtMost(n, max) == IF n < max THEN n ELSE max
Calm == [alerted |-> FALSE, streak |-> 0, age |-> Cooldown]
Asleep == [at |-> "asleep", fired |-> <<>>, outbox |-> <<>>]

HealthTypeOK ==
    /\ breached \subseteq Watched
    /\ open \in BOOLEAN
    /\ tracker \in [Watched -> [alerted : BOOLEAN, streak : 0..Consecutive, age : 0..Cooldown]]
    /\ queue \in Seq(Notices)
    /\ monitor \in [at : {"asleep", "evaluated", "sending"},
                    fired : Seq(Notices), outbox : Seq(Seq(Notices))]
    /\ beat \in 0..Interval
    /\ told \in [Watched -> {"trouble", "fine"}]
    /\ excused \subseteq Watched
    /\ silence \in 0..Interval

\* Mutant of FirstBeat: without prime_heartbeat_baseline the first poll reports.
BeatAtOnce == Interval

\* prime_heartbeat_baseline: the cadence starts with the task.
FirstBeat == 0

HealthInit ==
    /\ breached = {}
    /\ open \in BOOLEAN
    /\ tracker = [k \in Watched |-> Calm]
    /\ queue = <<>>
    /\ monitor = Asleep
    /\ beat = FirstBeat
    /\ told = [k \in Watched |-> "fine"]
    /\ excused = {}
    /\ silence = Interval

----------------------------------------------------------------------------
(* Trackers *)

Fires(t) == ~t.alerted /\ t.streak + 1 >= Consecutive /\ t.age >= Cooldown

(* _eval_breach: the tracker after a reading, and what it says. *)
Breach(t) ==
    [alerted |-> t.alerted \/ Fires(t),
     streak |-> AtMost(t.streak + 1, Consecutive),
     age |-> IF Fires(t) THEN 0 ELSE t.age]

Recover(t) == [alerted |-> FALSE, streak |-> 0, age |-> t.age]

Evaluated(k) == IF k \in breached THEN Breach(tracker[k]) ELSE Recover(tracker[k])

Speaks(k) == IF k \in breached THEN Fires(tracker[k]) ELSE tracker[k].alerted

Said(k) == [kind |-> k, says |-> IF k \in breached THEN "trouble" ELSE "fine"]

\* The numbers of a finite set, the smaller first.
Ascending(S) == [n \in 1..Cardinality(S) |-> CHOOSE i \in S : Cardinality({j \in S : j <= i}) = n]

(* What the evaluators of the readable kinds say, in their order. *)
SaidInTurn(readable) ==
    LET order == Ascending({i \in DOMAIN Kinds : Kinds[i] \in readable /\ Speaks(Kinds[i])})
    IN  [n \in DOMAIN order |-> Said(Kinds[order[n]])]

----------------------------------------------------------------------------
(* Messages *)

(* _format_consolidated: a line for each kind of notice, in the order in   *)
(* which the kinds of notice first came, that shows the latest of them;    *)
(* two notices of one sort about a kind read the same here.                *)
Consolidated(notices) ==
    LET firsts == {i \in DOMAIN notices : \A j \in 1..(i - 1) : notices[j] # notices[i]}
        order == Ascending(firsts)
    IN  [n \in DOMAIN order |-> notices[order[n]]]

About(k, notices) == {i \in DOMAIN notices : notices[i].kind = k}

Mentioned(notices) == {notices[i].kind : i \in DOMAIN notices}

\* The last that notices say about a kind they mention.
LastWord(k, notices) ==
    notices[CHOOSE i \in About(k, notices) : \A j \in About(k, notices) : j <= i].says

\* The kinds whose last notice is not the last line about them.
Folded(notices) ==
    {k \in Mentioned(notices) : LastWord(k, notices) # LastWord(k, Consolidated(notices))}

Lines(notices) == [i \in DOMAIN notices |-> <<notices[i]>>]

----------------------------------------------------------------------------
(* The poll *)

Evaluate ==
    /\ monitor.at = "asleep"
    /\ \E readable \in SUBSET Watched :
           /\ tracker' = [k \in Watched |-> IF k \in readable THEN Evaluated(k) ELSE tracker[k]]
           /\ monitor' = [monitor EXCEPT !.at = "evaluated",
                                         !.fired = SaidInTurn(readable)]
    /\ UNCHANGED <<breached, open, queue, beat, told, excused, silence>>

\* Mutant of Outbox: what waited overnight is sent after what was just found.
OutboxFlushedLast(waiting, fired) ==
    Lines(fired) \o (IF waiting = <<>> THEN <<>> ELSE <<Consolidated(waiting)>>)

Outbox(waiting, fired) ==
    (IF waiting = <<>> THEN <<>> ELSE <<Consolidated(waiting)>>) \o Lines(fired)

(* The window is looked at once for the flush and for every alert. *)
LookAtWindow ==
    /\ monitor.at = "evaluated"
    /\ \/ /\ open
          /\ queue' = <<>>
          /\ monitor' = [at |-> "sending", fired |-> <<>>, outbox |-> Outbox(queue, monitor.fired)]
          /\ excused' = excused \cup Folded(queue)
       \/ /\ ~open
          /\ Len(queue) + Len(monitor.fired) <= MaxQueue
          /\ queue' = queue \o monitor.fired
          /\ monitor' = [Asleep EXCEPT !.at = "sending"]
          /\ UNCHANGED excused
    /\ UNCHANGED <<breached, open, tracker, beat, told, silence>>

(* send_admin_notification; a failure is logged and the notice is gone. *)
Send ==
    /\ monitor.at = "sending"
    /\ monitor.outbox # <<>>
    /\ LET message == Head(monitor.outbox)
       IN  \/ /\ told' = [k \in Watched |-> IF k \in Mentioned(message) THEN LastWord(k, message)
                                                                       ELSE told[k]]
              /\ excused' = IF Len(message) = 1 THEN excused \ Mentioned(message) ELSE excused
           \/ /\ excused' = excused \cup Mentioned(message)
              /\ UNCHANGED told
    /\ monitor' = [monitor EXCEPT !.outbox = Tail(@)]
    /\ UNCHANGED <<breached, open, tracker, queue, beat, silence>>

(* _maybe_send_heartbeat looks at the window and at its own cadence; only  *)
(* a report that was sent starts the next interval.  Then the task sleeps. *)
ReportAndSleep ==
    /\ monitor.at = "sending"
    /\ monitor.outbox = <<>>
    /\ \/ /\ open /\ beat >= Interval
          /\ beat' = 0
          /\ silence' = 0
       \/ /\ UNCHANGED <<beat, silence>>
    /\ monitor' = Asleep
    /\ UNCHANGED <<breached, open, tracker, queue, told, excused>>

(* health_check_interval_sec passes while the task sleeps. *)
PollIntervalPasses ==
    /\ monitor.at = "asleep"
    /\ tracker' = [k \in Watched |-> [tracker[k] EXCEPT !.age = AtMost(@ + 1, Cooldown)]]
    /\ beat' = AtMost(beat + 1, Interval)
    /\ silence' = AtMost(silence + 1, Interval)
    /\ UNCHANGED <<breached, open, queue, monitor, told, excused>>

ReadingTurns ==
    /\ monitor.at = "asleep"
    /\ \E k \in Watched :
           breached' = IF k \in breached THEN breached \ {k} ELSE breached \cup {k}
    /\ UNCHANGED <<open, tracker, queue, monitor, beat, told, excused, silence>>

WindowTurns ==
    /\ open' = ~open
    /\ UNCHANGED <<breached, tracker, queue, monitor, beat, told, excused, silence>>

(* A new process: trackers, queue and cadence are module memory. *)
RestartMonitor ==
    /\ tracker' = [k \in Watched |-> Calm]
    /\ queue' = <<>>
    /\ monitor' = Asleep
    /\ beat' = FirstBeat
    /\ excused' = Watched
    /\ UNCHANGED <<breached, open, told, silence>>

HealthNext ==
    \/ Evaluate \/ LookAtWindow \/ Send \/ ReportAndSleep
    \/ PollIntervalPasses \/ ReadingTurns \/ WindowTurns \/ RestartMonitor

HealthSpec == HealthInit /\ [][HealthNext]_healthVars

----------------------------------------------------------------------------
(* Properties *)

(* The last the operator reads about a kind, counting what waits for the   *)
(* window, is what the monitor holds true: quiet hours delay the news but  *)
(* never put it out of order, unless a send failed, a restart forgot it or *)
(* the summary folded it (run_health_monitor, _eval_breach).               *)
LastNoticeIsTrue ==
    monitor.at = "asleep" =>
        \A k \in Watched \ excused :
            LET news == IF k \in Mentioned(queue) THEN LastWord(k, queue) ELSE told[k]
            IN  news = (IF tracker[k].alerted THEN "trouble" ELSE "fine")

(* Two reports that were sent are an interval apart, however often the     *)
(* process restarts in between (prime_heartbeat_baseline).                 *)
ReportsKeepTheirDistance == [][silence' = 0 /\ silence # 0 => silence >= Interval]_healthVars
=============================================================================
