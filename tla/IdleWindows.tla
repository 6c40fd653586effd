----------------------------- MODULE IdleWindows -----------------------------
(***************************************************************************)
(* The windows of the day in curator/scheduler.py, by which the monitor    *)
(* keeps quiet hours and the status page announces the next idle start.    *)
(* Times of the day are numbers below Day.  A behaviour asks about one     *)
(* window at one time.                                                     *)
(***************************************************************************)
EXTENDS Integers

CONSTANT Day \* times of a day

ASSUME IdleWindowsAssumption == Day \in Nat \ {0}

Times == 0..(Day - 1)

VARIABLE asked

Questions == [start : Times, end : Times, now : Times]

\* Mutant of InWindow: midnight is forgotten.
InWindowSameDay(start, end, now) == start <= now /\ now < end

(* IdleWindow.contains: past midnight when the end is before the start.    *)
(* The docstring of the class says "when end <= start"; the code takes a   *)
(* window that ends when it starts for an empty one, not for a whole day.  *)
InWindow(start, end, now) ==
    IF start <= end THEN start <= now /\ now < end ELSE now >= start \/ now < end

(* _next_idle_window: the next start, counted from today's midnight. *)
NextIdleWindow(start, now) == IF start <= now THEN start + Day ELSE start

WindowsInit == asked \in Questions
WindowsNext == UNCHANGED asked

WindowsSpec == WindowsInit /\ [][WindowsNext]_asked

----------------------------------------------------------------------------
(* Properties *)

(* From one time of the day to the next occurrence of another. *)
Until(from, to) == (to - from) % Day

(* A time is inside a window exactly when it comes sooner after the start  *)
(* than the end does, midnight or not (IdleWindow.contains); equal bounds, *)
(* on which code and docstring disagree, are left aside.  And the start    *)
(* that is announced is the first one still to come (_next_idle_window).   *)
WindowsMatchTheClock ==
    /\ asked.start # asked.end =>
           (InWindow(asked.start, asked.end, asked.now) <=>
                Until(asked.start, asked.now) < Until(asked.start, asked.end))
    /\ LET next == NextIdleWindow(asked.start, asked.now)
       IN  next % Day = asked.start /\ next - asked.now \in 1..Day
=============================================================================
