-------------------------------- MODULE Timer --------------------------------
(***************************************************************************)
(* The stopwatches of `resources/timer.hpp`: a tree of them in each        *)
(* process, whose root, `timings`, starts with the process and is not to   *)
(* be stopped. A stopwatch is named by its path from the root, and made    *)
(* when it is first named. The clock is common; the epoch is 0.            *)
(*                                                                         *)
(* The checks of start and stop end in MINIMAL_CRASH, that only stops a    *)
(* process allowed to print: elsewhere the line after the check runs. The  *)
(* actions are those of a process that has passed the check or ignored it. *)
(***************************************************************************)
EXTENDS Integers, Sequences, PartialMaps

CONSTANTS
    Ranks,     \* the processes
    MaxTime    \* bound of the clock

VARIABLES
    now,       \* the clock
    timers,    \* per process: path -> stopwatch
    ranFor     \* per process: path -> how long it has been running

timerVars == <<now, timers, ranFor>>

Timings == <<>>

\* A stopwatch just built. Its father is NO_FATHER whatever the argument.
Stopwatch(isStoppable) ==
    [isStoppable |-> isStoppable, isStarted |-> FALSE, nMeasures |-> 0,
     lastMomentStarted |-> 0, lastMomentStopped |-> 0, cumulativeMeasure |-> 0,
     nStartedChildren |-> 0]

InnerStart(t) ==
    [t EXCEPT !.isStarted = TRUE, !.nMeasures = @ + 1, !.lastMomentStarted = now]

\* One that cannot be stopped starts itself.
NewTimer(isStoppable) ==
    IF isStoppable THEN Stopwatch(TRUE) ELSE InnerStart(Stopwatch(FALSE))

CurrentMeasure(t) ==
    (IF t.isStarted THEN now ELSE t.lastMomentStopped) - t.lastMomentStarted

CumulativeMeasure(t) ==
    t.cumulativeMeasure + (IF t.isStarted THEN CurrentMeasure(t) ELSE 0)

StoppedKeepingMoment(t) ==
    LET s == [t EXCEPT !.isStarted = FALSE]
    IN [s EXCEPT !.cumulativeMeasure = @ + CurrentMeasure(s)]

Stopped(t) ==
    LET s == [t EXCEPT !.lastMomentStopped = now, !.isStarted = FALSE]
    IN [s EXCEPT !.cumulativeMeasure = @ + CurrentMeasure(s)]

HasRunningChildren(t) == t.nStartedChildren # 0

\* "Trying to start the already started stopwatch"
StartRefused(t) == t.isStarted

\* "Trying to stop the stopped stopwatch", "the unstoppable stopwatch",
\* "stopwatch with running children"
StopRefused(t) == ~t.isStarted \/ ~t.isStoppable \/ HasRunningChildren(t)

TimerInit ==
    /\ now = 0
    /\ timers = [r \in Ranks |-> Put(EmptyMap, Timings, NewTimer(FALSE))]
    /\ ranFor = [r \in Ranks |-> Put(EmptyMap, Timings, 0)]

\* operator[]: what is not found is inserted.
Find(r, path) == IF path \in DOMAIN timers[r] THEN timers[r][path] ELSE NewTimer(TRUE)

Becomes(r, path, t) ==
    /\ timers' = [timers EXCEPT ![r] = Put(@, path, t)]
    /\ ranFor' = [ranFor EXCEPT ![r] =
                     IF path \in DOMAIN @ THEN @ ELSE Put(@, path, 0)]
    /\ UNCHANGED now

Start(r, path) == Becomes(r, path, InnerStart(Find(r, path)))

Stop(r, path) == Becomes(r, path, Stopped(Find(r, path)))

Tick ==
    /\ now < MaxTime
    /\ now' = now + 1
    /\ ranFor' = [r \in Ranks |->
                    [p \in DOMAIN ranFor[r] |->
                        ranFor[r][p] + (IF timers[r][p].isStarted THEN 1 ELSE 0)]]
    /\ UNCHANGED timers

MeasuredRight(r) ==
    \A p \in DOMAIN timers[r] : CumulativeMeasure(timers[r][p]) = ranFor[r][p]

==============================================================================
