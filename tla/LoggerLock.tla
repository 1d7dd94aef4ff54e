------------------------------ MODULE LoggerLock ------------------------------
(***************************************************************************)
(* include/ios/logger.hpp and the Lock of include/resources/threads.hpp:   *)
(* the threads of one rank write lines on the log file. A line is an       *)
(* object: it may take the lock when it is made, writes piece by piece     *)
(* while it lives, and may give the lock back when it is destroyed. What   *)
(* it does depends on two global variables, read again each time.          *)
(*                                                                         *)
(* A parallel region starts with no line open, a thread has one line at a  *)
(* time (a second one in a locked region would wait for the first), and    *)
(* onlyMasterThreadPrint is changed, for a scope, outside the regions.     *)
(***************************************************************************)
EXTENDS Naturals, Sequences, FiniteSets

CONSTANTS
  Threads,      \* thread ids of a team
  Master,       \* threads::isMaster()
  NoThread,
  RankPrints,   \* Mpi::isMaster or not Logger::onlyMasterRankPrint
  Levels,       \* verbosity of the lines
  verbosityLv,
  MaxLines,     \* bound: lines of a thread in a region, or between regions
  MaxScopes,    \* bound: nested scopes
  MaxRegions    \* bound: parallel regions

ASSUME MasterAssumption == Master \in Threads /\ NoThread \notin Threads
ASSUME LevelsAssumption == RankPrints \in BOOLEAN /\ Levels \subseteq Nat /\ verbosityLv \in Nat

VARIABLES
  inParallel,             \* threads::isInsideParallelSection()
  arrived,                \* threads at the barrier that ends the region
  onlyMasterThreadPrint,
  saved,                  \* what the scopes will change it back to
  lock,                   \* the thread that holds Logger::lock
  line,                   \* per thread: its line
  used,                   \* per thread: lines made so far
  unfinished,             \* who wrote on the row of logFile not ended yet
  regions,                \* regions so far
  ended                   \* exit(1)

vars == <<inParallel, arrived, onlyMasterThreadPrint, saved, lock, line, used,
          unfinished, regions, ended>>

\* begun: the constructor waits for the lock; open: it returned.
NoLine == [begun |-> FALSE, open |-> FALSE, actuallyPrint |-> FALSE,
           hasToCrash |-> FALSE, wrote |-> FALSE]

LineType == [begun : BOOLEAN, open : BOOLEAN, actuallyPrint : BOOLEAN,
             hasToCrash : BOOLEAN, wrote : BOOLEAN]

Idle(t) == ~line[t].begun /\ ~line[t].open

Init ==
  /\ inParallel = FALSE
  /\ arrived = {}
  /\ onlyMasterThreadPrint = TRUE
  /\ saved = << >>
  /\ lock = NoThread
  /\ line = [t \in Threads |-> NoLine]
  /\ used = [t \in Threads |-> 0]
  /\ unfinished = {}
  /\ regions = 0
  /\ ended = FALSE

\* The master runs alone outside of the regions.
Running(t) == ~ended /\ (t = Master \/ inParallel) /\ t \notin arrived

AllThreadsPrint == inParallel /\ ~onlyMasterThreadPrint

------------------------------------------------------------------------------

\* A slip: the lock is not waited for.
LockFreeAlways == TRUE

\* omp_set_lock goes on.
LockFree == lock = NoThread

ActuallyPrint(t, level) ==
  RankPrints /\ (t = Master \/ ~onlyMasterThreadPrint) /\ level <= verbosityLv

\* logger(level): whether the line prints is decided before it waits for the lock.
BeginLine(t, level) ==
  /\ Running(t) /\ Idle(t) /\ used[t] < MaxLines
  /\ line' = [line EXCEPT ![t] = [NoLine EXCEPT !.begun = TRUE,
                                                !.actuallyPrint = ActuallyPrint(t, level)]]
  /\ used' = [used EXCEPT ![t] = @ + 1]
  /\ UNCHANGED <<inParallel, arrived, onlyMasterThreadPrint, saved, lock, unfinished,
                 regions, ended>>

\* The constructor returns: it has the lock and wrote the margin of the row.
OpenLine(t) ==
  /\ Running(t) /\ line[t].begun
  /\ AllThreadsPrint => LockFree
  /\ lock' = IF AllThreadsPrint THEN t ELSE lock
  /\ line' = [line EXCEPT ![t].begun = FALSE, ![t].open = TRUE]
  /\ unfinished' = IF line[t].actuallyPrint THEN unfinished \cup {t} ELSE unfinished
  /\ UNCHANGED <<inParallel, arrived, onlyMasterThreadPrint, saved, used, regions, ended>>

\* operator<<, of something to print or, for CRASH, of a Crasher.
Write(t, crasher) ==
  /\ Running(t) /\ line[t].open /\ ~line[t].wrote
  /\ line' = [line EXCEPT ![t].wrote = TRUE, ![t].hasToCrash = crasher]
  /\ unfinished' = IF line[t].actuallyPrint THEN unfinished \cup {t} ELSE unfinished
  /\ UNCHANGED <<inParallel, arrived, onlyMasterThreadPrint, saved, lock, used,
                 regions, ended>>

\* A slip: the lock is kept.
CloseLineKeepingTheLock(t) ==
  /\ Running(t) /\ line[t].open
  /\ line' = [line EXCEPT ![t] = NoLine]
  /\ unfinished' = IF line[t].actuallyPrint THEN {} ELSE unfinished
  /\ ended' = (line[t].actuallyPrint /\ line[t].hasToCrash)
  /\ UNCHANGED <<inParallel, arrived, onlyMasterThreadPrint, saved, lock, used, regions>>

\* The destructor. A line that does not print returns at once.
CloseLine(t) ==
  /\ Running(t) /\ line[t].open
  /\ line' = [line EXCEPT ![t] = NoLine]
  /\ IF line[t].actuallyPrint
     THEN /\ unfinished' = {}
          /\ lock' = IF AllThreadsPrint THEN NoThread ELSE lock
          /\ ended' = line[t].hasToCrash
     ELSE UNCHANGED <<unfinished, lock, ended>>
  /\ UNCHANGED <<inParallel, arrived, onlyMasterThreadPrint, saved, used, regions>>

------------------------------------------------------------------------------

\* SET_FOR_CURRENT_SCOPE(Logger::onlyMasterThreadPrint, value)
EnterScope(value) ==
  /\ Running(Master) /\ ~inParallel /\ Idle(Master) /\ Len(saved) < MaxScopes
  /\ saved' = Append(saved, onlyMasterThreadPrint)
  /\ onlyMasterThreadPrint' = value
  /\ UNCHANGED <<inParallel, arrived, lock, line, used, unfinished, regions, ended>>

LeaveScope ==
  /\ Running(Master) /\ ~inParallel /\ Idle(Master) /\ saved # << >>
  /\ onlyMasterThreadPrint' = saved[Len(saved)]
  /\ saved' = SubSeq(saved, 1, Len(saved) - 1)
  /\ UNCHANGED <<inParallel, arrived, lock, line, used, unfinished, regions, ended>>

\* A parallel loop starts.
Fork ==
  /\ Running(Master) /\ ~inParallel /\ Idle(Master) /\ regions < MaxRegions
  /\ inParallel' = TRUE
  /\ regions' = regions + 1
  /\ used' = [t \in Threads |-> 0]
  /\ UNCHANGED <<arrived, onlyMasterThreadPrint, saved, lock, line, unfinished, ended>>

Arrive(t) ==
  /\ Running(t) /\ inParallel /\ Idle(t)
  /\ arrived' = arrived \cup {t}
  /\ UNCHANGED <<inParallel, onlyMasterThreadPrint, saved, lock, line, used,
                 unfinished, regions, ended>>

\* A slip: the master does not wait for the others.
JoinAtOnce ==
  /\ ~ended /\ inParallel /\ Master \in arrived
  /\ inParallel' = FALSE
  /\ arrived' = {}
  /\ used' = [t \in Threads |-> 0]
  /\ UNCHANGED <<onlyMasterThreadPrint, saved, lock, line, unfinished, regions, ended>>

\* The implicit barrier.
Join ==
  /\ ~ended /\ inParallel /\ arrived = Threads
  /\ inParallel' = FALSE
  /\ arrived' = {}
  /\ used' = [t \in Threads |-> 0]
  /\ UNCHANGED <<onlyMasterThreadPrint, saved, lock, line, unfinished, regions, ended>>

ThreadStep(t) == \/ \E level \in Levels : BeginLine(t, level)
                 \/ OpenLine(t)
                 \/ \E crasher \in BOOLEAN : Write(t, crasher)
                 \/ CloseLine(t)
                 \/ Arrive(t)

Next == \/ \E t \in Threads : ThreadStep(t)
        \/ \E value \in BOOLEAN : EnterScope(value)
        \/ LeaveScope
        \/ Fork
        \/ Join

Spec == Init /\ [][Next]_vars

\* A thread of a region goes on as long as it can, and the barrier ends.
FairSpec == Spec /\ \A t \in Threads : WF_vars(ThreadStep(t) /\ inParallel)
                 /\ WF_vars(Join)

------------------------------------------------------------------------------

\* Lines outlive no region, and only those of the master exist between them.
LoggerTypeOK ==
  /\ inParallel \in BOOLEAN /\ ended \in BOOLEAN /\ onlyMasterThreadPrint \in BOOLEAN
  /\ arrived \subseteq Threads /\ unfinished \subseteq Threads
  /\ saved \in Seq(BOOLEAN)
  /\ lock \in Threads \cup {NoThread}
  /\ line \in [Threads -> LineType]
  /\ used \in [Threads -> Nat] /\ regions \in Nat
  /\ \A t \in arrived : Idle(t)
  /\ ~inParallel => arrived = {} /\ \A t \in Threads : ~Idle(t) => t = Master

\* Who holds the lock has a line that will give it back, and a line that will
\* give the lock back has it: no release of a lock of others (which OpenMP leaves
\* undefined), no lock without a line behind it.
LockMatchesLine ==
  \A t \in Threads :
    lock = t <=> AllThreadsPrint /\ line[t].open /\ line[t].actuallyPrint

\* "only one thread at the time can print": a row of the log is of one thread.
LinesWhole == \A s, t \in unfinished : s = t

\* A thread that holds the lock has a line open.
LockHasLine == \A t \in Threads : lock = t => line[t].open

\* A region ends, or the program does: no thread waits for the lock for ever.
AllJoin == inParallel ~> (~inParallel \/ ended)

==============================================================================
