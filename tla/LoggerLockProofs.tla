--------------------------- MODULE LoggerLockProofs ---------------------------
(***************************************************************************)
(* Whatever the threads, their lines and their levels, a row of the log is *)
(* of one thread; and if every line prints, the lock is never held by a    *)
(* thread that will not give it back.                                      *)
(***************************************************************************)
EXTENDS LoggerLock, TLAPS

\* A line that prints is of the holder of the lock, where there is one, and of
\* the master elsewhere; a row is written by such lines only.
PrintingLine(t) == line[t].open /\ line[t].actuallyPrint

RowsFromLines == \A t \in unfinished : PrintingLine(t)

PrintersAllowed ==
  \A t \in Threads : PrintingLine(t) => IF AllThreadsPrint THEN lock = t ELSE t = Master

\* A line that will print was allowed to when it was asked for, and the flag does
\* not change while the constructor waits.
PrintingAllowed ==
  \A t \in Threads :
    line[t].begun /\ line[t].actuallyPrint => t = Master \/ ~onlyMasterThreadPrint

IInv == LoggerTypeOK /\ RowsFromLines /\ PrintersAllowed /\ PrintingAllowed

\* What the proofs ask of the lines: none is above the verbosity and the rank prints.
EveryLinePrints == RankPrints /\ \A level \in Levels : level <= verbosityLv

\* The variables have their types, and no line outlives a region.
LEMMA InitTyped == Init => IInv
<1> SUFFICES ASSUME Init PROVE IInv
  OBVIOUS
<1> USE DEF Init
<1>1. NoLine \in LineType /\ ~NoLine.open /\ ~NoLine.begun
  BY DEF NoLine, LineType
<1>2. \A t \in Threads : line[t] = NoLine
  OBVIOUS
<1>3. saved \in Seq(BOOLEAN)
  OBVIOUS
<1>4. LoggerTypeOK
  BY <1>1, <1>2, <1>3, MasterAssumption DEF LoggerTypeOK, Idle
<1>5. RowsFromLines /\ PrintersAllowed /\ PrintingAllowed
  BY <1>1, <1>2 DEF RowsFromLines, PrintersAllowed, PrintingAllowed, PrintingLine
<1> QED BY <1>4, <1>5 DEF IInv

\* A line is asked for: nobody writes more, and it prints if its thread may.
LEMMA BeginLineStep ==
  ASSUME IInv, NEW t \in Threads, NEW level \in Levels, BeginLine(t, level)
  PROVE  IInv'
<1> USE DEF IInv, LoggerTypeOK, LineType, NoLine, BeginLine, Running, PrintingLine,
            AllThreadsPrint, Idle
<1>1. PICK b \in BOOLEAN : b = ActuallyPrint(t, level)
  BY LevelsAssumption DEF ActuallyPrint
<1>2. /\ line'[t] = [begun |-> TRUE, open |-> FALSE, actuallyPrint |-> b,
                     hasToCrash |-> FALSE, wrote |-> FALSE]
      /\ line' \in [Threads -> LineType]
  BY <1>1
<1>3. \A s \in Threads : s # t => line'[s] = line[s]
  OBVIOUS
<1>4. LoggerTypeOK'
  BY <1>2, <1>3, MasterAssumption
<1>5. RowsFromLines'
  BY <1>2, <1>3 DEF RowsFromLines
<1>6. PrintersAllowed'
  BY <1>2, <1>3 DEF PrintersAllowed
<1>7. PrintingAllowed'
  <2>1. b => (t = Master \/ ~onlyMasterThreadPrint)
    BY <1>1 DEF ActuallyPrint
  <2> QED BY <2>1, <1>2, <1>3 DEF PrintingAllowed
<1> QED BY <1>4, <1>5, <1>6, <1>7

\* A line that opens prints where it may: it took the lock, or it is the master's.
LEMMA OpenLineStep ==
  ASSUME IInv, NEW t \in Threads, OpenLine(t)
  PROVE  IInv'
<1> USE DEF IInv, LoggerTypeOK, LineType, OpenLine, Running, PrintingLine, AllThreadsPrint, Idle
<1>1. /\ line'[t].open /\ ~line'[t].begun
      /\ line'[t].actuallyPrint = line[t].actuallyPrint
      /\ line' \in [Threads -> LineType]
  OBVIOUS
<1>2. \A s \in Threads : s # t => line'[s] = line[s]
  OBVIOUS
<1>3. LoggerTypeOK'
  BY <1>1, <1>2, MasterAssumption
<1>4. RowsFromLines'
  BY <1>1, <1>2 DEF RowsFromLines
<1>5. PrintersAllowed'
  <2>1. line[t].actuallyPrint => (t = Master \/ ~onlyMasterThreadPrint)
    BY DEF PrintingAllowed
  <2>2. \A s \in Threads : s # t => (PrintingLine(s)' <=> PrintingLine(s))
    BY <1>2
  <2> QED BY <1>1, <2>1, <2>2, MasterAssumption DEF PrintersAllowed, LockFree
<1>6. PrintingAllowed'
  BY <1>1, <1>2 DEF PrintingAllowed
<1> QED BY <1>3, <1>4, <1>5, <1>6

\* Writing changes neither who prints nor what a line is.
LEMMA WriteStep ==
  ASSUME IInv, NEW t \in Threads, NEW crasher \in BOOLEAN, Write(t, crasher)
  PROVE  IInv'
<1> USE DEF IInv, LoggerTypeOK, LineType, Write, Running, PrintingLine, AllThreadsPrint, Idle
<1>1. /\ line'[t].open = line[t].open /\ line'[t].begun = line[t].begun
      /\ line'[t].actuallyPrint = line[t].actuallyPrint
      /\ line' \in [Threads -> LineType]
  OBVIOUS
<1>2. \A s \in Threads : s # t => line'[s] = line[s]
  OBVIOUS
<1>3. LoggerTypeOK'
  BY <1>1, <1>2
<1>4. RowsFromLines'
  BY <1>1, <1>2 DEF RowsFromLines
<1>5. PrintersAllowed'
  BY <1>1, <1>2 DEF PrintersAllowed
<1>6. PrintingAllowed'
  BY <1>1, <1>2 DEF PrintingAllowed
<1> QED BY <1>3, <1>4, <1>5, <1>6

\* The row ends with the line that printed it; no other line was printing.
LEMMA CloseLineStep ==
  ASSUME IInv, NEW t \in Threads, CloseLine(t)
  PROVE  IInv'
<1> USE DEF IInv, LoggerTypeOK, LineType, NoLine, CloseLine, Running, PrintingLine,
            AllThreadsPrint, Idle
<1>1. line'[t] = NoLine /\ line' \in [Threads -> LineType]
  OBVIOUS
<1>2. \A s \in Threads : s # t => line'[s] = line[s]
  OBVIOUS
<1>3. LoggerTypeOK'
  BY <1>1, <1>2
<1>4. RowsFromLines'
  BY <1>1, <1>2 DEF RowsFromLines
<1>5. PrintersAllowed'
  BY <1>1, <1>2 DEF PrintersAllowed
<1>6. PrintingAllowed'
  BY <1>1, <1>2 DEF PrintingAllowed
<1> QED BY <1>3, <1>4, <1>5, <1>6

\* The flag and the regions change when no line is begun or open.
LEMMA OtherStep ==
  ASSUME IInv,
         \/ \E value \in BOOLEAN : EnterScope(value)
         \/ LeaveScope \/ Fork \/ Join \/ UNCHANGED vars
         \/ \E t \in Threads : Arrive(t)
  PROVE  IInv'
<1> USE MasterAssumption
    DEF IInv, LoggerTypeOK, RowsFromLines, PrintersAllowed, PrintingAllowed, PrintingLine,
        AllThreadsPrint, Running, Idle
<1>1. CASE \E value \in BOOLEAN : EnterScope(value)
  BY <1>1 DEF EnterScope
<1>2. CASE LeaveScope
  BY <1>2 DEF LeaveScope
<1>3. CASE Fork
  BY <1>3 DEF Fork
<1>4. CASE Join
  BY <1>4 DEF Join
<1>5. CASE UNCHANGED vars
  BY <1>5 DEF vars
<1>6. CASE \E t \in Threads : Arrive(t)
  BY <1>6 DEF Arrive
<1> QED BY <1>1, <1>2, <1>3, <1>4, <1>5, <1>6

\* The invariant is inductive, muted lines included.
THEOREM Inductive == Spec => []IInv
<1>1. IInv /\ [Next]_vars => IInv'
  BY BeginLineStep, OpenLineStep, WriteStep, CloseLineStep, OtherStep DEF Next, ThreadStep
<1> QED BY InitTyped, <1>1, PTL DEF Spec

\* Types hold, and no line outlives its region.
THEOREM Typing == Spec => []LoggerTypeOK
<1>1. IInv => LoggerTypeOK
  BY DEF IInv
<1> QED BY <1>1, Inductive, PTL

\* "only one thread at the time can print": two threads that wrote on a row would
\* both hold the lock, or both be the master.
THEOREM OneThreadAtATime == Spec => []LinesWhole
<1>1. IInv => LinesWhole
  BY DEF IInv, LoggerTypeOK, RowsFromLines, PrintersAllowed, LinesWhole
<1> QED BY <1>1, Inductive, PTL

\* The lock is of the line that will give it back, where every line prints (a
\* muted one keeps it for ever).
THEOREM LockGivenBack == EveryLinePrints /\ Spec => []LockMatchesLine
<1> SUFFICES ASSUME EveryLinePrints PROVE Spec => []LockMatchesLine
  BY DEF EveryLinePrints
<1> DEFINE BegunPrint == \A t \in Threads : line[t].begun /\ AllThreadsPrint => line[t].actuallyPrint
<1> DEFINE Matches == LockMatchesLine /\ BegunPrint
<1>1. Init => Matches
  BY MasterAssumption DEF Init, LockMatchesLine, NoLine
<1>2. ASSUME IInv, Matches, [Next]_vars PROVE Matches'
  <2> USE <1>2, MasterAssumption
      DEF IInv, LoggerTypeOK, LineType, NoLine, LockMatchesLine, AllThreadsPrint, Running, Idle
  <2>1. ASSUME NEW t \in Threads, NEW level \in Levels, BeginLine(t, level)
        PROVE  Matches'
    <3>1. AllThreadsPrint => ActuallyPrint(t, level)
      BY DEF ActuallyPrint, EveryLinePrints
    <3>2. \A s \in Threads : s # t => line'[s] = line[s]
      BY <2>1 DEF BeginLine
    <3>3. ~line'[t].open /\ ~line[t].open /\ (AllThreadsPrint => line'[t].actuallyPrint)
      BY <2>1, <3>1 DEF BeginLine
    <3> QED BY <2>1, <3>2, <3>3 DEF BeginLine
  <2>2. ASSUME NEW t \in Threads, OpenLine(t)
        PROVE  Matches'
    <3>1. \A s \in Threads : s # t => line'[s] = line[s]
      BY <2>2 DEF OpenLine
    <3>2. line'[t].open /\ ~line'[t].begun /\ (AllThreadsPrint => line'[t].actuallyPrint)
      BY <2>2 DEF OpenLine
    <3> QED BY <2>2, <3>1, <3>2 DEF OpenLine, LockFree
  <2>3. ASSUME NEW t \in Threads, NEW crasher \in BOOLEAN, Write(t, crasher)
        PROVE  Matches'
    BY <2>3 DEF Write
  <2>4. ASSUME NEW t \in Threads, CloseLine(t)
        PROVE  Matches'
    BY <2>4 DEF CloseLine, PrintersAllowed, PrintingLine
  <2>5. ASSUME NEW t \in Threads, Arrive(t)
        PROVE  Matches'
    BY <2>5 DEF Arrive
  <2>6. ASSUME NEW value \in BOOLEAN, EnterScope(value)
        PROVE  Matches'
    BY <2>6 DEF EnterScope
  <2>7. CASE LeaveScope
    BY <2>7 DEF LeaveScope
  <2>8. CASE Fork
    BY <2>8 DEF Fork
  <2>9. CASE Join
    BY <2>9 DEF Join
  <2>10. CASE UNCHANGED vars
    BY <2>10 DEF vars
  <2> QED BY <2>1, <2>2, <2>3, <2>4, <2>5, <2>6, <2>7, <2>8, <2>9, <2>10 DEF Next, ThreadStep
<1>3. Matches => LockMatchesLine
  OBVIOUS
<1> QED BY <1>1, <1>2, <1>3, Inductive, PTL DEF Spec

==============================================================================
