------------------------------ MODULE LifeCycle ------------------------------
(***************************************************************************)
(* A program of the library from runProgram to its end, on all its ranks   *)
(* (`resources/aliver`, `Mpi`, `environmentFlags`, `debug/attachDebugger`, *)
(* `signalTrap`, `minimalCrash`): the ranks are initialized, may wait for  *)
(* a debugger, run the body, the same on all of them, and finalize. The    *)
(* operations of the body are those of Mpi.hpp and of the stopwatches.     *)
(*                                                                         *)
(* MPI is external: the n-th collective call of a rank meets the n-th of   *)
(* the others, and returns if they are of the same kind. A rank that       *)
(* leaves with exit or a signal is noticed by the launcher, which ends all *)
(* others. A rank that does not print does not leave at a fault: its       *)
(* handler returns to it, for ever, and nobody notices.                    *)
(***************************************************************************)
EXTENDS Timer, FiniteSetsExt

CONSTANTS
    Paths,          \* stopwatches the body names, from the root
    Environments,   \* what WAIT_TO_ATTACH_DEBUGGER may be: functions of the rank
    MaxOps          \* bound: operations of the body

VARIABLES
    env,                    \* per rank: what it finds in the environment
    pc,                     \* per rank: where it is
    isMaster,
    waitToAttachDebugger,
    onlyMasterRankPrint,
    iRank,                  \* counter of the loop on ranks
    return,                 \* where the loop on ranks returns to
    flag,                   \* what the debugger sets on the master
    script,                 \* the operations of the body, as chosen so far
    nDone,                  \* per rank: how many of them it has done
    value,                  \* per rank: what the collectives work on
    calls,                  \* per rank: the collective calls it has made
    log                     \* beginnings and ends of turns, in order

lifeVars == <<env, pc, isMaster, waitToAttachDebugger, onlyMasterRankPrint, iRank, return,
              flag, script, nDone, value, calls, log>>
vars == <<lifeVars, timerVars>>

NRanks == Cardinality(Ranks)
MasterRank == 0

ASSUME RanksAssumption == IsFiniteSet(Ranks) /\ Ranks = 0 .. NRanks - 1 /\ Ranks # {}
ASSUME EnvironmentsAssumption ==
    Environments \subseteq [Ranks -> {"unset", "", "0", "1", "2", "true"}]

\* The objects the collectives work on, as the ranks set them.
FirstValues == [r \in Ranks |-> [x |-> r, y |-> -1]]

\* The flag is true until the environment is read.
Init ==
    /\ TimerInit
    /\ env \in Environments
    /\ pc = [r \in Ranks |-> "initialize"]
    /\ isMaster = [r \in Ranks |-> FALSE]
    /\ waitToAttachDebugger = [r \in Ranks |-> TRUE]
    /\ onlyMasterRankPrint = [r \in Ranks |-> TRUE]
    /\ iRank = [r \in Ranks |-> 0]
    /\ return = [r \in Ranks |-> "none"]
    /\ flag = FALSE
    /\ script = <<>>
    /\ nDone = [r \in Ranks |-> 0]
    /\ value = FirstValues
    /\ calls = [r \in Ranks |-> <<>>]
    /\ log = <<>>

Goes(r, there) == pc' = [pc EXCEPT ![r] = there]

Prints(r) == isMaster[r] \/ ~onlyMasterRankPrint[r]

Gone(r) == pc[r] \in {"done", "dead"}

------------------------------------------------------------------------------
(* Binarizer: a buffer and the place where it is read next                 *)

NewBinarizer == [buf |-> <<>>, readPos |-> 0]

PushBack(bin, data) == [bin EXCEPT !.buf = Append(@, data)]

ReadStandingStill(bin) == [out |-> bin.buf[bin.readPos + 1], bin |-> bin]

ReadAdvancing(bin) ==
    [out |-> bin.buf[bin.readPos + 1], bin |-> [bin EXCEPT !.readPos = @ + 1]]

\* A class of two members, as the program would make it binarizable.
Binarize(v) == PushBack(PushBack(NewBinarizer, v.x), v.y)

DeBinarize(bin) ==
    LET first == ReadAdvancing(bin)
        second == ReadAdvancing(first.bin)
    IN [x |-> first.out, y |-> second.out]

------------------------------------------------------------------------------
(* MPI                                                                     *)

Call(r, call) == calls' = [calls EXCEPT ![r] = Append(@, call)]

BarrierCall == [kind |-> "barrier"]

Latest(r) == Len(calls[r])
Meets(r, s) ==
    /\ Len(calls[s]) >= Latest(r)
    /\ calls[s][Latest(r)].kind = calls[r][Latest(r)].kind

\* MPI_Barrier and MPI_Allreduce wait for everybody, MPI_Bcast for the root.
Returns(r) ==
    LET call == calls[r][Latest(r)]
    IN IF call.kind = "broadcast" THEN Meets(r, call.root)
       ELSE \A s \in Ranks : Meets(r, s)

Buffer(s, r) == calls[s][Latest(r)].in

\* The buffer arrives as the root's; the copy of the rank is read from its head.
Broadcast(r) ==
    DeBinarize([Binarize(value[r]) EXCEPT !.buf = Buffer(calls[r][Latest(r)].root, r).buf])

Total(v) ==
    [x |-> SumFunction([s \in Ranks |-> v[s].x]), y |-> SumFunction([s \in Ranks |-> v[s].y])]

AllReduce(r) == Total([s \in Ranks |-> Buffer(s, r)])

------------------------------------------------------------------------------
(* Initialization                                                          *)

Initialize(r) ==
    /\ pc[r] = "initialize"
    /\ Goes(r, "readAll")
    /\ isMaster' = [isMaster EXCEPT ![r] = (r = MasterRank)]
    /\ UNCHANGED <<timerVars, env, waitToAttachDebugger, onlyMasterRankPrint,
                   iRank, return, flag, script, nDone, value, calls, log>>

\* is>>flag: a number is true unless it is 0, another word false, and where there is
\* nothing to read the flag stays as it is defined, true. The stream fails, unheeded, on
\* all but 0 and 1.
ReadFlag(found, default) ==
    IF found = "unset" THEN default ELSE found \in {"1", "2", ""}

ReadAll(r) ==
    /\ pc[r] = "readAll"
    /\ Goes(r, "attach")
    /\ waitToAttachDebugger' = [waitToAttachDebugger EXCEPT ![r] = ReadFlag(env[r], FALSE)]
    /\ UNCHANGED <<timerVars, env, isMaster, onlyMasterRankPrint, iRank,
                   return, flag, script, nDone, value, calls, log>>

\* possiblyWaitToAttachDebugger, up to the loop on ranks
Attach(r) ==
    /\ pc[r] = "attach"
    /\ IF waitToAttachDebugger[r]
       THEN /\ Goes(r, "loop")
            /\ return' = [return EXCEPT ![r] = "spin"]
            /\ onlyMasterRankPrint' = [onlyMasterRankPrint EXCEPT ![r] = FALSE]
       ELSE Goes(r, "services") /\ UNCHANGED <<return, onlyMasterRankPrint>>
    /\ UNCHANGED <<timerVars, env, isMaster, waitToAttachDebugger, iRank,
                   flag, script, nDone, value, calls, log>>

SpinBarrierOfMaster(r) ==
    /\ pc[r] = "spin"
    /\ IF r = MasterRank THEN flag /\ Goes(r, "attachBarrier") /\ Call(r, BarrierCall)
       ELSE Goes(r, "services") /\ UNCHANGED calls
    /\ UNCHANGED <<timerVars, env, isMaster, waitToAttachDebugger,
                   onlyMasterRankPrint, iRank, return, flag, script, nDone,
                   value, log>>

\* The master waits for the debugger: all others for the master, in a barrier.
Spin(r) ==
    /\ pc[r] = "spin"
    /\ r = MasterRank => flag
    /\ Goes(r, "attachBarrier")
    /\ Call(r, BarrierCall)
    /\ UNCHANGED <<timerVars, env, isMaster, waitToAttachDebugger,
                   onlyMasterRankPrint, iRank, return, flag, script, nDone,
                   value, log>>

Attached(r) ==
    /\ pc[r] = "attachBarrier"
    /\ Returns(r)
    /\ Goes(r, "services")
    /\ onlyMasterRankPrint' = [onlyMasterRankPrint EXCEPT ![r] = TRUE]
    /\ UNCHANGED <<timerVars, env, isMaster, waitToAttachDebugger, iRank,
                   return, flag, script, nDone, value, calls, log>>

\* memory::initialize and threads::initialize
Services(r) ==
    /\ pc[r] = "services"
    /\ Goes(r, "body")
    /\ UNCHANGED <<timerVars, env, isMaster, waitToAttachDebugger,
                   onlyMasterRankPrint, iRank, return, flag, script, nDone,
                   value, calls, log>>

\* memory::finalize, device::finalize, Mpi::finalize
Finalize(r) ==
    /\ pc[r] = "body"
    /\ nDone[r] = MaxOps
    /\ Goes(r, "done")
    /\ UNCHANGED <<timerVars, env, isMaster, waitToAttachDebugger,
                   onlyMasterRankPrint, iRank, return, flag, script, nDone,
                   value, calls, log>>

------------------------------------------------------------------------------
(* onAllRanksSequentiallyDo                                                *)

EnterLoopWithBarrierOutside(r) ==
    /\ pc[r] = "loop"
    /\ iRank[r] < NRanks
    /\ Goes(r, "barrier")
    /\ IF iRank[r] = 0 THEN Call(r, BarrierCall) ELSE UNCHANGED calls
    /\ UNCHANGED <<timerVars, env, isMaster, waitToAttachDebugger,
                   onlyMasterRankPrint, iRank, return, flag, script, nDone,
                   value, log>>

\* A round of the loop: first, the barrier.
EnterLoop(r) ==
    /\ pc[r] = "loop"
    /\ iRank[r] < NRanks
    /\ Goes(r, "barrier")
    /\ Call(r, BarrierCall)
    /\ UNCHANGED <<timerVars, env, isMaster, waitToAttachDebugger,
                   onlyMasterRankPrint, iRank, return, flag, script, nDone,
                   value, log>>

\* Then f, if it is the turn of the rank.
TakeTurn(r) ==
    /\ pc[r] = "barrier"
    /\ Returns(r)
    /\ IF iRank[r] = r
       THEN Goes(r, "turn") /\ log' = Append(log, [rank |-> r, is |-> "begin"]) /\ UNCHANGED iRank
       ELSE Goes(r, "loop") /\ iRank' = [iRank EXCEPT ![r] = @ + 1] /\ UNCHANGED log
    /\ UNCHANGED <<timerVars, env, isMaster, waitToAttachDebugger,
                   onlyMasterRankPrint, return, flag, script, nDone, value,
                   calls>>

EndTurn(r) ==
    /\ pc[r] = "turn"
    /\ log' = Append(log, [rank |-> r, is |-> "end"])
    /\ Goes(r, "loop")
    /\ iRank' = [iRank EXCEPT ![r] = @ + 1]
    /\ UNCHANGED <<timerVars, env, isMaster, waitToAttachDebugger,
                   onlyMasterRankPrint, return, flag, script, nDone, value,
                   calls>>

\* No barrier after the last turn.
LeaveLoop(r) ==
    /\ pc[r] = "loop"
    /\ iRank[r] = NRanks
    /\ iRank' = [iRank EXCEPT ![r] = 0]
    /\ Goes(r, return[r])
    /\ nDone' = [nDone EXCEPT ![r] = @ + (IF return[r] = "body" THEN 1 ELSE 0)]
    /\ UNCHANGED <<timerVars, env, isMaster, waitToAttachDebugger,
                   onlyMasterRankPrint, return, flag, script, value, calls,
                   log>>

------------------------------------------------------------------------------
(* The body                                                                *)

\* What it does next is known when the first rank gets there.
Write(op) ==
    /\ Len(script) < MaxOps
    /\ \E r \in Ranks : pc[r] = "body" /\ nDone[r] = Len(script)
    /\ script' = Append(script, op)
    /\ UNCHANGED <<timerVars, env, pc, isMaster, waitToAttachDebugger,
                   onlyMasterRankPrint, iRank, return, flag, nDone, value,
                   calls, log>>

WriteCollective ==
    \/ Write([kind |-> "inTurn"])
    \/ Write([kind |-> "allReduce"])
    \/ \E root \in {MasterRank, NRanks - 1} : Write([kind |-> "broadcast", root |-> root])

WriteTimer ==
    \E kind \in {"start", "stop"}, path \in Paths : Write([kind |-> kind, path |-> path])

Does(r, kind) ==
    /\ pc[r] = "body"
    /\ nDone[r] < Len(script)
    /\ script[nDone[r] + 1].kind = kind

Now(r) == script[nDone[r] + 1]

DoneOne(r) == nDone' = [nDone EXCEPT ![r] = @ + 1]

InTurn(r) ==
    /\ Does(r, "inTurn")
    /\ Goes(r, "loop")
    /\ return' = [return EXCEPT ![r] = "body"]
    /\ UNCHANGED <<timerVars, env, isMaster, waitToAttachDebugger,
                   onlyMasterRankPrint, iRank, flag, script, nDone, value,
                   calls, log>>

EnterCollective(r) ==
    /\ \/ /\ Does(r, "broadcast")
          /\ Call(r, [kind |-> "broadcast", root |-> Now(r).root, in |-> Binarize(value[r])])
       \/ /\ Does(r, "allReduce")
          /\ Call(r, [kind |-> "allReduce", in |-> value[r]])
    /\ Goes(r, "collective")
    /\ UNCHANGED <<timerVars, env, isMaster, waitToAttachDebugger,
                   onlyMasterRankPrint, iRank, return, flag, script, nDone,
                   value, log>>

LeaveCollective(r) ==
    /\ pc[r] = "collective"
    /\ Returns(r)
    /\ value' = [value EXCEPT ![r] = IF Now(r).kind = "broadcast" THEN Broadcast(r)
                                     ELSE AllReduce(r)]
    /\ Goes(r, "body")
    /\ DoneOne(r)
    /\ UNCHANGED <<timerVars, env, isMaster, waitToAttachDebugger,
                   onlyMasterRankPrint, iRank, return, flag, script, calls,
                   log>>

\* MINIMAL_CRASH: a line that is printed, with a Crasher, ends in exit(1).
Refused(r) ==
    \/ Does(r, "start") /\ StartRefused(Find(r, Now(r).path))
    \/ Does(r, "stop") /\ StopRefused(Find(r, Now(r).path))

Crashes(r) == Refused(r) /\ Prints(r)

MinimalCrash(r) ==
    /\ Crashes(r)
    /\ Goes(r, "dead")
    /\ UNCHANGED <<timerVars, env, isMaster, waitToAttachDebugger,
                   onlyMasterRankPrint, iRank, return, flag, script, nDone,
                   value, calls, log>>

\* A rank that does not print goes on after the check that failed.
UseTimer(r) ==
    /\ ~Crashes(r)
    /\ \/ Does(r, "start") /\ Start(r, Now(r).path)
       \/ Does(r, "stop") /\ Stop(r, Now(r).path)
    /\ DoneOne(r)
    /\ UNCHANGED <<env, pc, isMaster, waitToAttachDebugger,
                   onlyMasterRankPrint, iRank, return, flag, script, value,
                   calls, log>>

------------------------------------------------------------------------------
(* The rest of the world                                                   *)

\* $ set flag=1
Debugger ==
    /\ ~flag
    /\ pc[MasterRank] = "spin"
    /\ flag' = TRUE
    /\ UNCHANGED <<timerVars, env, pc, isMaster, waitToAttachDebugger,
                   onlyMasterRankPrint, iRank, return, script, nDone, value,
                   calls, log>>

\* A signal ends the process: before the traps are set, where the handler prints, and
\* anywhere if it is SIGABRT, that abort raises again without a handler. Sent from
\* outside (SIGINT, SIGXCPU) to a rank that does not print, it changes nothing.
Signal(r) ==
    /\ ~Gone(r)
    /\ Goes(r, "dead")
    /\ UNCHANGED <<timerVars, env, isMaster, waitToAttachDebugger,
                   onlyMasterRankPrint, iRank, return, flag, script, nDone,
                   value, calls, log>>

\* SIGSEGV, SIGFPE or SIGBUS, of a rank that does not print: the handler returns to the
\* instruction that faulted, for ever.
Fault(r) ==
    /\ ~Gone(r)
    /\ pc[r] \notin {"initialize", "fault"}
    /\ ~Prints(r)
    /\ Goes(r, "fault")
    /\ UNCHANGED <<timerVars, env, isMaster, waitToAttachDebugger,
                   onlyMasterRankPrint, iRank, return, flag, script, nDone,
                   value, calls, log>>

\* The launcher ends the ranks left when one has ended without finalizing.
Launcher ==
    /\ \E r \in Ranks : pc[r] = "dead"
    /\ \E r \in Ranks : ~Gone(r)
    /\ pc' = [r \in Ranks |-> IF pc[r] = "done" THEN "done" ELSE "dead"]
    /\ UNCHANGED <<timerVars, env, isMaster, waitToAttachDebugger,
                   onlyMasterRankPrint, iRank, return, flag, script, nDone,
                   value, calls, log>>

ClockTicks == Tick /\ UNCHANGED lifeVars

------------------------------------------------------------------------------

Step(r) ==
    \/ Initialize(r)
    \/ ReadAll(r)
    \/ Attach(r)
    \/ EnterLoop(r)
    \/ TakeTurn(r)
    \/ EndTurn(r)
    \/ LeaveLoop(r)
    \/ Spin(r)
    \/ Attached(r)
    \/ Services(r)
    \/ InTurn(r)
    \/ EnterCollective(r)
    \/ LeaveCollective(r)
    \/ MinimalCrash(r)
    \/ UseTimer(r)
    \/ Finalize(r)

Next ==
    \/ \E r \in Ranks : Step(r)
    \/ WriteCollective
    \/ WriteTimer
    \/ ClockTicks
    \/ Debugger
    \/ Launcher
    \/ \E r \in Ranks : Signal(r) \/ Fault(r)

Spec == Init /\ [][Next]_vars

\* Ranks go on; the body goes on; the debugger and the launcher do their part.
FairSpec ==
    /\ Spec
    /\ \A r \in Ranks : WF_vars(Step(r))
    /\ WF_vars(WriteCollective \/ WriteTimer)
    /\ WF_vars(Debugger)
    /\ WF_vars(Launcher)

------------------------------------------------------------------------------
(***************************************************************************)
(* Properties                                                              *)
(***************************************************************************)

\* All ranks find in the environment what means the same.
SameEnvironment ==
    \A r, s \in Ranks : ReadFlag(env[r], FALSE) = ReadFlag(env[s], FALSE)

NextRank(r) == IF r = NRanks - 1 THEN 0 ELSE r + 1

NextInTurn(turn) ==
    IF turn.is = "begin" THEN [turn EXCEPT !.is = "end"]
    ELSE [rank |-> NextRank(turn.rank), is |-> "begin"]

(* With the same environment on all ranks, what they do in turns           *)
(* (onAllRanksSequentiallyDo) they do in the order of the ranks, one       *)
(* finishing before the next begins, and one loop after the other: though  *)
(* no barrier follows the last turn (`Mpi.hpp:178-188`).                   *)
TurnsInOrder ==
    SameEnvironment =>
        \A i \in 1 .. Len(log) :
            log[i] = IF i = 1 THEN [rank |-> 0, is |-> "begin"] ELSE NextInTurn(log[i - 1])

\* What an operation of the body makes of the objects of all ranks
AfterOperation(op, v) ==
    IF op.kind = "broadcast" THEN [r \in Ranks |-> v[op.root]]
    ELSE IF op.kind = "allReduce" THEN [r \in Ranks |-> Total(v)]
    ELSE v

\* What the body means, operation by operation, for all ranks at once
Meant ==
    LET after[k \in 0 .. Len(script)] ==
            IF k = 0 THEN FirstValues ELSE AfterOperation(script[k], after[k - 1])
    IN after

(* With the same environment, a broadcast of a binarizable object gives    *)
(* each rank the object of the root, member by member, and a reduction the *)
(* sum, also when a rank is ahead of others by several calls               *)
(* (`Mpi.hpp:81-175`, `binarize.hpp`).                                     *)
CollectivesAgree ==
    SameEnvironment => \A r \in Ranks : value[r] = Meant[nDone[r]][r]

(* Where the master has come as far as a rank, the stopwatches of the rank *)
(* have measured the time they ran: a misuse, which a rank that does not   *)
(* print does not stop at (`minimalCrash.cpp:24`, `timer.hpp:99`, `:234`), *)
(* stops the master.                                                       *)
MeasuredWhereMasterPassed ==
    \A r \in Ranks : nDone[r] <= nDone[MasterRank] => MeasuredRight(r)

(* With the same environment every rank comes to its end, or is ended with *)
(* the others: none waits for ever in a barrier, a collective or for the   *)
(* debugger. One thing can keep them from it: a fault of a rank that does  *)
(* not print, whose handler returns to it (`signalTrap.cpp:34`), so that   *)
(* the others wait for it, unless somebody ends it. No rank that prints,   *)
(* so not the master, is ever kept at a fault.                             *)
AllEnd ==
    <>[](\/ ~SameEnvironment
         \/ \A r \in Ranks : Gone(r)
         \/ \E r \in Ranks : pc[r] = "fault" /\ ~Prints(r))

==============================================================================
