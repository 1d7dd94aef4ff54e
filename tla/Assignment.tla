----------------------------- MODULE Assignment -----------------------------
(***************************************************************************)
(* Assignment of an expression to a tensor, a field or a part of them      *)
(* (`expr/nodes/node.hpp`, `expr/assign/`), with the ways a build offers:  *)
(* on registers, on threads, on a device, or in one loop.                  *)
(*                                                                         *)
(* An assignment is a list of tasks, each a list of elements: the          *)
(* iterations of the parallel loop are tasks served in any order, and an   *)
(* element is evaluated and stored in one step.                            *)
(***************************************************************************)
EXTENDS Expressions

CONSTANTS Builds,         \* sets of "simd", "threads", "device" a build enables
          Initial,        \* what each tensor holds at the beginning
          Statements,     \* what the program may run
          MaxStatements   \* bound: statements run

VARIABLES build, mem, job, before, nStatements, crashed

vars == <<build, mem, job, before, nStatements, crashed>>

Idle == [lhs |-> Empty]

\* The name of the tensor that fillDynamicTens and close create.
Result == "result"

-----------------------------------------------------------------------------
(***************************************************************************)
(* Left hand sides: a leaf, or a part of one                               *)
(***************************************************************************)
RECURSIVE Cell(_, _, _)
Cell(lhs, values, lane) ==
    IF lhs.k = "bind" THEN Cell(lhs.sub[1], lhs.bound @@ values, lane)
    ELSE CellOfTens(lhs, values, lane)

RECURSIVE TensorOf(_)
TensorOf(lhs) == IF lhs.k = "bind" THEN TensorOf(lhs.sub[1]) ELSE lhs.t

RECURSIVE LanesOf(_)
LanesOf(lhs) == IF lhs.k = "bind" THEN LanesOf(lhs.sub[1]) ELSE 0 .. lhs.lanes - 1

-----------------------------------------------------------------------------
(***************************************************************************)
(* How an assignment is carried out                                        *)
(***************************************************************************)

\* Node::assign, first branch
CanSimdAssign(lhs, rhs) ==
    /\ "simd" \in build
    /\ lhs.canSimdify
    /\ \/ rhs.canSimdify /\ lhs.simdComp = rhs.simdComp
       \/ ~TupleHasType(rhs.comps, lhs.simdComp)

\* simdAssign: both sides, or only the left one, seen as registers
Simdified(lhs, rhs) ==
    IF ~CanSimdAssign(lhs, rhs) THEN <<lhs, rhs>>
    ELSE <<View(lhs, TRUE),
           IF TupleHasType(rhs.comps, lhs.simdComp) THEN View(rhs, TRUE) ELSE rhs>>

\* One task per value of `comp`, each a loop on the other components.
TasksOn(comp, orth, lhs) ==
    LET heads == LoopOnAllComps(<<comp>>, lhs.comps, lhs.dyn)
        loop == LoopOnAllComps(orth, lhs.comps, lhs.dyn)
    IN [i \in DOMAIN heads |-> [j \in DOMAIN loop |-> heads[i] @@ loop[j]]]

\* The device takes the dynamic component, or the first one when all are static.
CompForDevice(lhs) ==
    IF DynamicComps(lhs.comps) # <<>> THEN DynamicComps(lhs.comps)[1] ELSE lhs.comps[1]

DeviceTasks(lhs) ==
    TasksOn(CompForDevice(lhs), TupleFilterAllTypes(lhs.comps, <<CompForDevice(lhs)>>), lhs)

ThreadTasks(lhs) == TasksOn(DynamicComps(lhs.comps)[1], StaticComps(lhs.comps), lhs)

DirectTasks(lhs) == << LoopOnAllComps(lhs.comps, lhs.comps, lhs.dyn) >>

Tasks(lhs, rhs) ==
    IF "device" \in build THEN DeviceTasks(lhs)
    ELSE IF "threads" \in build /\ Len(DynamicComps(rhs.comps)) = 1 THEN ThreadTasks(lhs)
    ELSE DirectTasks(lhs)

\* What the compiler accepts: every component of the right hand side has a value in the
\* loops; on a device, where all are passed, the left hand side has no other.
Compiles(lhs, rhs) ==
    /\ ToSet(rhs.comps) \subseteq ToSet(lhs.comps)
    /\ "device" \in build => TuplesContainsSameTypes(lhs.comps, rhs.comps)

-----------------------------------------------------------------------------

Init ==
    /\ build \in Builds
    /\ mem = Initial @@ (Result :> << >>)
    /\ job = Idle
    /\ before = mem
    /\ nStatements = 0
    /\ crashed = FALSE

RefusedIfUnmatched(lhs, rhs) == rhs.refused

\* "unmatched dynamic comps among expressions" or, in assertCanAssign, "Dynamic
\* comps not agreeing"
Refused(lhs, rhs) == rhs.refused \/ (rhs.dyn # <<>> /\ lhs.dyn # rhs.dyn)

Begin(lhs, rhs) ==
    /\ Compiles(lhs, rhs)
    /\ nStatements' = nStatements + 1
    /\ IF Refused(lhs, rhs)
       THEN crashed' = TRUE /\ UNCHANGED job
       ELSE LET views == Simdified(lhs, rhs)
                tasks == Tasks(views[1], views[2])
            IN /\ job' = [lhs |-> views[1], rhs |-> views[2], said |-> <<lhs, rhs>>,
                          tasks |-> tasks, at |-> [i \in DOMAIN tasks |-> 0]]
               /\ UNCHANGED crashed
    /\ UNCHANGED build

May == ~crashed /\ job = Idle /\ nStatements < MaxStatements

\* Node::operator=
Assign ==
    /\ May
    /\ \E s \in Statements :
        /\ s.kind = "assign"
        /\ Begin(s.lhs, s.rhs)
    /\ before' = mem
    /\ UNCHANGED mem

\* A new tensor is allocated with sizes `shape` and the expression assigned to it.
Create(shape, rhs) ==
    /\ mem' = [mem EXCEPT ![Result] =
                  [i \in 0 .. IndexMaxValue(shape.comps, shape.alloc) - 1 |-> 0]]
    /\ before' = mem'
    /\ Begin(Leaf(Result, shape), rhs)

\* fillDynamicTens
FillDynamicTens ==
    /\ May
    /\ \E s \in Statements :
        /\ s.kind = "fill"
        /\ Create([comps |-> s.rhs.comps, dyn |-> s.rhs.dyn, alloc |-> s.rhs.dyn,
                   coverage |-> "NONE", layout |-> "NONE"], s.rhs)

\* close: a field of the coverage and layout found among the leaves; closeAs: of those
\* the caller names.
Close ==
    /\ May
    /\ \E s \in Statements :
        LET layout == IF s.kind = "close" THEN GetFieldLayout(s.rhs) ELSE s.layout
        IN /\ s.kind \in {"close", "closeAs"}
           /\ GetLatticeCoverage(s.rhs) # "NONE"
           /\ layout # "NONE"
           /\ Create(ClosedShape(s.rhs, layout), s.rhs)

\* The assigner: evaluates the right hand side on the components it has, stores.
StoreElement(values) ==
    LET own == TupleGetSubset(job.rhs.comps, values)
        value == [lane \in LanesOf(job.lhs) |-> Eval(job.rhs, own, lane, mem)]
        stored == [lane \in LanesOf(job.lhs) |-> Cell(job.lhs, values, lane)]
    IN mem' = [mem EXCEPT ![TensorOf(job.lhs)] =
                 [c \in DOMAIN @ |->
                    IF \E lane \in DOMAIN stored : stored[lane] = c
                    THEN value[CHOOSE lane \in DOMAIN stored : stored[lane] = c]
                    ELSE @[c]]]

Store(i) ==
    /\ job # Idle
    /\ i \in DOMAIN job.tasks
    /\ job.at[i] < Len(job.tasks[i])
    /\ StoreElement(job.tasks[i][job.at[i] + 1])
    /\ job' = [job EXCEPT !.at[i] = @ + 1]
    /\ UNCHANGED <<build, before, nStatements, crashed>>

AllStored == \A i \in DOMAIN job.tasks : job.at[i] = Len(job.tasks[i])

\* The implicit barrier of the parallel loop, and the end of the assignment.
Finish ==
    /\ job # Idle
    /\ AllStored
    /\ job' = Idle
    /\ before' = mem
    /\ UNCHANGED <<build, mem, nStatements, crashed>>

Next ==
    \/ Assign
    \/ FillDynamicTens
    \/ Close
    \/ \E i \in 1 .. (IF job = Idle THEN 0 ELSE Len(job.tasks)) : Store(i)
    \/ Finish

Spec == Init /\ [][Next]_vars

-----------------------------------------------------------------------------
(***************************************************************************)
(* Properties                                                              *)
(***************************************************************************)

\* Names of the tensors an expression reads.
RECURSIVE TensorsIn(_)
TensorsIn(e) ==
    IF e.k = "tens" THEN {e.t} ELSE UNION {TensorsIn(e.sub[i]) : i \in DOMAIN e.sub}

\* The expression reads tensor `t` at the element it is evaluated on, if at all.
RECURSIVE ReadsElementwise(_, _)
ReadsElementwise(e, t) ==
    CASE e.k = "tens"  -> TRUE
      [] e.k = "cWise" -> \A i \in DOMAIN e.sub : ReadsElementwise(e.sub[i], t)
      [] OTHER         -> t \notin TensorsIn(e)

(* In whatever way an assignment is carried out, and in whatever order the *)
(* threads come, when all is stored the left hand side holds the right one *)
(* as it was before, element by element, and nothing else has changed      *)
(* (`Node::assign` with simd, thread, device and direct assigners).        *)
(* Stated for right hand sides that read the destination, if they do, at   *)
(* the element being written: the source evaluates lazily, in place.       *)
AssignedAsEvaluated ==
    job # Idle /\ AllStored =>
        LET lhs == job.said[1]
            rhs == job.said[2]
            t == TensorOf(lhs)
            points == ToSet(LoopOnAllComps(lhs.comps, lhs.comps, lhs.dyn))
            written == {Cell(lhs, p, 0) : p \in points}
        IN (IF lhs.k = "tens" THEN ReadsElementwise(rhs, t) ELSE t \notin TensorsIn(rhs)) =>
            /\ \A p \in points :
                 mem[t][Cell(lhs, p, 0)] = Eval(rhs, TupleGetSubset(rhs.comps, p), 0, before)
            /\ \A c \in DOMAIN mem[t] \ written : mem[t][c] = before[t][c]
            /\ \A x \in DOMAIN mem \ {t} : mem[x] = before[x]

\* Dynamic sizes of the leaves whose dynamic components are loop variables.
RECURSIVE LoopedSizes(_)
LoopedSizes(e) ==
    IF DynamicComps(e.comps) = <<>> THEN {}
    ELSE IF e.k = "tens" THEN {e.dyn}
    ELSE UNION {LoopedSizes(e.sub[i]) : i \in DOMAIN e.sub}

(* The two checks on dynamic sizes, when factors are combined and when the *)
(* result is assigned, are enough: no tensor of an assignment that starts  *)
(* is looped on with the size of another one.                              *)
SizesAgree ==
    job # Idle => LoopedSizes(job.said[2]) \subseteq {job.said[1].dyn}

(* Each element of a tensor has a place of its own, the places fill the    *)
(* storage and the nested loops visit them in order (`index`,              *)
(* `indexMaxValue`, `loopOnAllComps`), also when the storage is seen as    *)
(* registers: this is what lets tensors be assigned in any order.          *)
ElementsApart ==
    job = Idle =>
    \A e \in {Tens(t) : t \in DOMAIN Shape}
               \union {SimdifiedTens(Tens(t)) : t \in {x \in DOMAIN Shape : Tens(x).canSimdify}} :
        LET loop == LoopOnAllComps(e.comps, e.comps, e.alloc)
        IN /\ Len(loop) = IndexMaxValue(e.comps, e.alloc)
           /\ \A i \in DOMAIN loop : Index(e.comps, e.alloc, loop[i]) = i - 1
           /\ Len(loop) * e.lanes = Cardinality(DOMAIN mem[e.t])

=============================================================================
