-------------------------------- MODULE Reduce --------------------------------
(***************************************************************************)
(* include/expr/operations/reduce.hpp: the sum of a tensor over one        *)
(* component. The buffer is folded onto its first half until one slot is   *)
(* left; the iterations of a fold are an OpenMP parallel for (a kernel on  *)
(* the device), so they are taken in any order, by any number of threads,  *)
(* and the += of an iteration is a read of two slots and a later write.    *)
(*                                                                         *)
(* What a slot holds is abstracted to how many times it counts each        *)
(* element of the reduced expression. The other components of the tensor   *)
(* are other buffers, reduced one after the other in the same way.         *)
(***************************************************************************)
EXTENDS Integers, PartialMaps

\* The sizes of the component. An empty component is left out: the code would
\* return the first element of an empty buffer.
CONSTANT ReducedSizes

ASSUME ReducedSizesAssumption == ReducedSizes \subseteq Nat \ {0}

VARIABLES
  size,         \* of the component
  pc,           \* "start", "head" of the while loop, "round", "done"
  n,            \* slots still to be summed
  stride, nReductions,
  buf,          \* slot -> element -> how many times it is counted
  todo,         \* iterations of this round not begun
  loaded,       \* iterations between the read and the write -> the sum read
  res           \* what is returned

vars == <<size, pc, n, stride, nReductions, buf, todo, loaded, res>>

Index == 0..(size - 1)

Nowhere == [e \in Index |-> 0]

Only(i) == [e \in Index |-> IF e = i THEN 1 ELSE 0]

Plus(a, b) == [e \in Index |-> a[e] + b[e]]

Init == /\ size \in ReducedSizes
        /\ pc = "start"
        /\ n = size
        /\ stride = 0
        /\ nReductions = 0
        /\ buf = [i \in Index |-> Nowhere]
        /\ todo = {}
        /\ loaded = EmptyMap
        /\ res = Nowhere

\* buf=e
Fill == /\ pc = "start"
        /\ buf' = [i \in Index |-> Only(i)]
        /\ pc' = "head"
        /\ UNCHANGED <<size, n, stride, nReductions, todo, loaded, res>>

\* Three slips: the middle slot of an odd round is dropped; it is summed with
\* the slot after the last; two slots are kept for ever.
StartRoundFloor == /\ pc = "head" /\ n > 1
                   /\ stride' = n \div 2
                   /\ nReductions' = n \div 2
                   /\ todo' = 0..(nReductions' - 1)
                   /\ pc' = "round"
                   /\ UNCHANGED <<size, n, buf, loaded, res>>

StartRoundCeiling == /\ pc = "head" /\ n > 1
                     /\ stride' = (n + 1) \div 2
                     /\ nReductions' = (n + 1) \div 2
                     /\ todo' = 0..(nReductions' - 1)
                     /\ pc' = "round"
                     /\ UNCHANGED <<size, n, buf, loaded, res>>

StartRoundStuck == /\ pc = "head" /\ n > 1
                   /\ stride' = n \div 2 + 1
                   /\ nReductions' = n - stride'
                   /\ todo' = 0..(nReductions' - 1)
                   /\ pc' = "round"
                   /\ UNCHANGED <<size, n, buf, loaded, res>>

StartRound == /\ pc = "head" /\ n > 1
              /\ stride' = (n + 1) \div 2
              /\ nReductions' = n \div 2
              /\ todo' = 0..(nReductions' - 1)
              /\ pc' = "round"
              /\ UNCHANGED <<size, n, buf, loaded, res>>

\* An iteration reads buf(first) and buf(second)...
Load(first) == /\ pc = "round"
               /\ first \in todo
               /\ todo' = todo \ {first}
               /\ loaded' = Put(loaded, first, Plus(buf[first], buf[first + stride]))
               /\ UNCHANGED <<size, pc, n, stride, nReductions, buf, res>>

\* ... and writes buf(first).
Store(first) == /\ pc = "round"
                /\ first \in DOMAIN loaded
                /\ buf' = [buf EXCEPT ![first] = loaded[first]]
                /\ loaded' = Drop(loaded, first)
                /\ UNCHANGED <<size, pc, n, stride, nReductions, todo, res>>

\* A slip: the next round begins when every iteration has been handed out.
EndRoundNoBarrier == /\ pc = "round"
                     /\ todo = {}
                     /\ n' = stride
                     /\ pc' = "head"
                     /\ UNCHANGED <<size, stride, nReductions, buf, todo, loaded, res>>

\* A slip: one slot too few goes to the next round.
EndRoundOneLess == /\ pc = "round"
                   /\ todo = {} /\ DOMAIN loaded = {}
                   /\ n' = stride - 1
                   /\ pc' = "head"
                   /\ UNCHANGED <<size, stride, nReductions, buf, todo, loaded, res>>

\* The implicit barrier of the parallel for.
EndRound == /\ pc = "round"
            /\ todo = {} /\ DOMAIN loaded = {}
            /\ n' = stride
            /\ pc' = "head"
            /\ UNCHANGED <<size, stride, nReductions, buf, todo, loaded, res>>

\* res=buf(T(0))
Deliver == /\ pc = "head" /\ n <= 1
           /\ res' = buf[0]
           /\ pc' = "done"
           /\ UNCHANGED <<size, n, stride, nReductions, buf, todo, loaded>>

Next == \/ Fill
        \/ StartRound
        \/ \E first \in Index : Load(first) \/ Store(first)
        \/ EndRound
        \/ Deliver

Spec == Init /\ [][Next]_vars

\* The threads of the team, and the code around them, go on running.
FairSpec == Spec /\ WF_vars(Next)

------------------------------------------------------------------------------

Slot == [Index -> Nat]

ReduceTypeOK == /\ size \in Nat \ {0}
                /\ pc \in {"start", "head", "round", "done"}
                /\ n \in 1..size
                /\ stride \in 0..size /\ nReductions \in 0..size
                /\ buf \in [Index -> Slot]
                /\ todo \subseteq Index
                /\ loaded \in [DOMAIN loaded -> Slot] /\ DOMAIN loaded \subseteq Index
                /\ res \in Slot

Pending == todo \cup DOMAIN loaded

\* The slots that still matter: in a round, the first half and those of the
\* second half whose iteration has not written yet.
Live == IF pc = "round" THEN 0..(stride - 1) \cup {i + stride : i \in Pending}
                        ELSE 0..(n - 1)

\* At any moment, in any order of the threads, each element of the expression
\* is counted in exactly one of the slots still to be summed, and there once.
CountedOnce ==
  pc # "start" =>
    \A e \in Index : \E i \in Live : /\ buf[i][e] = 1
                                     /\ \A j \in Live \ {i} : buf[j][e] = 0

\* Iterations that may run together never touch a slot the other one touches,
\* and stay inside the buffer, for every size.
IterationsApart ==
  pc = "round" =>
    \A i \in Pending : /\ {i, i + stride} \subseteq Index
                       /\ \A j \in Pending \ {i} :
                             {i, i + stride} \cap {j, j + stride} = {}

\* What is returned counts every element once: the reduction is the sum.
IsTheSum == pc = "done" => res = [e \in Index |-> 1]

\* The reduction ends.
Terminates == <>(pc = "done")

==============================================================================
