---------------------------- MODULE TensorStorage ----------------------------
(***************************************************************************)
(* include/expr/nodes/dynamicTens.hpp over the memory manager: dynamic     *)
(* tensors are created, copied, moved, assigned and destroyed in any order *)
(* by one thread; each constructor, assignment and destructor is a step    *)
(* that contains the manager's own step.                                   *)
(*                                                                         *)
(* The elements of a tensor are abstracted to one value, kept in the block *)
(* its storage points to; the dynamic sizes are abstracted to the size of  *)
(* that block; a tensor that never got its sizes has them zero.            *)
(***************************************************************************)
EXTENDS MemoryManager

CONSTANTS Tensor,   \* the objects of the program
          Values,   \* what a tensor may hold
          NoPtr, Nothing

ASSUME TensorSizesAssumption == 0 \notin Sizes
ASSUME TensorAlignmentAssumption == DefaultAlignment \in Alignments

VARIABLES
  tens,   \* per object: constructed, allocated, storage, size
  mem,    \* external: what the block at an address holds
  meant   \* history: the value each object stands for, Nothing if it has none

tvars == <<tens, mem, meant>>

allVars == <<vars, tvars>>

------------------------------------------------------------------------------

NotConstructed == [alive |-> FALSE, allocated |-> FALSE, storage |-> NoPtr,
                   size |-> 0]

Unallocated == [NotConstructed EXCEPT !.alive = TRUE]

Holding(p, s) == [alive |-> TRUE, allocated |-> TRUE, storage |-> p, size |-> s]

\* A tensor the program may read: it has a value of its own.
Usable(t) == meant[t] # Nothing

TInit == /\ Init
         /\ tens = [t \in Tensor |-> NotConstructed]
         /\ mem \in [Ptr -> Values]
         /\ meant = [t \in Tensor |-> Nothing]

TCrash == Crash /\ UNCHANGED tvars

\* The block a request of the manager returns, from wherever it comes.
Provide(p, s) == \/ ProvideFromCache(p, s, DefaultAlignment)
                 \/ ProvideFromSystem(p, s, DefaultAlignment)

------------------------------------------------------------------------------

ConstructEmpty(t) == /\ Ready
                     /\ ~tens[t].alive
                     /\ tens' = [tens EXCEPT ![t] = Unallocated]
                     /\ UNCHANGED <<vars, mem, meant>>

\* The constructor that takes sizes, and allocate() on a constructed tensor:
\* the elements are whatever the block contains.
Construct(t, p, s) == /\ ~tens[t].alive
                      /\ Provide(p, s)
                      /\ tens' = [tens EXCEPT ![t] = Holding(p, s)]
                      /\ meant' = [meant EXCEPT ![t] = mem[p]]
                      /\ UNCHANGED mem

Allocate(t, p, s) == /\ Ready
                     /\ tens[t].alive
                     /\ IF tens[t].allocated
                        THEN TCrash
                        ELSE /\ Provide(p, s)
                             /\ tens' = [tens EXCEPT ![t] = Holding(p, s)]
                             /\ meant' = [meant EXCEPT ![t] = mem[p]]
                             /\ UNCHANGED mem

\* A slip: the pointer is copied and not what it points to.
CopyConstructShallow(t, o, p) ==
  /\ Ready
  /\ ~tens[t].alive /\ tens[o].alive /\ Usable(o) /\ p = tens[o].storage
  /\ tens' = [tens EXCEPT ![t] = tens[o]]
  /\ meant' = [meant EXCEPT ![t] = meant[o]]
  /\ UNCHANGED <<vars, mem>>

\* Allocates a block of the other tensor's size, then assigns from it.
CopyConstruct(t, o, p) == /\ ~tens[t].alive /\ tens[o].alive /\ Usable(o)
                          /\ Provide(p, tens[o].size)
                          /\ tens' = [tens EXCEPT ![t] = Holding(p, tens[o].size)]
                          /\ mem' = [mem EXCEPT ![p] = mem[tens[o].storage]]
                          /\ meant' = [meant EXCEPT ![t] = meant[o]]

\* A slip: both tensors have the flag up.
MoveConstructBothOwn(t, o) ==
  /\ Ready
  /\ ~tens[t].alive /\ tens[o].alive
  /\ tens' = [tens EXCEPT ![t] = tens[o]]
  /\ meant' = [meant EXCEPT ![t] = meant[o], ![o] = Nothing]
  /\ UNCHANGED <<vars, mem>>

\* The new tensor takes sizes and storage; its own `allocated' keeps the default
\* member initializer, and the other's is lowered.
MoveConstruct(t, o) ==
  /\ Ready
  /\ ~tens[t].alive /\ tens[o].alive
  /\ tens' = [tens EXCEPT ![t] = [tens[o] EXCEPT !.allocated = FALSE],
                          ![o].allocated = FALSE]
  /\ meant' = [meant EXCEPT ![t] = meant[o], ![o] = Nothing]
  /\ UNCHANGED <<vars, mem>>

\* Assignment writes element by element and asks only that the sizes agree.
CopyAssign(t, o) == /\ Ready
                    /\ tens[t].alive /\ tens[o].alive /\ Usable(t) /\ Usable(o)
                    /\ IF tens[t].size # tens[o].size
                       THEN TCrash
                       ELSE /\ mem' = [mem EXCEPT ![tens[t].storage] = mem[tens[o].storage]]
                            /\ meant' = [meant EXCEPT ![t] = meant[o]]
                            /\ UNCHANGED <<vars, tens>>

\* operator= from a scalar.
AssignScalar(t, v) == /\ Ready
                      /\ tens[t].alive /\ Usable(t)
                      /\ mem' = [mem EXCEPT ![tens[t].storage] = v]
                      /\ meant' = [meant EXCEPT ![t] = v]
                      /\ UNCHANGED <<vars, tens>>

MoveAssignRefused(t, o) == /\ Ready
                           /\ tens[t].alive /\ tens[o].alive
                           /\ tens[t].size # tens[o].size \/ ~tens[t].allocated
                           /\ TCrash

\* Two slips: the flags are swapped without the storages; the sizes are not compared.
MoveAssignFlagsOnly(t, o) ==
  /\ Ready
  /\ tens[t].alive /\ tens[o].alive
  /\ tens[t].size = tens[o].size /\ tens[t].allocated
  /\ tens' = [tens EXCEPT ![t].allocated = tens[o].allocated,
                          ![o].allocated = tens[t].allocated]
  /\ meant' = [meant EXCEPT ![t] = meant[o], ![o] = meant[t]]
  /\ UNCHANGED <<vars, mem>>

MoveAssignAnySize(t, o) ==
  /\ Ready
  /\ tens[t].alive /\ tens[o].alive /\ tens[t].allocated
  /\ tens' = [tens EXCEPT ![t].storage = tens[o].storage,
                          ![t].allocated = tens[o].allocated,
                          ![o].storage = tens[t].storage,
                          ![o].allocated = tens[t].allocated]
  /\ meant' = [meant EXCEPT ![t] = meant[o], ![o] = meant[t]]
  /\ UNCHANGED <<vars, mem>>

\* Storage and flag are swapped, sizes stay.
MoveAssign(t, o) ==
  /\ Ready
  /\ tens[t].alive /\ tens[o].alive
  /\ tens[t].size = tens[o].size /\ tens[t].allocated
  /\ tens' = [tens EXCEPT ![t].storage = tens[o].storage,
                          ![t].allocated = tens[o].allocated,
                          ![o].storage = tens[t].storage,
                          ![o].allocated = tens[t].allocated]
  /\ meant' = [meant EXCEPT ![t] = meant[o], ![o] = meant[t]]
  /\ UNCHANGED <<vars, mem>>

\* getRef, fundCast and operator~: only the refusal has an effect.
GetRefRefused(t) == /\ Ready
                    /\ tens[t].alive /\ ~tens[t].allocated
                    /\ TCrash

Destroy(t) == /\ Ready
              /\ tens[t].alive
              /\ IF tens[t].allocated THEN Release(tens[t].storage)
                                      ELSE UNCHANGED vars
              /\ tens' = [tens EXCEPT ![t] = NotConstructed]
              /\ meant' = [meant EXCEPT ![t] = Nothing]
              /\ UNCHANGED mem

\* runProgram: the user's function has returned, with all its tensors.
Shutdown == /\ \A t \in Tensor : ~tens[t].alive
            /\ Finalize
            /\ UNCHANGED tvars

Management == /\ \/ (Initialize /\ ~inited) \/ EnableCache \/ DisableCache
                 \/ Loops
              /\ UNCHANGED tvars

TNext == \/ Management
         \/ Shutdown
         \/ \E t \in Tensor :
              \/ ConstructEmpty(t)
              \/ Destroy(t)
              \/ GetRefRefused(t)
              \/ \E p \in Ptr, s \in Sizes : Construct(t, p, s) \/ Allocate(t, p, s)
              \/ \E v \in Values : AssignScalar(t, v)
              \/ \E o \in Tensor : \/ CopyAssign(t, o)
                                   \/ MoveConstruct(t, o)
                                   \/ MoveAssign(t, o)
                                   \/ MoveAssignRefused(t, o)
                                   \/ \E p \in Ptr : CopyConstruct(t, o, p)

TSpec == TInit /\ [][TNext]_allVars

------------------------------------------------------------------------------

TensorTypeOK ==
  /\ TypeOK
  /\ tens \in [Tensor -> [alive : BOOLEAN, allocated : BOOLEAN,
                          storage : Ptr \cup {NoPtr}, size : Sizes \cup {0}]]
  /\ mem \in [Ptr -> Values]
  /\ meant \in [Tensor -> Values \cup {Nothing}]
  /\ \A t \in Tensor : Usable(t) => tens[t].alive

\* A tensor that will release a block is lent that block by the manager: no
\* order of moves, swaps and destructions releases a block twice or releases
\* one that is already somebody else's.
StorageIsLent == \A t \in Tensor :
                    tens[t].allocated => tens[t].storage \in DOMAIN used

\* No two tensors release or use the same block.
NoSharedStorage ==
  \A t, o \in Tensor :
     /\ t # o
     /\ tens[t].allocated \/ Usable(t)
     /\ tens[o].allocated \/ Usable(o)
     => tens[t].storage # tens[o].storage

\* A block is released once, by one tensor, and used by one: whatever the order
\* of copies, moves, swaps and destructions (`dynamicTens.hpp:57-71,162-198`).
StorageOfOne == StorageIsLent /\ NoSharedStorage

\* Value semantics: a tensor reads as the last value given to it, whatever is
\* done to the others, through copies, moves, recycled blocks.
ReadsAsMeant == \A t \in Tensor : Usable(t) => mem[tens[t].storage] = meant[t]

\* A tensor that may be read keeps its block until it is destroyed, and the
\* block is as large as the tensor's sizes say: indices stay inside.
RoomForSizes ==
  \A t \in Tensor : Usable(t) =>
     /\ tens[t].storage \in DOMAIN used
     /\ used[tens[t].storage] = tens[t].size

==============================================================================
