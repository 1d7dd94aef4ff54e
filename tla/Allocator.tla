------------------------------ MODULE Allocator ------------------------------
(***************************************************************************)
(* What the memory manager promises its clients, and nothing of how: a     *)
(* block is lent to one client at a time and comes back before it is lent  *)
(* again. Raw memory, the cache and the statistics are invisible here.     *)
(***************************************************************************)
EXTENDS Naturals, PartialMaps

CONSTANTS Ptr,    \* addresses of blocks
          Sizes   \* sizes a client may ask for

VARIABLES held,   \* the blocks now lent, each with the size asked for
          served  \* requests served since the start

Init == /\ held = EmptyMap
        /\ served = 0

Lend(p, s) == /\ p \notin DOMAIN held
              /\ held' = Put(held, p, s)
              /\ served' = served + 1

TakeBack(p) == /\ p \in DOMAIN held
               /\ held' = Drop(held, p)
               /\ UNCHANGED served

Next == \E p \in Ptr : \/ \E s \in Sizes : Lend(p, s)
                       \/ TakeBack(p)

Spec == Init /\ [][Next]_<<held, served>>
==============================================================================
