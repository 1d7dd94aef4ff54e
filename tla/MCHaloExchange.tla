---------------------------- MODULE MCHaloExchange ----------------------------
(* Two ranks, whose neighbours on both sides are the same rank, and a ring  *)
(* of three. Each has two lanes. Local lattices of 4x2 sites.               *)
EXTENDS HaloExchange

MCRanks(n, simd) ==
  [glbSides |-> (0 :> 4 * n @@ 1 :> 2), nRanks |-> (0 :> n @@ 1 :> 1),
   nSimdRanks |-> (0 :> simd @@ 1 :> 1), parityDir |-> 1]
MCPair == MCRanks(2, 2)
MCRing == MCRanks(3, 2)
MCSerialRing == MCRanks(3, 1)

\* What the theorems on the content of the halos ask of a lattice.
ASSUME LatIsEven == EvenLattice

MCEvenOdd == Parity
MCEven == {0}

Do(op, field) == [op |-> op, field |-> field]
\* An update, one that returns early after a write, one of another field.
MCScript == <<Do("write", 1), Do("update", 1), Do("write", 1), Do("update", 1),
              Do("update", 2)>>
==============================================================================
