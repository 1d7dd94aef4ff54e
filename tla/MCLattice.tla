------------------------------ MODULE MCLattice ------------------------------
(* Every small lattice on up to eight ranks of two lanes, right or wrong:   *)
(* local sides of 2 to 8, odd ones, one that is not divisible and one that *)
(* ranks and lanes cut at once included.                                   *)
EXTENDS Lattice

MCSides == [Dir -> {4, 6}]
           \cup {[d \in Dir |-> IF d = other THEN side ELSE 4] : other \in Dir, side \in {3, 8}}
MCParts == [Dir -> {1, 2}]
MCLattices == [glbSides : MCSides, nRanks : MCParts, nSimdRanks : MCParts,
               parityDir : Dir]
==============================================================================
