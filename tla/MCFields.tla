------------------------------ MODULE MCFields -------------------------------
(***************************************************************************)
(* Fields on ranks in a ring: one direction is cut.                        *)
(***************************************************************************)
EXTENDS Fields

NRanks == Cardinality(Ranks)

MCNeighbours == [r \in Ranks |-> {(r + 1) % NRanks, (r + NRanks - 1) % NRanks} \ {r}]
==============================================================================
