--------------------------- MODULE MCTensorStorage ---------------------------
(* Three objects are enough for a copy and a move of the same tensor.      *)
EXTENDS TensorStorage

MCPtr == {32, 64, 96}
MCSizes == {1, 2}
MCAlignments == {32}
Symmetry == Permutations(Tensor) \cup Permutations(Values)
==============================================================================
