--------------------------- MODULE MCMemoryManager ---------------------------
(* Three addresses, of which one only satisfies the stricter alignment.    *)
EXTENDS MemoryManager

MCPtr == {32, 64, 96}
MCSizes == {1, 2}
MCAlignments == {32, 64}
==============================================================================
