------------------------------- MODULE MCReduce -------------------------------
(* Odd and even sizes, and odd and even halves of them, at several rounds.  *)
EXTENDS Reduce

MCReducedSizes == 1..13
==============================================================================
