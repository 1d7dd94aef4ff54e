----------------------------- MODULE MCLifeCycle -----------------------------
(***************************************************************************)
(* LifeCycle with the root of the stopwatches and one under it, and with   *)
(* environments a launcher gives to all ranks alike: one in which they     *)
(* wait for a debugger, and one in which they do not.                      *)
(***************************************************************************)
EXTENDS LifeCycle

MCPaths == {Timings, <<"clip">>}

MCEnvironments == {[r \in Ranks |-> found] : found \in {"2", "true"}}
==============================================================================
