------------------------------ MODULE ValWithMax ------------------------------
(***************************************************************************)
(* ValWithExtreme<T,MAXIMUM>: a number together with the largest value it   *)
(* ever had. Every self-operation goes through a RefProxy whose destructor  *)
(* calls updateExtreme, so that the extreme is refreshed by the very        *)
(* statement that changes the value; reset alone forgets the past.          *)
(***************************************************************************)
EXTENDS Integers

\* reset: value and extreme restart together.
ResetTo(init) == [val |-> init, extreme |-> init]

\* operator= and the self-operations, through the proxy: store, then
\* updateExtreme when the proxy dies.
Assign(v, x) == [val |-> x, extreme |-> IF x > v.extreme THEN x ELSE v.extreme]

Increase(v, d) == Assign(v, v.val + d)

Decrease(v, d) == Assign(v, v.val - d)
==============================================================================
