---------------------------- MODULE MCAssignment ----------------------------
(***************************************************************************)
(* Colour, complex, real tensors; fields on a row of four sites (two of    *)
(* each parity) with one site of halo; registers of two elements.          *)
(***************************************************************************)
EXTENDS Assignment

ColorRow == <<"color", "row", 2>>
ColorCln == <<"color", "cln", 2>>

Stack(comps) ==
    [comps |-> comps, dyn |-> <<>>, alloc |-> <<>>, coverage |-> "NONE", layout |-> "NONE"]

FieldOf(inner, coverage, layout, halo) ==
    [comps |-> FieldComps(inner, coverage, layout), dyn |-> <<2>>, alloc |-> <<2 + halo>>,
     coverage |-> coverage, layout |-> layout]

MCShape ==
    [m  |-> Stack(<<ColorRow, ColorCln, ComplId>>),
     n  |-> Stack(<<ColorCln, ComplId, ColorRow>>),
     v  |-> Stack(<<ColorRow, ComplId>>),
     y  |-> Stack(<<ColorRow, ComplId>>),
     r  |-> Stack(<<ColorRow, ColorCln>>),
     q  |-> Stack(<<ColorCln, ColorRow>>),
     f  |-> FieldOf(<<ColorRow>>, "EVEN_ODD", "SERIAL", 1),
     g  |-> FieldOf(<<ColorRow>>, "EVEN_ODD", "GPU", 0),
     u  |-> FieldOf(<<ColorRow, ColorCln>>, "EVEN_ODD", "SERIAL", 1),
     ev |-> FieldOf(<<>>, "EVEN", "SERIAL", 1),
     od |-> FieldOf(<<>>, "ODD", "SERIAL", 1),
     h  |-> FieldOf(<<ComplId>>, "EVEN_ODD", "SIMDIFIABLE", 1),
     k  |-> FieldOf(<<ComplId>>, "EVEN_ODD", "SIMDIFIABLE", 0),
     z  |-> [Stack(<<LocEoSite, ColorRow>>) EXCEPT !.dyn = <<3>>, !.alloc = <<3>>]]

Offset ==
    [m |-> 1, n |-> 3, v |-> 2, y |-> 5, r |-> 7, q |-> 4, f |-> 1, g |-> 2, u |-> 3,
     ev |-> 2, od |-> 1, h |-> 1, k |-> 6, z |-> 1]

MCInitial ==
    [t \in DOMAIN MCShape |->
        [i \in 0 .. IndexMaxValue(MCShape[t].comps, MCShape[t].alloc) - 1 |->
            (i * i * 3 + i + Offset[t]) % 11]]

\* Even sites are 0 and 2 of the row, odd ones 1 and 3; 2 is the halo of both.
MCEoNeighbours ==
    [parity \in 0 .. 1 |-> [site \in 0 .. 1 |-> [ori \in 0 .. 1 |-> [dir \in 0 .. 0 |->
        IF parity = 0 THEN (IF ori = 1 THEN site ELSE IF site = 0 THEN 2 ELSE site - 1)
        ELSE site + ori]]]]

T(t) == Tens(t)
Is(lhs, rhs) == [kind |-> "assign", lhs |-> lhs, rhs |-> rhs]
Of(t, bound) == BindComps(T(t), bound)

MCStatements ==
    { Is(T("m"), Prod(T("m"), T("n"))),
      Is(T("n"), Prod(Dag(T("m")), T("m"))),
      Is(T("y"), CWiseCombine("minus", T("y"), T("v"))),
      Is(T("y"), Prod(T("m"), T("v"))),
      Is(T("y"), Conj(CWiseCombine("plus", T("v"), Of("m", ColorCln :> 1)))),
      Is(T("q"), TranspExpr(T("r"))),
      Is(T("q"), CWiseCombine("plus", T("q"), T("r"))),
      Is(T("r"), Of("m", ComplId :> 1)),
      Is(Of("m", ColorCln :> 1), T("v")),
      Is(Of("m", ComplId :> 0), T("r")),
      Is(T("f"), Prod(T("u"), T("f"))),
      Is(T("g"), Shift(Prod(T("u"), T("f")), 0, 0)),
      Is(T("g"), Shift(T("f"), 1, 0)),
      Is(T("f"), Of("r", ColorCln :> 0)),
      Is(T("od"), Shift(T("ev"), 0, 0)),
      Is(T("od"), CWiseCombine("compare", T("od"), T("ev"))),
      Is(Of("f", Parity :> 1), CWiseCombine("plus", Of("f", Parity :> 1), T("ev"))),
      Is(T("k"), CWiseCombine("plus", T("k"), Shift(T("h"), 0, 0))),
      Is(T("k"), Prod(T("h"), Of("v", ColorRow :> 1))),
      Is(T("h"), Scalar(3)),
      Is(T("v"), CWiseCombine("minus", T("y"), Scalar(2))),
      Is(Of("f", Parity :> 0), T("z")),
      Is(T("z"), CWiseCombine("plus", T("z"), Of("f", Parity :> 0))),
      [kind |-> "fill", rhs |-> Trace(Prod(T("m"), T("n")))],
      [kind |-> "fill", rhs |-> TranspExpr(Of("f", Parity :> 0))],
      [kind |-> "close", rhs |-> Prod(T("u"), T("f"))],
      [kind |-> "close", rhs |-> CWiseCombine("plus", T("f"), T("g"))],
      [kind |-> "closeAs", layout |-> "GPU", rhs |-> Trace(T("u"))] }

MCBuilds == {{}, {"simd"}, {"threads"}, {"simd", "threads"}, {"device"}}

-----------------------------------------------------------------------------
(***************************************************************************)
(* Laws of algebra, on the tensors above                                   *)
(***************************************************************************)

Laws ==
    LET m == T("m")
        n == T("n")
        v == T("v")
        y == T("y")
        r == T("r")
        q == T("q")
    IN { <<Prod(Prod(m, n), v), Prod(m, Prod(n, v))>>,
         <<Prod(Prod(r, q), m), Prod(r, Prod(q, m))>>,
         <<TranspExpr(Prod(m, n)), Prod(TranspExpr(n), TranspExpr(m))>>,
         <<TranspExpr(Prod(m, v)), Prod(TranspExpr(v), TranspExpr(m))>>,
         <<Dag(Prod(m, n)), Prod(Dag(n), Dag(m))>>,
         <<Prod(Dag(v), Prod(m, y)), Conj(Prod(Prod(Dag(y), Dag(m)), v))>>,
         <<Prod(m, CWiseCombine("plus", v, y)), CWiseCombine("plus", Prod(m, v), Prod(m, y))>>,
         <<Trace(Prod(m, n)), Trace(Prod(n, m))>>,
         <<Trace(Prod(Prod(r, q), m)), Trace(Prod(q, Prod(m, r)))>>,
         <<Trace(Dag(m)), Conj(Trace(m))>>,
         <<BindComps(Prod(m, n), ColorRow :> 1), Prod(BindComps(m, ColorRow :> 1), n)>>,
         <<BindComps(BindComps(Dag(m), ColorRow :> 1), ComplId :> 1),
           CWiseCombine("minus", Scalar(0),
                        TranspExpr(BindComps(m, (ComplId :> 1) @@ (ColorCln :> 1))))>> }

(* Products, transposition, conjugation, traces, sums and bound components *)
(* obey the laws of linear algebra, whatever the order of the components   *)
(* in the factors: `prod.hpp`, `cWiseCombine.hpp`, `transp.hpp`,           *)
(* `conj.hpp`, `trace.hpp`, `bindComps.hpp`, `dagger.hpp`.                 *)
AlgebraHolds ==
    job = Idle =>
        \A law \in Laws :
            /\ TuplesContainsSameTypes(law[1].comps, law[2].comps)
            /\ \A p \in ToSet(LoopOnAllComps(law[1].comps, law[1].comps, law[1].dyn)) :
                 Eval(law[1], p, 0, mem) = Eval(law[2], p, 0, mem)

Shiftable ==
    { T("f"), T("u"), Prod(T("u"), T("f")), Prod(T("f"), Prod(T("u"), T("f"))),
      Prod(TranspExpr(T("f")), T("u")), BindComps(Prod(T("u"), T("f")), ColorRow :> 1),
      Conj(T("h")), TranspExpr(Prod(T("u"), T("u"))) }

(* A shift, however deep it is pushed in the expression, evaluates to the  *)
(* expression at the neighbouring site of the other parity (`shift.hpp`).  *)
ShiftReadsNeighbour ==
    job = Idle =>
        \A e \in Shiftable, ori \in 0 .. 1 :
            \A p \in ToSet(LoopOnAllComps(e.comps, e.comps, e.dyn)) :
                LET near == [c \in DOMAIN p |->
                               CASE c = Parity -> 1 - p[c]
                                 [] c \in {LocEoSite, SimdLocEoSite} ->
                                      MCEoNeighbours[p[Parity]][p[c]][1 - ori][0]
                                 [] OTHER -> p[c]]
                IN Eval(Shift(e, ori, 0), p, 0, mem) = Eval(e, near, 0, mem)

=============================================================================
