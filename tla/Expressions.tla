----------------------------- MODULE Expressions ----------------------------
(***************************************************************************)
(* Expression nodes (`expr/nodes/`, `expr/operations/dagger.hpp`): what    *)
(* each node's factory builds and what its `eval` returns.                 *)
(*                                                                         *)
(* A node is a record: its kind `k`, subnodes `sub`, components `comps`,   *)
(* dynamic sizes `dyn` (taken when the node is built, as the source does), *)
(* whether it simdifies and on which component, and `refused` when its     *)
(* factory ended in CRASH.  A leaf also holds `alloc`, the sizes its index *)
(* uses: those of a field include the halo, `dyn` do not.                  *)
(*                                                                         *)
(* A simdified view evaluates to a vector.  All its operations act lane by *)
(* lane, so `Eval` takes the lane as a parameter and returns a number.     *)
(***************************************************************************)
EXTENDS CompsLists

CONSTANTS Shape,          \* tensor -> components, sizes, coverage, layout
          EoNeighbours    \* [parity -> [site -> [ori -> [dir -> site]]]]

ComplId == <<"complId", "any", 2>>
Parity == <<"parity", "any", 2>>
LocEoSite == <<"locEoSite", "any", 0>>
SimdLocEoSite == <<"simdLocEoSite", "any", 0>>
SimdRank == <<"simdRank", "any", MaxAvailableSimdSize>>

NoComp == <<"void", "any", 0>>
Empty == [c \in {} |-> 0]

-----------------------------------------------------------------------------
(***************************************************************************)
(* Leaves                                                                  *)
(***************************************************************************)

\* BaseTens, DynamicTens, StackTens and Field
Leaf(t, shape) ==
    [k |-> "tens", t |-> t, lanes |-> 1, sub |-> <<>>,
     comps |-> shape.comps, dyn |-> shape.dyn, alloc |-> shape.alloc,
     coverage |-> shape.coverage, layout |-> shape.layout,
     canSimdify |-> CanSimdifyComps(shape.comps),
     simdComp |-> IF shape.comps = <<>> THEN NoComp ELSE Last(shape.comps),
     refused |-> FALSE]

Tens(t) == Leaf(t, Shape[t])

\* TensRef, what getRef() returns: the same storage, components and sizes
TensRef(e) == e

\* BaseTens::simdify: the same storage, seen as registers
SimdifiedTens(e) ==
    LET comps == SimdifiedComps(e.comps)
    IN [e EXCEPT !.lanes = LanesFor(SizeAtCompileTime(Last(e.comps))), !.comps = comps,
                 !.canSimdify = FALSE, !.simdComp = Last(comps)]

Scalar(value) ==
    [k |-> "scalar", value |-> value, sub |-> <<>>, comps |-> <<>>, dyn |-> <<>>,
     canSimdify |-> FALSE, simdComp |-> NoComp, refused |-> FALSE]

-----------------------------------------------------------------------------
(***************************************************************************)
(* Nodes                                                                   *)
(***************************************************************************)

BothSimdifyOn(e1, e2) == e1.canSimdify /\ e2.canSimdify /\ e1.simdComp = e2.simdComp

DynamicPart(e) == [comps |-> DynamicComps(e.comps), sizes |-> e.dyn]

Binary(kind, e1, e2, comps, canSimdify) ==
    LET out == DynamicComps(comps)
        ins == <<DynamicPart(e1), DynamicPart(e2)>>
    IN [k |-> kind, sub |-> <<e1, e2>>, comps |-> comps,
        dyn |-> DynamicCompsCombiner(out, ins),
        canSimdify |-> canSimdify, simdComp |-> e1.simdComp,
        refused |-> e1.refused \/ e2.refused \/ UnmatchedDynamicComps(out, ins)]

IsComplProd(e1, e2) == TupleHasType(e1.comps, ComplId) /\ TupleHasType(e2.comps, ComplId)

\* ProducerNode: the component on which registers are filled must be one of the result
ProducerNode(e1, e2, comps, contracted) ==
    LET transpContracted == [i \in DOMAIN contracted |-> Transp(contracted[i])]
        canSimdify ==
            /\ BothSimdifyOn(e1, e2)
            /\ ~TupleHasType(transpContracted, e1.simdComp)
            /\ ~TupleHasType(contracted, e2.simdComp)
            /\ ~(IsComplProd(e1, e2) /\ e1.simdComp = ComplId)
    IN Binary("prod", e1, e2, comps, canSimdify)
         @@ [contractedFor |-> <<transpContracted, contracted>>]

Prod(e1, e2) ==
    ProducerNode(e1, e2, ProdVisibleComps(e1.comps, e2.comps),
                 ProdContractedComps(e1.comps, e2.comps))

CWiseCombiner(op, e1, e2, comps) ==
    Binary("cWise", e1, e2, comps, BothSimdifyOn(e1, e2)) @@ [op |-> op]

CWiseCombine(op, e1, e2) ==
    CWiseCombiner(op, e1, e2, UniqueTuple(e1.comps \o e2.comps))

Unary(kind, e, comps, dyn, canSimdify, simdComp) ==
    [k |-> kind, sub |-> <<e>>, comps |-> comps, dyn |-> dyn,
     canSimdify |-> canSimdify,
     simdComp |-> simdComp, refused |-> e.refused]

CompsBinder(e, comps, dyn, bound) ==
    LET canSimdify == e.canSimdify /\ e.simdComp \notin DOMAIN bound
    IN Unary("bind", e, comps, dyn, canSimdify, IF canSimdify THEN e.simdComp ELSE NoComp)
         @@ [bound |-> bound]

\* `bound` is a tuple of values
BindComps(e, bound) ==
    LET comps == SelectSeq(e.comps, LAMBDA c : c \notin DOMAIN bound)
        left == DynamicComps(comps)
    IN CompsBinder(e, comps,
                   [i \in DOMAIN left |->
                      e.dyn[FirstOccurrenceOfType(DynamicComps(e.comps), left[i])]],
                   bound)

ConjugatorSimdifyingAnyway(e) ==
    Unary("conj", e, e.comps, e.dyn, e.canSimdify, e.simdComp)

\* No register is filled with the real and the imaginary part.
Conjugator(e) ==
    LET canSimdify == e.canSimdify /\ e.simdComp # ComplId
    IN Unary("conj", e, e.comps, e.dyn, canSimdify,
             IF canSimdify THEN e.simdComp ELSE NoComp)

\* Of something that is not a conjugator already, which does not compile.
Conj(e) == IF TupleHasType(e.comps, ComplId) THEN Conjugator(e) ELSE e

Transposer(e, comps) ==
    Unary("transp", e, comps, e.dyn, e.canSimdify, Transp(e.simdComp))

\* Of something that is not a transposer already, which does not compile.
TranspExpr(e) ==
    LET comps == TranspMatrixTensorComps(e.comps)
    IN IF CompsAreTransposable(comps) THEN Transposer(e, comps) ELSE e

Dag(e) == TranspExpr(Conj(e))

Tracer(e, comps, traced) ==
    Unary("trace", e, comps, e.dyn,
          e.canSimdify /\ ~TupleHasType(traced, e.simdComp), e.simdComp)
      @@ [traced |-> traced]

Trace(e) == Tracer(e, TraceVisibleComps(e.comps), TracedComps(e.comps))

OppositeLatticeCoverage ==
    [NONE |-> "NONE", EVEN |-> "ODD", ODD |-> "EVEN", EVEN_ODD |-> "EVEN_ODD"]

Shifter(e, ori, dir) ==
    Unary("shift", e, e.comps, e.dyn, e.canSimdify,
          IF e.canSimdify THEN e.simdComp ELSE NoComp)
      @@ [ori |-> ori, dir |-> dir, coverage |-> OppositeLatticeCoverage[e.coverage]]

\* recreateFromExprs: the same node on other subnodes
RecreateProd(fes) == Prod(fes[1], fes[2])
RecreateCWise(e, fes) == CWiseCombine(e.op, fes[1], fes[2])
RecreateBinder(e, fe) == BindComps(fe, e.bound)
RecreateConj(fe) == Conj(fe)
RecreateTransp(fe) == TranspExpr(fe)
RecreateTrace(fe) == Trace(fe)

\* shift pushes itself through binders, conjugators, transposers and products.
RECURSIVE Shift(_, _, _)
Shift(e, ori, dir) ==
    LET fes == [i \in DOMAIN e.sub |-> Shift(e.sub[i], ori, dir)]
    IN CASE e.k = "bind"   -> RecreateBinder(e, fes[1])
         [] e.k = "conj"   -> RecreateConj(fes[1])
         [] e.k = "transp" -> RecreateTransp(fes[1])
         [] e.k = "prod"   -> RecreateProd(fes)
         [] OTHER          -> Shifter(e, ori, dir)

RecreateShift(e, fe) == Shift(fe, e.ori, e.dir)

\* The node is built again on views of its leaves: simdify() when `simd`,
\* getRef() otherwise (a reference shares the storage of the tensor).
RECURSIVE View(_, _)
View(e, simd) ==
    LET fes == [i \in DOMAIN e.sub |-> View(e.sub[i], simd)]
    IN CASE e.k = "tens"   -> IF simd THEN SimdifiedTens(e) ELSE TensRef(e)
         [] e.k = "scalar" -> e
         [] e.k = "prod"   -> RecreateProd(fes)
         [] e.k = "cWise"  -> RecreateCWise(e, fes)
         [] e.k = "bind"   -> RecreateBinder(e, fes[1])
         [] e.k = "conj"   -> RecreateConj(fes[1])
         [] e.k = "transp" -> RecreateTransp(fes[1])
         [] e.k = "trace"  -> RecreateTrace(fes[1])
         [] e.k = "shift"  -> RecreateShift(e, fes[1])

-----------------------------------------------------------------------------
(***************************************************************************)
(* Evaluation                                                              *)
(***************************************************************************)

RECURSIVE Eval(_, _, _, _)      \* node, values of its components, lane, memory

\* Where a leaf keeps an element.
CellOfTens(e, values, lane) ==
    Index(e.comps, e.alloc, values) * e.lanes + lane

TranspValues(values) ==
    [c \in {Transp(x) : x \in DOMAIN values} |-> values[Transp(c)]]

\* getCompsForFact: what is left of the values for a factor, once contracted
\* components and, for complex products, the complex one are set apart
CompsForFact(e, i, values) ==
    LET maybeComplId == IF IsComplProd(e.sub[1], e.sub[2]) THEN <<ComplId>> ELSE <<>>
    IN TupleGetSubset(TupleFilterAllTypes(e.sub[i].comps, e.contractedFor[i] \o maybeComplId),
                      values)

SumAssignTheProd(out, f1, f2) == out + f1 * f2
SubAssignTheProd(out, f1, f2) == out - f1 * f2

EvalProdReal(e, values, lane, m) ==
    FoldLeft(LAMBDA res, ccs :
                 SumAssignTheProd(res, Eval(e.sub[1], TranspValues(ccs) @@ values, lane, m),
                                       Eval(e.sub[2], ccs @@ values, lane, m)),
             0, LoopOnAllComps(e.contractedFor[2], e.comps, e.dyn))

EvalProd(e, values, lane, m) ==
    LET fact(i, ccs, reIm) ==
            Eval(e.sub[i],
                 (IF i = 1 THEN TranspValues(ccs) ELSE ccs)
                    @@ CompsForFact(e, i, values) @@ reIm, lane, m)
        re(i, ccs) == fact(i, ccs, ComplId :> 0)
        im(i, ccs) == fact(i, ccs, ComplId :> 1)
        add(res, ccs) ==
            IF ~IsComplProd(e.sub[1], e.sub[2])
            THEN SumAssignTheProd(res, fact(1, ccs, Empty), fact(2, ccs, Empty))
            ELSE IF values[ComplId] = 0
            THEN SubAssignTheProd(SumAssignTheProd(res, re(1, ccs), re(2, ccs)),
                                  im(1, ccs), im(2, ccs))
            ELSE SumAssignTheProd(SumAssignTheProd(res, re(1, ccs), im(2, ccs)),
                                  im(1, ccs), re(2, ccs))
    IN FoldLeft(add, 0, LoopOnAllComps(e.contractedFor[2], e.comps, e.dyn))

Combine(op, x, y) ==
    CASE op = "plus"    -> x + y
      [] op = "minus"   -> x - y
      [] op = "compare" -> IF x = y THEN 1 ELSE 0
      [] op = "differ"  -> IF x # y THEN 1 ELSE 0

EvalCWise(e, values, lane, m) ==
    LET addend(i) == Eval(e.sub[i], TupleGetSubset(e.sub[i].comps, values), lane, m)
    IN Combine(e.op, addend(1), addend(2))

EvalConj(e, values, lane, m) ==
    LET nested == Eval(e.sub[1], values, lane, m)
    IN IF values[ComplId] = 0 THEN nested ELSE -nested

EvalTrace(e, values, lane, m) ==
    FoldLeft(LAMBDA res, tcs :
                 res + Eval(e.sub[1], values @@ tcs @@ TranspValues(tcs), lane, m),
             0, LoopOnAllComps(e.traced, e.comps, e.dyn))

EvalBind(e, values, lane, m) == Eval(e.sub[1], e.bound @@ values, lane, m)

EvalTransp(e, values, lane, m) == Eval(e.sub[1], TranspValues(values), lane, m)

ParityOf == [EVEN |-> 0, ODD |-> 1]

ShiftedValuesSameParity(e, values) ==
    LET outerParity == IF Parity \in DOMAIN values THEN values[Parity] ELSE ParityOf[e.coverage]
    IN [c \in DOMAIN values |->
          IF c \in {LocEoSite, SimdLocEoSite}
          THEN EoNeighbours[outerParity][values[c]][1 - e.ori][e.dir] ELSE values[c]]

\* Values at the site a shift reads.
ShiftedValues(e, values) ==
    LET outerParity == IF Parity \in DOMAIN values THEN values[Parity] ELSE ParityOf[e.coverage]
        inverseOri == 1 - e.ori
    IN [c \in DOMAIN values |->
          CASE c \in {LocEoSite, SimdLocEoSite} ->
                 EoNeighbours[outerParity][values[c]][inverseOri][e.dir]
            [] c = Parity -> 1 - outerParity
            [] OTHER -> values[c]]

Eval(e, values, lane, m) ==
    CASE e.k = "tens"   -> m[e.t][CellOfTens(e, values, lane)]
      [] e.k = "scalar" -> e.value
      [] e.k = "prod"   -> EvalProd(e, values, lane, m)
      [] e.k = "cWise"  -> EvalCWise(e, values, lane, m)
      [] e.k = "bind"   -> EvalBind(e, values, lane, m)
      [] e.k = "conj"   -> EvalConj(e, values, lane, m)
      [] e.k = "transp" -> EvalTransp(e, values, lane, m)
      [] e.k = "trace"  -> EvalTrace(e, values, lane, m)
      [] e.k = "shift"  -> Eval(e.sub[1], ShiftedValues(e, values), lane, m)

-----------------------------------------------------------------------------
(***************************************************************************)
(* The field that close() makes out of an expression                       *)
(***************************************************************************)

\* In order: a coverage replaces NONE only before it.
RECURSIVE GetLatticeCoverage(_)
GetLatticeCoverage(e) ==
    LET merge(acc, lc) == IF acc.res = "NONE" THEN [acc EXCEPT !.res = lc]
                          ELSE [acc EXCEPT !.found = @ /\ acc.res = lc]
        all == FoldLeft(merge, [res |-> "NONE", found |-> TRUE],
                        [i \in DOMAIN e.sub |-> GetLatticeCoverage(e.sub[i])])
    IN IF "coverage" \in DOMAIN e THEN e.coverage
       ELSE IF all.found THEN all.res ELSE "NONE"

\* All leaves must have a layout, the same; "NONE" stands for what does not compile.
RECURSIVE GetFieldLayout(_)
GetFieldLayout(e) ==
    LET layouts == {GetFieldLayout(e.sub[i]) : i \in DOMAIN e.sub}
    IN IF "layout" \in DOMAIN e THEN e.layout
       ELSE IF Cardinality(layouts) = 1 THEN CHOOSE l \in layouts : TRUE ELSE "NONE"

SpaceTimeComps == {Parity, LocEoSite, SimdLocEoSite, SimdRank}

\* FieldCompsProvider
FieldComps(inner, coverage, layout) ==
    LET parity == IF coverage = "EVEN_ODD" THEN <<Parity>> ELSE <<>>
    IN CASE layout = "SERIAL"      -> parity \o <<LocEoSite>> \o inner
         [] layout = "GPU"         -> inner \o parity \o <<LocEoSite>>
         [] layout = "SIMDIFIABLE" -> parity \o <<SimdLocEoSite>> \o inner \o <<SimdRank>>

\* Fields made by close() and closeAs() have no halo.
ClosedShape(e, layout) ==
    LET inner == SelectSeq(e.comps, LAMBDA c : c \notin SpaceTimeComps)
    IN [comps |-> FieldComps(inner, GetLatticeCoverage(e), layout),
        dyn |-> e.dyn, alloc |-> e.dyn, coverage |-> GetLatticeCoverage(e), layout |-> layout]

=============================================================================
