----------------------------- MODULE CompsLists -----------------------------
(***************************************************************************)
(* Lists of components (`expr/comps/`) and the operations on tuples of     *)
(* types they are built from (`tuples/`).  A component is a triple: its    *)
(* name, "row", "cln" or "any", and its size at compile time, 0 when it is *)
(* dynamic; a list of components is a sequence of them; a tuple of values  *)
(* of components is a function from components to values, since the source *)
(* reads such tuples by type only.                                         *)
(*                                                                         *)
(* A list of dynamic sizes is a sequence aligned with the list of dynamic  *)
(* components: `dynamicCompsCombiner` reads it by position.                *)
(***************************************************************************)
EXTENDS Integers, Sequences, SequencesExt

CONSTANTS
    Registers,             \* how many numbers the enabled SIMD registers hold
    MaxAvailableSimdSize   \* size of the component of the lanes of a field

ASSUME RegistersAssumption ==
    /\ IsFiniteSet(Registers)
    /\ Registers \subseteq Nat \ {0}
    /\ MaxAvailableSimdSize \in Nat \ {0}

(***************************************************************************)
(* Components                                                              *)
(***************************************************************************)

NonSimdifiedComp(size) == <<"nonSimdified", "any", size>>

SizeAtCompileTime(c) == c[3]

SizeIsKnownAtCompileTime(c) == SizeAtCompileTime(c) # 0

IsTransposable(c) == c[2] \in {"row", "cln"}
IsRow(c) == c[2] = "row"

TranspRwCl == [row |-> "cln", cln |-> "row"]

Transp(c) == IF IsTransposable(c) THEN [c EXCEPT ![2] = TranspRwCl[c[2]]] ELSE c

(***************************************************************************)
(* Lists of types                                                          *)
(***************************************************************************)

Times(s, c) == Cardinality({i \in DOMAIN s : s[i] = c})

TupleHasType(s, c) == Times(s, c) = 1

TuplesContainsSameTypes(s, t) ==
    /\ Len(s) = Len(t)
    /\ \A i \in DOMAIN s : Times(t, s[i]) = 1

TupleCommonTypes(toSearch, s) == SelectSeq(s, LAMBDA c : TupleHasType(toSearch, c))

\* The first occurrence of each type of the filter is removed.
TupleFilterAllTypes(s, filter) ==
    FoldLeft(LAMBDA left, c : RemoveFirst(left, c), s, filter)

FirstOccurrenceOfType(s, c) ==
    IF \E i \in DOMAIN s : s[i] = c
    THEN CHOOSE i \in DOMAIN s : s[i] = c /\ \A j \in 1 .. i - 1 : s[j] # c
    ELSE Len(s) + 1

UniqueTuple(s) ==
    FoldLeft(LAMBDA u, c : IF \E i \in DOMAIN u : u[i] = c THEN u ELSE Append(u, c),
             <<>>, s)

TupleReplaceType(s, a, b) == [i \in DOMAIN s |-> IF s[i] = a THEN b ELSE s[i]]

\* The part of a tuple of values that a list of components names.
TupleGetSubset(list, values) == [c \in ToSet(list) |-> values[c]]

(***************************************************************************)
(* Lists of components                                                     *)
(***************************************************************************)

StaticComps(s) == SelectSeq(s, SizeIsKnownAtCompileTime)
DynamicComps(s) == SelectSeq(s, LAMBDA c : ~SizeIsKnownAtCompileTime(c))

CompsAreTransposable(s) == \E i \in DOMAIN s : IsTransposable(s[i])

\* A row without its column becomes a column, and vice versa.
TranspMatrixTensorComps(s) ==
    [i \in DOMAIN s |-> IF TupleHasType(s, Transp(s[i])) THEN s[i] ELSE Transp(s[i])]

\* SimdOfTypeTraits: the widest register that `size` numbers fill exactly, 0 if none.
LanesFor(size) ==
    LET fitting == {r \in Registers : size # 0 /\ size % r = 0}
    IN IF fitting = {} THEN 0 ELSE Max(fitting)

\* CompsListSimdifiableTraits: the last component fills registers.
CanSimdifyComps(s) == s # <<>> /\ LanesFor(SizeAtCompileTime(Last(s))) # 0

SimdifiedComps(s) ==
    LET size == SizeAtCompileTime(Last(s))
    IN TupleReplaceType(s, Last(s), NonSimdifiedComp(size \div LanesFor(size)))

(***************************************************************************)
(* ProdCompsDeducer: a column of the first factor that meets its row in    *)
(* the second one is contracted (and listed as the row); both disappear    *)
(* from the visible components.                                            *)
(***************************************************************************)
IsContracted(rc, c, others) == c[2] = rc /\ \E i \in DOMAIN others : others[i] = Transp(c)

ProdVisibleComps(a, b) ==
    UniqueTuple(SelectSeq(a, LAMBDA c : ~IsContracted("cln", c, b))
                \o SelectSeq(b, LAMBDA c : ~IsContracted("row", c, a)))

ProdContractedComps(a, b) ==
    LET ofFirst == SelectSeq(a, LAMBDA c : IsContracted("cln", c, b))
    IN [i \in DOMAIN ofFirst |-> Transp(ofFirst[i])]

(***************************************************************************)
(* TracerCompsDeducer                                                      *)
(***************************************************************************)
IsTraced(s, c) == IsTransposable(c) /\ {c, Transp(c)} \subseteq ToSet(s)

TraceVisibleComps(s) == SelectSeq(s, LAMBDA c : ~IsTraced(s, c))
TracedComps(s) == SelectSeq(s, LAMBDA c : IsTraced(s, c) /\ IsRow(c))

(***************************************************************************)
(* Dynamic sizes                                                           *)
(***************************************************************************)

\* Value of the size of `c` for an object with components `s` and sizes `dyn`.
MaxCompValue(c, s, dyn) ==
    IF SizeIsKnownAtCompileTime(c) THEN SizeAtCompileTime(c)
    ELSE dyn[FirstOccurrenceOfType(DynamicComps(s), c)]

\* dynamicCompsCombiner, first round: each argument overwrites the sizes it
\* has in common with the result, taken by position on both sides.
DynamicCompsCombiner(out, ins) ==
    LET common(in) == Len(TupleCommonTypes(out, in.comps))
        fill(dcsOut, in) == [i \in DOMAIN dcsOut |-> IF i <= common(in) THEN in.sizes[i]
                                                      ELSE dcsOut[i]]
    IN FoldLeft(fill, [i \in DOMAIN out |-> 0], ins)

\* Second round: "unmatched dynamic comps among expressions".
UnmatchedDynamicComps(out, ins) ==
    \E k \in DOMAIN ins :
        \E i \in 1 .. Len(TupleCommonTypes(out, ins[k].comps)) :
            ins[k].sizes[i] # DynamicCompsCombiner(out, ins)[i]

(***************************************************************************)
(* Index of a set of values, number of elements, loops                     *)
(***************************************************************************)

IndexFirstFastest(s, dyn, values) ==
    FoldRight(LAMBDA c, outer : outer * MaxCompValue(c, s, dyn) + values[c], s, 0)

Index(s, dyn, values) ==
    FoldLeft(LAMBDA outer, c : outer * MaxCompValue(c, s, dyn) + values[c], 0, s)

IndexMaxValue(s, dyn) ==
    FoldLeft(LAMBDA n, c : n * MaxCompValue(c, s, dyn), 1, s)

\* Every set of values of the components of `list`, in the order the nested
\* loops visit them; `s` and `dyn` give the dynamic sizes.
LoopOnAllComps(list, s, dyn) ==
    LET extend(points, c) ==
            FlattenSeq([i \in DOMAIN points |->
                [v \in 1 .. MaxCompValue(c, s, dyn) |->
                    [x \in DOMAIN points[i] \union {c} |->
                        IF x = c THEN v - 1 ELSE points[i][x]]]])
    IN FoldLeft(extend, << [x \in {} |-> 0] >>, list)

=============================================================================
