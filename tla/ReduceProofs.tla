----------------------------- MODULE ReduceProofs -----------------------------
(***************************************************************************)
(* The reduction is right for every size and every schedule of the         *)
(* threads. CountedOnce is not inductive alone: it needs the shape of a    *)
(* round (the two halves are disjoint and cover the live slots) and that   *)
(* what an iteration has read is still what the slots hold.                *)
(***************************************************************************)
EXTENDS Reduce, TLAPS

RoundShape ==
  IF pc = "round"
  THEN /\ n > 1
       /\ stride = (n + 1) \div 2
       /\ nReductions = n \div 2
       /\ Pending \subseteq 0..(nReductions - 1)
       /\ todo \cap DOMAIN loaded = {}
  ELSE Pending = {} /\ (pc = "start" => n = size)

LoadedFresh == \A i \in DOMAIN loaded :
                  loaded[i] = Plus(buf[i], buf[i + stride])

IInv == ReduceTypeOK /\ RoundShape /\ LoadedFresh /\ CountedOnce /\ IsTheSum

------------------------------------------------------------------------------

\* A slot set counts an element once: CountedOnce for one element, written with
\* the buffer and the slots as parameters.
Once(b, L, e) == \E i \in L : b[i][e] = 1 /\ \A j \in L \ {i} : b[j][e] = 0

\* The two halves of a round: they do not overlap and make up the whole.
LEMMA Halves ==
  ASSUME NEW m \in Nat, m > 1
  PROVE  LET s == (m + 1) \div 2
             r == m \div 2
         IN /\ s \in Nat /\ r \in Nat
            /\ r + s = m
            /\ 1 <= r /\ r <= s /\ s < m
  OBVIOUS

\* Folding m slots at s: the first half and the images of the second are all.
LEMMA FoldCovers ==
  ASSUME NEW s \in Nat, NEW r \in Nat, NEW m \in Nat, r + s = m, r <= s
  PROVE  0..(s - 1) \cup {i + s : i \in 0..(r - 1)} = 0..(m - 1)
  <1>1. ASSUME NEW k \in 0..(m - 1), k \notin 0..(s - 1)
        PROVE  k \in {i + s : i \in 0..(r - 1)}
        <2>1. k - s \in 0..(r - 1) /\ k = (k - s) + s
              BY <1>1
        <2>. QED BY <2>1
  <1>2. ASSUME NEW i \in 0..(r - 1)
        PROVE  i + s \in 0..(m - 1)
        OBVIOUS
  <1>3. 0..(s - 1) \subseteq 0..(m - 1)
        OBVIOUS
  <1>. QED BY <1>1, <1>2, <1>3

\* Adding two slots of a buffer gives a slot.
LEMMA PlusSlot == ASSUME NEW a \in Slot, NEW b \in Slot
                  PROVE  Plus(a, b) \in Slot
  BY DEF Plus, Slot

\* In a round every live slot is in the buffer.
LEMMA RoundBounds ==
  ASSUME ReduceTypeOK, RoundShape, pc = "round"
  PROVE  /\ stride \in 1..(n - 1) /\ stride \in Nat /\ n \in Nat
         /\ nReductions \in Nat
         /\ nReductions + stride = n /\ nReductions <= stride
         /\ \A i \in Pending : /\ i \in 0..(nReductions - 1)
                               /\ i \in Index /\ i + stride \in Index
                               /\ i < stride
  <1>1. n \in Nat /\ n > 1 /\ n <= size /\ size \in Nat
        BY DEF ReduceTypeOK, RoundShape
  <1>2. /\ stride \in Nat /\ nReductions \in Nat /\ nReductions + stride = n
        /\ 1 <= nReductions /\ nReductions <= stride /\ stride < n
        BY <1>1, Halves DEF RoundShape
  <1>3. ASSUME NEW i \in Pending
        PROVE  /\ i \in 0..(nReductions - 1)
               /\ i \in Index /\ i + stride \in Index
               /\ i < stride
        BY <1>1, <1>2 DEF RoundShape, Index
  <1>. QED BY <1>1, <1>2, <1>3

\* Iterations that may run together are apart in every state of the invariant.
LEMMA ShapeGivesApart ==
  ASSUME ReduceTypeOK, RoundShape
  PROVE  IterationsApart
  <1>. SUFFICES ASSUME pc = "round", NEW i \in Pending
                PROVE  /\ {i, i + stride} \subseteq Index
                       /\ \A j \in Pending \ {i} :
                             {i, i + stride} \cap {j, j + stride} = {}
       BY DEF IterationsApart
  <1>1. {i, i + stride} \subseteq Index
        BY RoundBounds
  <1>2. ASSUME NEW j \in Pending \ {i}
        PROVE  {i, i + stride} \cap {j, j + stride} = {}
        <2>1. i \in Nat /\ j \in Nat /\ i # j /\ i < stride /\ j < stride
              /\ stride \in Nat
              BY RoundBounds
        <2>. QED BY <2>1
  <1>. QED BY <1>1, <1>2

------------------------------------------------------------------------------
(* One lemma per action.                                                    *)

\* Before the buffer is filled no element has been added to anything.
LEMMA InitIInv == ASSUME Init PROVE IInv
  <1>1. size \in Nat \ {0}
        BY ReducedSizesAssumption DEF Init
  <1>2. Nowhere \in Slot
        BY DEF Nowhere, Slot
  <1>3. DOMAIN loaded = {}
        BY DEF Init, EmptyMap
  <1>4. ReduceTypeOK
        BY <1>1, <1>2, <1>3 DEF Init, ReduceTypeOK
  <1>5. RoundShape /\ LoadedFresh /\ CountedOnce /\ IsTheSum
        BY <1>3 DEF Init, RoundShape, LoadedFresh, CountedOnce, IsTheSum, Pending
  <1>. QED BY <1>4, <1>5 DEF IInv

\* Filling puts each element in a cell of its own.
LEMMA FillStep == ASSUME IInv, Fill PROVE IInv'
  <1>1. /\ ReduceTypeOK /\ Pending = {}
        BY DEF IInv, Fill, RoundShape
  <1>2. \A i \in Index : Only(i) \in Slot
        BY DEF Only, Slot, Index
  <1>3. ReduceTypeOK'
        BY <1>1, <1>2 DEF ReduceTypeOK, Fill, Index, Slot
  <1>4. RoundShape' /\ LoadedFresh'
        BY <1>1 DEF Fill, RoundShape, LoadedFresh, Pending
  <1>5. n = size /\ size \in Nat \ {0} /\ Index' = Index
        BY DEF IInv, Fill, RoundShape, ReduceTypeOK, Index
  <1>6. CountedOnce'
        <2>1. Live' = Index
              BY <1>5 DEF Fill, Live, Index
        <2>2. ASSUME NEW e \in Index
              PROVE  Once(buf', Index, e)
              <3>1. \A i \in Index : buf'[i][e] = IF e = i THEN 1 ELSE 0
                    BY DEF Fill, Only
              <3>. QED BY <3>1 DEF Once
        <2>. QED BY <1>5, <2>1, <2>2 DEF CountedOnce, Once
  <1>7. IsTheSum'
        BY DEF Fill, IsTheSum
  <1>. QED BY <1>3, <1>4, <1>6, <1>7 DEF IInv

\* A round pairs cells of the two halves that are left.
LEMMA StartRoundStep == ASSUME IInv, StartRound PROVE IInv'
  <1>1. ReduceTypeOK /\ RoundShape /\ CountedOnce /\ Pending = {}
        BY DEF IInv, StartRound, RoundShape
  <1>2. n \in Nat /\ n > 1 /\ n <= size /\ size \in Nat
        BY <1>1 DEF ReduceTypeOK, StartRound
  <1>3. /\ stride' \in Nat /\ nReductions' \in Nat
        /\ nReductions' + stride' = n
        /\ 1 <= nReductions' /\ nReductions' <= stride' /\ stride' < n
        BY <1>2, Halves DEF StartRound
  <1>4. DOMAIN loaded = {} /\ loaded' = loaded
        BY <1>1 DEF Pending, StartRound
  <1>5. todo' \subseteq Index
        BY <1>2, <1>3 DEF StartRound, Index
  <1>6. ReduceTypeOK'
        <2>1. stride' \in 0..size' /\ nReductions' \in 0..size'
              BY <1>2, <1>3 DEF StartRound
        <2>2. Index' = Index /\ Slot' = Slot
              BY DEF StartRound, Index, Slot
        <2>. QED BY <1>1, <1>5, <2>1, <2>2 DEF ReduceTypeOK, StartRound
  <1>7. Pending' = 0..(nReductions' - 1)
        BY <1>4 DEF StartRound, Pending
  <1>8. RoundShape'
        BY <1>2, <1>4, <1>7 DEF RoundShape, StartRound
  <1>9. LoadedFresh'
        BY <1>4 DEF LoadedFresh
  <1>10. Live' = Live
        <2>1. Live = 0..(n - 1)
              BY DEF Live, StartRound
        <2>2. Live' = 0..(stride' - 1) \cup {i + stride' : i \in 0..(nReductions' - 1)}
              BY <1>7 DEF Live, StartRound
        <2>3. 0..(stride' - 1) \cup {i + stride' : i \in 0..(nReductions' - 1)}
                = 0..(n - 1)
              BY <1>2, <1>3, FoldCovers
        <2>. QED BY <2>1, <2>2, <2>3
  <1>11. CountedOnce'
        BY <1>1, <1>10 DEF CountedOnce, StartRound, Index
  <1>12. IsTheSum'
        BY DEF StartRound, IsTheSum
  <1>. QED BY <1>6, <1>8, <1>9, <1>11, <1>12 DEF IInv

\* A thread adds the two cells of its iteration, which no other one touches.
LEMMA LoadStep ==
  ASSUME IInv, NEW first \in Index, Load(first) PROVE IInv'
  <1>1. /\ ReduceTypeOK /\ RoundShape /\ LoadedFresh /\ CountedOnce
        /\ pc = "round" /\ first \in todo
        BY DEF IInv, Load
  <1>2. first \in Index /\ first + stride \in Index
        BY <1>1, RoundBounds DEF Pending
  <1>3. Plus(buf[first], buf[first + stride]) \in Slot
        BY <1>1, <1>2, PlusSlot DEF ReduceTypeOK
  <1>4. /\ DOMAIN loaded' = DOMAIN loaded \cup {first}
        /\ loaded'[first] = Plus(buf[first], buf[first + stride])
        /\ \A i \in DOMAIN loaded \ {first} : loaded'[i] = loaded[i]
        BY DEF Load, Put
  <1>5. loaded' \in [DOMAIN loaded' -> Slot]
        BY <1>1, <1>3 DEF ReduceTypeOK, Load, Put
  <1>6. Pending' = Pending
        BY <1>1, <1>4 DEF Pending, Load
  <1>7. ReduceTypeOK'
        BY <1>1, <1>2, <1>4, <1>5 DEF ReduceTypeOK, Load, Index, Slot
  <1>8. RoundShape'
        BY <1>1, <1>4, <1>6 DEF RoundShape, Load
  <1>9. LoadedFresh'
        BY <1>1, <1>4 DEF LoadedFresh, Load, Plus, Index
  <1>10. CountedOnce' /\ IsTheSum'
        BY <1>1, <1>6 DEF CountedOnce, IsTheSum, Load, Live, Index
  <1>. QED BY <1>7, <1>8, <1>9, <1>10 DEF IInv

\* The write of an iteration merges the two slots it read: the slot of the
\* second half is given up with what it counted.
LEMMA StoreCounts ==
  ASSUME NEW b, NEW c, NEW L, NEW e, NEW i \in L, NEW k \in L, i # k,
         \A j \in L : b[j][e] \in Nat,
         Once(b, L, e),
         \A j \in L \ {i} : c[j] = b[j],
         c[i][e] = b[i][e] + b[k][e]
  PROVE  Once(c, L \ {k}, e)
  <1>1. PICK o \in L : b[o][e] = 1 /\ \A j \in L \ {o} : b[j][e] = 0
        BY DEF Once
  <1>2. CASE o = i \/ o = k
        <2>1. c[i][e] = 1
              BY <1>1, <1>2
        <2>2. \A j \in (L \ {k}) \ {i} : c[j][e] = 0
              BY <1>1, <1>2
        <2>. QED BY <2>1, <2>2 DEF Once
  <1>3. CASE o # i /\ o # k
        <2>1. c[i][e] = 0
              BY <1>1, <1>3
        <2>2. c[o][e] = 1
              BY <1>1, <1>3
        <2>3. \A j \in (L \ {k}) \ {o} : c[j][e] = 0
              BY <1>1, <2>1
        <2>. QED BY <1>3, <2>2, <2>3 DEF Once
  <1>. QED BY <1>2, <1>3

\* A thread writes a cell that no other iteration of the round touches.
LEMMA StoreStep ==
  ASSUME IInv, NEW first \in Index, Store(first) PROVE IInv'
  <1>1. /\ ReduceTypeOK /\ RoundShape /\ LoadedFresh /\ CountedOnce
        /\ pc = "round" /\ pc' = pc /\ first \in DOMAIN loaded
        /\ Index' = Index /\ stride' = stride /\ todo' = todo
        BY DEF IInv, Store, Index
  <1> DEFINE second == first + stride
  <1>2. /\ first \in Pending /\ first \in Index /\ second \in Index
        /\ first < stride /\ first \in Nat /\ stride \in Nat
        BY <1>1, RoundBounds DEF Pending, Index
  <1>3. /\ DOMAIN loaded' = DOMAIN loaded \ {first}
        /\ \A i \in DOMAIN loaded' : loaded'[i] = loaded[i]
        /\ loaded' \in [DOMAIN loaded' -> Slot]
        BY <1>1 DEF Store, Drop, Restrict, ReduceTypeOK
  <1>4. /\ buf' \in [Index -> Slot]
        /\ buf'[first] = Plus(buf[first], buf[second])
        /\ \A i \in Index \ {first} : buf'[i] = buf[i]
        BY <1>1, <1>2 DEF Store, ReduceTypeOK, LoadedFresh
  <1>5. Pending' = Pending \ {first}
        BY <1>1, <1>3 DEF Pending, RoundShape
  <1>6. ReduceTypeOK'
        BY <1>1, <1>3, <1>4 DEF ReduceTypeOK, Store, Index, Slot
  <1>7. RoundShape'
        BY <1>1, <1>3, <1>5 DEF RoundShape, Store
  <1>8. LoadedFresh'
        <2>. SUFFICES ASSUME NEW i \in DOMAIN loaded'
                      PROVE  loaded'[i] = Plus(buf[i], buf[i + stride])
                             /\ buf'[i] = buf[i] /\ buf'[i + stride] = buf[i + stride]
             BY <1>1 DEF LoadedFresh, Plus
        <2>1. i \in Pending /\ i # first
              BY <1>3 DEF Pending
        <2>2. i \in Index /\ i + stride \in Index /\ i + stride # first
              BY <1>1, <1>2, <2>1, RoundBounds DEF Index
        <2>. QED BY <1>1, <1>3, <1>4, <2>1, <2>2 DEF LoadedFresh
  <1>9. CountedOnce'
        <2>1. Live \subseteq Index
              <3>1. 0..(stride - 1) \subseteq Index
                    BY <1>1, RoundBounds DEF Index, ReduceTypeOK
              <3>. QED BY <1>1, <3>1, RoundBounds DEF Live
        <2>2. first \in Live /\ second \in Live /\ first # second
              BY <1>1, <1>2, RoundBounds DEF Live
        <2>3. Live' = Live \ {second}
              <3>1. \A i \in Pending : i \in Nat /\ (i + stride = second <=> i = first)
                    BY <1>1, <1>2, RoundBounds
              <3>2. second \notin 0..(stride - 1)
                    BY <1>2
              <3>. QED BY <1>1, <1>5, <3>1, <3>2 DEF Live
        <2>4. ASSUME NEW e \in Index
              PROVE  Once(buf', Live \ {second}, e)
              <3>1. Once(buf, Live, e)
                    BY <1>1 DEF CountedOnce, Once
              <3>2. \A j \in Live : buf[j][e] \in Nat
                    BY <1>1, <2>1 DEF ReduceTypeOK, Slot
              <3>3. buf'[first][e] = buf[first][e] + buf[second][e]
                    BY <1>4 DEF Plus
              <3>4. \A j \in Live \ {first} : buf'[j] = buf[j]
                    BY <1>4, <2>1
              <3>. QED BY <2>2, <3>1, <3>2, <3>3, <3>4, StoreCounts
        <2>. QED BY <1>1, <2>3, <2>4 DEF CountedOnce, Once
  <1>10. IsTheSum'
        BY DEF Store, IsTheSum
  <1>. QED BY <1>6, <1>7, <1>8, <1>9, <1>10 DEF IInv

\* After the barrier the lower half holds all the elements.
LEMMA EndRoundStep == ASSUME IInv, EndRound PROVE IInv'
  <1>1. /\ ReduceTypeOK /\ RoundShape /\ CountedOnce /\ pc = "round"
        /\ Pending = {}
        BY DEF IInv, EndRound, Pending
  <1>2. /\ stride \in 1..(n - 1) /\ n \in 1..size /\ size \in Nat
        BY <1>1, RoundBounds DEF ReduceTypeOK
  <1>3. ReduceTypeOK'
        BY <1>1, <1>2 DEF ReduceTypeOK, EndRound, Index, Slot
  <1>4. RoundShape' /\ LoadedFresh'
        BY <1>1 DEF RoundShape, LoadedFresh, EndRound, Pending
  <1>5. Live' = Live
        BY <1>1 DEF Live, EndRound
  <1>6. CountedOnce' /\ IsTheSum'
        BY <1>1, <1>5 DEF CountedOnce, IsTheSum, EndRound, Index
  <1>. QED BY <1>3, <1>4, <1>6 DEF IInv

\* The first cell is delivered when it holds them all.
LEMMA DeliverStep == ASSUME IInv, Deliver PROVE IInv'
  <1>1. ReduceTypeOK /\ RoundShape /\ LoadedFresh /\ CountedOnce
        BY DEF IInv
  <1>2. n = 1 /\ Live = {0} /\ 0 \in Index
        BY <1>1 DEF Deliver, ReduceTypeOK, Live, Index
  <1>3. ReduceTypeOK'
        BY <1>1, <1>2 DEF ReduceTypeOK, Deliver, Index, Slot
  <1>4. RoundShape' /\ LoadedFresh'
        BY <1>1 DEF RoundShape, LoadedFresh, Deliver, Pending, Plus, Index
  <1>5. Live' = Live
        BY DEF Live, Deliver
  <1>6. CountedOnce'
        BY <1>1, <1>5 DEF CountedOnce, Deliver, Index
  <1>7. \A e \in Index : buf[0][e] = 1
        BY <1>1, <1>2 DEF CountedOnce, Deliver
  <1>8. IsTheSum'
        BY <1>1, <1>2, <1>7 DEF IsTheSum, Deliver, ReduceTypeOK, Slot, Index
  <1>. QED BY <1>3, <1>4, <1>6, <1>8 DEF IInv

\* Every step of the reduction keeps the invariant.
LEMMA NextIInv == ASSUME IInv, [Next]_vars PROVE IInv'
  <1>1. CASE UNCHANGED vars
        BY <1>1 DEF vars, IInv, ReduceTypeOK, RoundShape, LoadedFresh, CountedOnce,
                    IsTheSum, Pending, Live, Plus, Index, Slot
  <1>2. CASE Next
        BY <1>2, FillStep, StartRoundStep, LoadStep, StoreStep, EndRoundStep,
           DeliverStep DEF Next
  <1>. QED BY <1>1, <1>2

------------------------------------------------------------------------------

\* The invariant holds in every run.
THEOREM Inductive == Spec => []IInv
  BY InitIInv, NextIInv, PTL DEF Spec

\* Types, for every size.
THEOREM Typing == Spec => []ReduceTypeOK
  <1>. IInv => ReduceTypeOK
       BY DEF IInv
  <1>. QED BY Inductive, PTL

\* No element is lost or counted twice, at any moment of any schedule.
THEOREM EachElementOnce == Spec => []CountedOnce
  <1>. IInv => CountedOnce
       BY DEF IInv
  <1>. QED BY Inductive, PTL

\* The iterations of a round are free of data races and stay in the buffer.
THEOREM NoRace == Spec => []IterationsApart
  <1>. IInv => IterationsApart
       BY ShapeGivesApart DEF IInv
  <1>. QED BY Inductive, PTL

\* The result is the sum over the component.
THEOREM Correct == Spec => []IsTheSum
  <1>. IInv => IsTheSum
       BY DEF IInv
  <1>. QED BY Inductive, PTL

===============================================================================
