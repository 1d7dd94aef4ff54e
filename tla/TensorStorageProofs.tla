------------------------- MODULE TensorStorageProofs -------------------------
(***************************************************************************)
(* The memory manager alone, for every set of addresses, sizes and         *)
(* alignments; then dynamic tensors over it, for any number of tensors and *)
(* every set of addresses, sizes and values. The second proof stands on    *)
(* the first: a tensor step contains a step of the manager, whose          *)
(* invariant IInv says which block may be handed out.                      *)
(***************************************************************************)
EXTENDS TensorStorage, SequenceTheorems, FiniteSetTheorems,
        WellFoundedInduction, TLAPS

------------------------------------------------------------------------------
(* Lists and maps.                                                         *)

\* Erasing a place of a list shifts the later ones down by one.
LEMMA RemoveAtProperties ==
  ASSUME NEW S, NEW q \in Seq(S), NEW k \in 1..Len(q)
  PROVE  /\ RemoveAt(q, k) \in Seq(S)
         /\ Len(RemoveAt(q, k)) = Len(q) - 1
         /\ \A j \in 1..(Len(q) - 1) :
               RemoveAt(q, k)[j] = IF j < k THEN q[j] ELSE q[j + 1]
<1> DEFINE l == SubSeq(q, 1, k - 1)
           r == SubSeq(q, k + 1, Len(q))
<1>1. Len(q) \in Nat /\ \A i \in 1..Len(q) : q[i] \in S
  BY LenProperties, ElementOfSeq
<1>2. l \in Seq(S) /\ Len(l) = k - 1 /\ \A i \in 1..(k - 1) : l[i] = q[i]
  <2>1. \A i \in 1..(k - 1) : q[i] \in S
    BY <1>1
  <2>2. /\ l \in Seq(S)
        /\ Len(l) = IF 1 <= k - 1 THEN k - 1 - 1 + 1 ELSE 0
        /\ \A i \in 1..(k - 1 - 1 + 1) : l[i] = q[1 + i - 1]
    BY <1>1, <2>1, SubSeqProperties
  <2> QED BY <1>1, <2>2
<1>3. /\ r \in Seq(S)
      /\ Len(r) = Len(q) - k
      /\ \A i \in 1..(Len(q) - k) : r[i] = q[k + i]
  <2>1. \A i \in (k + 1)..Len(q) : q[i] \in S
    BY <1>1
  <2>2. /\ r \in Seq(S)
        /\ Len(r) = IF k + 1 <= Len(q) THEN Len(q) - (k + 1) + 1 ELSE 0
        /\ \A i \in 1..(Len(q) - (k + 1) + 1) : r[i] = q[k + 1 + i - 1]
    BY <1>1, <2>1, SubSeqProperties
  <2> QED BY <1>1, <2>2
<1>4. /\ l \o r \in Seq(S)
      /\ Len(l \o r) = Len(l) + Len(r)
      /\ \A i \in 1..(Len(l) + Len(r)) :
            (l \o r)[i] = IF i <= Len(l) THEN l[i] ELSE r[i - Len(l)]
  BY <1>2, <1>3, ConcatProperties
<1>5. RemoveAt(q, k) = l \o r
  BY DEF RemoveAt
<1> HIDE DEF l, r
<1>6. Len(l \o r) = Len(q) - 1
  BY <1>1, <1>2, <1>3, <1>4
<1>7. \A j \in 1..(Len(q) - 1) : (l \o r)[j] = IF j < k THEN q[j] ELSE q[j + 1]
  <2> TAKE j \in 1..(Len(q) - 1)
  <2>1. CASE j < k
    BY <2>1, <1>1, <1>2, <1>3, <1>4
  <2>2. CASE ~(j < k)
    <3>1. (l \o r)[j] = r[j - Len(l)]
      BY <2>2, <1>1, <1>2, <1>3, <1>4
    <3>2. j - Len(l) \in 1..(Len(q) - k) /\ k + (j - Len(l)) = j + 1
      BY <2>2, <1>1, <1>2
    <3>3. r[j - Len(l)] = q[k + (j - Len(l))]
      BY <3>2, <1>3
    <3> QED BY <2>2, <3>1, <3>2, <3>3
  <2> QED BY <2>1, <2>2
<1> QED BY <1>4, <1>5, <1>6, <1>7

\* An address aligned to a multiple of the default alignment is aligned to the
\* default one.
LEMMA CoarserAlignment ==
  ASSUME NEW p \in Nat, NEW a \in Nat \ {0}, NEW d \in Nat \ {0},
         p % a = 0, a % d = 0
  PROVE  p % d = 0
<1>1. PICK k \in Int : p = a * k
  <2>1. p = a * (p \div a) + (p % a)
    OBVIOUS
  <2>2. p \div a \in Int
    OBVIOUS
  <2> QED BY <2>1, <2>2
<1>2. PICK m \in Int : a = d * m
  <2>1. a = d * (a \div d) + (a % d)
    OBVIOUS
  <2>2. a \div d \in Int
    OBVIOUS
  <2> QED BY <2>1, <2>2
<1>3. p = d * (m * k)
  BY <1>1, <1>2
<1>4. m * k \in Int
  OBVIOUS
<1>5. \A x \in Int : (d * x) % d = 0
  OBVIOUS
<1> QED BY <1>3, <1>4, <1>5

------------------------------------------------------------------------------
(* The cache as a set of addresses.                                        *)

Lists == [Sizes -> Seq(Ptr)]

Listed(c) == UNION {ToSet(c[s]) : s \in Sizes}

NoRepeat(c) ==
  \A s, t \in Sizes :
    \A i \in 1..Len(c[s]), j \in 1..Len(c[t]) :
       c[s][i] = c[t][j] => s = t /\ i = j

\* The cache with p appended to one list, or with place k of one list erased.
Pushed(c, size, p) == [c EXCEPT ![size] = Append(@, p)]

Popped(c, size, k) == [c EXCEPT ![size] = RemoveAt(@, k)]

\* What the set of a list holds is what its places hold.
LEMMA ToSetElements ==
  ASSUME NEW S, NEW q \in Seq(S), NEW p
  PROVE  p \in ToSet(q) <=> \E i \in 1..Len(q) : q[i] = p
BY LenProperties DEF ToSet

\* A block is in the cache when some place of some list holds it.
LEMMA ListedElements ==
  ASSUME NEW c \in Lists, NEW p
  PROVE  p \in Listed(c) <=> \E s \in Sizes : \E i \in 1..Len(c[s]) : c[s][i] = p
<1>1. \A s \in Sizes : c[s] \in Seq(Ptr)
  BY DEF Lists
<1> QED BY <1>1, ToSetElements DEF Listed

\* A block not yet listed can be appended to any list.
LEMMA PushListed ==
  ASSUME NEW c \in Lists, NoRepeat(c), NEW size \in Sizes,
         NEW p \in Ptr, p \notin Listed(c), NEW d,
         d = Pushed(c, size, p)
  PROVE  /\ d \in Lists
         /\ NoRepeat(d)
         /\ Listed(d) = Listed(c) \cup {p}
         /\ \A s \in Sizes : \A x :
               x \in ToSet(d[s]) <=> x \in ToSet(c[s]) \/ (s = size /\ x = p)
<1>1. \A s \in Sizes : c[s] \in Seq(Ptr) /\ Len(c[s]) \in Nat
  BY LenProperties DEF Lists
<1>2. \A s \in Sizes : d[s] = IF s = size THEN Append(c[size], p) ELSE c[s]
  BY DEF Lists, Pushed
<1>3. /\ Append(c[size], p) \in Seq(Ptr)
      /\ Len(Append(c[size], p)) = Len(c[size]) + 1
      /\ \A i \in 1..Len(c[size]) : Append(c[size], p)[i] = c[size][i]
      /\ Append(c[size], p)[Len(c[size]) + 1] = p
  BY <1>1
<1>4. d \in Lists
  BY <1>1, <1>2, <1>3 DEF Lists, Pushed, Popped
<1>5. \A s \in Sizes : \A i \in 1..Len(c[s]) : c[s][i] # p
  BY ListedElements
<1>6. \A s \in Sizes : \A i \in 1..Len(d[s]) :
         \/ i \in 1..Len(c[s]) /\ d[s][i] = c[s][i]
         \/ s = size /\ i = Len(c[s]) + 1 /\ d[s][i] = p
  <2> SUFFICES ASSUME NEW s \in Sizes, NEW i \in 1..Len(d[s])
               PROVE  \/ i \in 1..Len(c[s]) /\ d[s][i] = c[s][i]
                      \/ s = size /\ i = Len(c[s]) + 1 /\ d[s][i] = p
    OBVIOUS
  <2>1. CASE s # size
    BY <2>1, <1>2
  <2>2. CASE s = size
    <3>1. d[s] = Append(c[size], p) /\ i \in 1..(Len(c[size]) + 1)
      BY <2>2, <1>2, <1>3
    <3> QED BY <2>2, <3>1, <1>1, <1>3
  <2> QED BY <2>1, <2>2
<1>7. NoRepeat(d)
  <2> SUFFICES ASSUME NEW s \in Sizes, NEW t \in Sizes,
                      NEW i \in 1..Len(d[s]), NEW j \in 1..Len(d[t]),
                      d[s][i] = d[t][j]
               PROVE  s = t /\ i = j
    BY DEF NoRepeat
  <2>1. CASE i \in 1..Len(c[s]) /\ d[s][i] = c[s][i]
    <3>1. j \in 1..Len(c[t]) /\ d[t][j] = c[t][j]
      BY <2>1, <1>5, <1>6
    <3>2. c[s][i] = c[t][j]
      BY <2>1, <3>1
    <3> QED BY <2>1, <3>1, <3>2 DEF NoRepeat
  <2>2. CASE s = size /\ i = Len(c[s]) + 1 /\ d[s][i] = p
    <3>1. t = size /\ j = Len(c[t]) + 1
      BY <2>2, <1>5, <1>6
    <3> QED BY <2>2, <3>1
  <2> QED BY <2>1, <2>2, <1>6
<1>8. \A s \in Sizes : \A x :
         x \in ToSet(d[s]) <=> x \in ToSet(c[s]) \/ (s = size /\ x = p)
  <2> SUFFICES ASSUME NEW s \in Sizes, NEW x
               PROVE  x \in ToSet(d[s]) <=> x \in ToSet(c[s]) \/ (s = size /\ x = p)
    OBVIOUS
  <2>1. CASE s # size
    BY <2>1, <1>2
  <2>2. CASE s = size
    <3>1. d[s] \in Seq(Ptr) /\ c[s] \in Seq(Ptr)
      BY <1>1, <1>4 DEF Lists
    <3>2. x \in ToSet(d[s]) <=> \E i \in 1..Len(d[s]) : d[s][i] = x
      BY <3>1, ToSetElements
    <3>3. x \in ToSet(c[s]) <=> \E i \in 1..Len(c[s]) : c[s][i] = x
      BY <3>1, ToSetElements
    <3>4. d[s] = Append(c[s], p) /\ Len(d[s]) = Len(c[s]) + 1
      BY <2>2, <1>2, <1>3
    <3>5. \A i \in 1..Len(c[s]) : i \in 1..Len(d[s]) /\ d[s][i] = c[s][i]
      BY <2>2, <3>4, <1>1, <1>3
    <3>6. Len(c[s]) + 1 \in 1..Len(d[s]) /\ d[s][Len(c[s]) + 1] = p
      BY <2>2, <3>4, <1>1, <1>3
    <3> QED BY <2>2, <3>2, <3>3, <3>5, <3>6, <1>6
  <2> QED BY <2>1, <2>2
<1>9. Listed(d) = Listed(c) \cup {p}
  <2>1. \A x : x \in Listed(d) <=> \E s \in Sizes : x \in ToSet(d[s])
    BY DEF Listed
  <2>2. \A x : x \in Listed(c) <=> \E s \in Sizes : x \in ToSet(c[s])
    BY DEF Listed
  <2>3. \A x : x \in Listed(d) <=> x \in Listed(c) \/ x = p
    BY <2>1, <2>2, <1>8
  <2> QED BY <2>3
<1> QED BY <1>4, <1>7, <1>8, <1>9

\* Erasing one place of one list unlists exactly the block that was there.
LEMMA PopListed ==
  ASSUME NEW c \in Lists, NoRepeat(c), NEW size \in Sizes,
         NEW k \in 1..Len(c[size]), NEW d,
         d = Popped(c, size, k)
  PROVE  /\ d \in Lists
         /\ NoRepeat(d)
         /\ c[size][k] \in Listed(c) /\ c[size][k] \in ToSet(c[size])
         /\ Listed(d) = Listed(c) \ {c[size][k]}
         /\ \A s \in Sizes : ToSet(d[s]) \subseteq ToSet(c[s])
<1> DEFINE p == c[size][k]
           up(s, i) == IF s = size /\ i >= k THEN i + 1 ELSE i
<1>1. \A s \in Sizes : c[s] \in Seq(Ptr) /\ Len(c[s]) \in Nat
  BY LenProperties DEF Lists
<1>2. \A s \in Sizes : d[s] = IF s = size THEN RemoveAt(c[size], k) ELSE c[s]
  BY DEF Lists, Popped
<1>3. /\ RemoveAt(c[size], k) \in Seq(Ptr)
      /\ Len(RemoveAt(c[size], k)) = Len(c[size]) - 1
      /\ \A j \in 1..(Len(c[size]) - 1) :
            RemoveAt(c[size], k)[j] = IF j < k THEN c[size][j] ELSE c[size][j + 1]
  BY <1>1, RemoveAtProperties
<1>4. d \in Lists
  BY <1>1, <1>2, <1>3 DEF Lists, Pushed, Popped
<1>5. \A s \in Sizes : \A i \in 1..Len(d[s]) :
         up(s, i) \in 1..Len(c[s]) /\ d[s][i] = c[s][up(s, i)]
  <2> SUFFICES ASSUME NEW s \in Sizes, NEW i \in 1..Len(d[s])
               PROVE  up(s, i) \in 1..Len(c[s]) /\ d[s][i] = c[s][up(s, i)]
    OBVIOUS
  <2>1. CASE s # size
    BY <2>1, <1>2
  <2>2. CASE s = size
    <3>1. d[s] = RemoveAt(c[size], k) /\ i \in 1..(Len(c[size]) - 1)
      BY <2>2, <1>2, <1>3
    <3> QED BY <2>2, <3>1, <1>1, <1>3
  <2> QED BY <2>1, <2>2
<1>6. \A s \in Sizes : \A i \in 1..Len(c[s]) : s # size \/ i # k =>
         \E j \in 1..Len(d[s]) : i = up(s, j)
  <2> SUFFICES ASSUME NEW s \in Sizes, NEW i \in 1..Len(c[s]), s # size \/ i # k
               PROVE  \E j \in 1..Len(d[s]) : i = up(s, j)
    OBVIOUS
  <2>1. CASE s # size
    BY <2>1, <1>2
  <2>2. CASE s = size /\ i < k
    <3>1. i \in 1..Len(d[s]) /\ i = up(s, i)
      BY <2>2, <1>1, <1>2, <1>3
    <3> QED BY <3>1
  <2>3. CASE s = size /\ i > k
    <3>1. i - 1 \in 1..Len(d[s]) /\ i = up(s, i - 1)
      BY <2>3, <1>1, <1>2, <1>3
    <3> QED BY <3>1
  <2> QED BY <2>1, <2>2, <2>3, <1>1
<1>7. \A s \in Sizes : \A i, j \in 1..Len(d[s]) : up(s, i) = up(s, j) => i = j
  <2>1. \A s \in Sizes : 1..Len(d[s]) \subseteq Int
    OBVIOUS
  <2> QED BY <2>1
<1>8. \A s \in Sizes : \A i \in 1..Len(d[s]) : s = size => up(s, i) # k
  <2>1. \A s \in Sizes : 1..Len(d[s]) \subseteq Int
    OBVIOUS
  <2> QED BY <2>1
<1> HIDE DEF up
<1>9. NoRepeat(d)
  <2> SUFFICES ASSUME NEW s \in Sizes, NEW t \in Sizes,
                      NEW i \in 1..Len(d[s]), NEW j \in 1..Len(d[t]),
                      d[s][i] = d[t][j]
               PROVE  s = t /\ i = j
    BY DEF NoRepeat
  <2>1. s = t /\ up(s, i) = up(t, j)
    <3>1. up(s, i) \in 1..Len(c[s]) /\ d[s][i] = c[s][up(s, i)]
      BY <1>5
    <3>2. up(t, j) \in 1..Len(c[t]) /\ d[t][j] = c[t][up(t, j)]
      BY <1>5
    <3>3. c[s][up(s, i)] = c[t][up(t, j)]
      BY <3>1, <3>2
    <3> QED BY <3>1, <3>2, <3>3 DEF NoRepeat
  <2> QED BY <2>1, <1>7
<1>10. \A x : x \in Listed(d) <=> x \in Listed(c) /\ x # p
  <2> TAKE x
  <2>1. ASSUME x \in Listed(d) PROVE x \in Listed(c) /\ x # p
    <3>0. PICK s \in Sizes : \E i \in 1..Len(d[s]) : d[s][i] = x
      BY <2>1, <1>4, ListedElements
    <3>1. PICK i \in 1..Len(d[s]) : d[s][i] = x
      BY <3>0
    <3>2. up(s, i) \in 1..Len(c[s]) /\ c[s][up(s, i)] = x
      BY <3>1, <1>5
    <3>3. x # p
      BY <3>2, <1>8 DEF NoRepeat
    <3> QED BY <3>2, <3>3, ListedElements
  <2>2. ASSUME x \in Listed(c), x # p PROVE x \in Listed(d)
    <3>0. PICK s \in Sizes : \E i \in 1..Len(c[s]) : c[s][i] = x
      BY <2>2, ListedElements
    <3>1. PICK i \in 1..Len(c[s]) : c[s][i] = x
      BY <3>0
    <3>2. PICK j \in 1..Len(d[s]) : i = up(s, j)
      BY <2>2, <3>1, <1>6
    <3>3. d[s][j] = x
      BY <3>1, <3>2, <1>5
    <3> QED BY <3>3, <1>4, ListedElements
  <2> QED BY <2>1, <2>2
<1>11. p \in Listed(c) /\ p \in ToSet(c[size])
  BY <1>1, ListedElements, ToSetElements
<1>12. \A s \in Sizes : ToSet(d[s]) \subseteq ToSet(c[s])
  <2> SUFFICES ASSUME NEW s \in Sizes, NEW x \in ToSet(d[s])
               PROVE  x \in ToSet(c[s])
    OBVIOUS
  <2>1. d[s] \in Seq(Ptr) /\ c[s] \in Seq(Ptr)
    BY <1>1, <1>4 DEF Lists
  <2>2. PICK i \in 1..Len(d[s]) : d[s][i] = x
    BY <2>1, ToSetElements
  <2>3. up(s, i) \in 1..Len(c[s]) /\ c[s][up(s, i)] = x
    BY <2>2, <1>5
  <2>4. x \in ToSet(c[s]) <=> \E j \in 1..Len(c[s]) : c[s][j] = x
    BY <2>1, ToSetElements
  <2> QED BY <2>3, <2>4
<1>13. Listed(d) = Listed(c) \ {p}
  BY <1>10
<1> QED BY <1>4, <1>9, <1>11, <1>12, <1>13

------------------------------------------------------------------------------
(* The manager: the inductive invariant.                                   *)

\* What the walks of finalize() and disableCache() have established so far.
WalkProgress ==
  /\ phase = "releasing" => ~inited
  /\ ~inited /\ phase # "releasing" => DOMAIN used = {}
  /\ phase = "idle" /\ (~inited \/ ~useCache) => CachedPtrs = {}

\* Every block has the default alignment at least, so that clearCache, which
\* pops with that one, can pop each of them.
DefaultAligned == \A p \in DOMAIN heap : IsAligned(p, DefaultAlignment)

IInv == /\ TypeOK
        /\ OneOwner
        /\ EveryBlockRecorded
        /\ AlignmentHonoured
        /\ DefaultAligned
        /\ WalkProgress

\* What the lemmas about lists say of the cache, in the state's own names.
LEMMA CacheVocabulary ==
  /\ CachedPtrs = Listed(cached)
  /\ OneOwner <=> DOMAIN used \cap CachedPtrs = {} /\ NoRepeat(cached)
  /\ TypeOK => cached \in Lists
BY DEF CachedPtrs, Listed, OneOwner, NoRepeat, TypeOK, Lists

\* The same of the cache after a step.
LEMMA CacheVocabularyNext ==
  /\ CachedPtrs' = Listed(cached')
  /\ OneOwner' <=> (DOMAIN used)' \cap CachedPtrs' = {} /\ NoRepeat(cached')
BY DEF CachedPtrs, Listed, OneOwner, NoRepeat

\* A manager that is not initialized owns nothing.
LEMMA InitIInv == Init => IInv
<1> SUFFICES ASSUME Init PROVE IInv
  OBVIOUS
<1> USE DEF Init
<1>1. /\ DOMAIN EmptyMap = {}
      /\ EmptyMap \in [{} -> Sizes] /\ EmptyMap \in [{} -> Alignments]
  BY DEF EmptyMap
<1>2. \A s \in Sizes : cached[s] = << >> /\ Len(cached[s]) = 0 /\ ToSet(cached[s]) = {}
  BY DEF ToSet
<1>3. CachedPtrs = {}
  BY <1>2 DEF CachedPtrs
<1>4. TypeOK
  <2>1. cached \in [Sizes -> Seq(Ptr)]
    BY EmptySeq
  <2>2. ResetTo(0) \in [val : Int, extreme : Int]
    BY DEF ResetTo
  <2>3. used \in [DOMAIN used -> Sizes] /\ DOMAIN used \subseteq Ptr
    BY <1>1
  <2>4. heap \in [DOMAIN heap -> Sizes] /\ DOMAIN heap \subseteq Ptr
    BY <1>1
  <2>5. asked \in [DOMAIN used -> Alignments]
    BY <1>1
  <2>6. 0 \in 0..MaxAlloc /\ 0 \in 0..MaxReused
    BY BoundsAssumption
  <2> QED BY <2>1, <2>2, <2>3, <2>4, <2>5, <2>6 DEF TypeOK
<1>5. OneOwner
  BY <1>1, <1>2, <1>3 DEF OneOwner
<1>6. EveryBlockRecorded
  BY <1>1, <1>2, <1>3 DEF EveryBlockRecorded
<1>7. AlignmentHonoured /\ DefaultAligned
  BY <1>1 DEF AlignmentHonoured, DefaultAligned
<1>8. WalkProgress
  BY <1>1, <1>3 DEF WalkProgress
<1> QED BY <1>4, <1>5, <1>6, <1>7, <1>8 DEF IInv

------------------------------------------------------------------------------
(* One lemma per kind of step.                                             *)

\* Steps that move no block only have to keep types and the progress of walks.
LEMMA NoBlockMoves ==
  ASSUME IInv, UNCHANGED <<used, cached, heap, asked>>
  PROVE  OneOwner' /\ EveryBlockRecorded' /\ AlignmentHonoured' /\ DefaultAligned'
         /\ CachedPtrs' = CachedPtrs
BY DEF IInv, OneOwner, EveryBlockRecorded, AlignmentHonoured, DefaultAligned,
       CachedPtrs

\* A crash changes no block and no record.
LEMMA CrashStep == IInv /\ Crash => IInv'
<1> SUFFICES ASSUME IInv, Crash PROVE IInv'
  OBVIOUS
<1>1. UNCHANGED <<inited, useCache, used, cached, usedSize, cachedSize, nAlloc,
                  nCachedReused, heap, asked, phase>> /\ crashed' = TRUE
  BY DEF Crash
<1>2. TypeOK'
  BY <1>1 DEF IInv, TypeOK
<1>3. WalkProgress'
  BY <1>1, NoBlockMoves DEF IInv, WalkProgress
<1> QED BY <1>1, <1>2, <1>3, NoBlockMoves DEF IInv

\* The invariant speaks of the variables only.
LEMMA StutterStep == IInv /\ UNCHANGED vars => IInv'
<1> SUFFICES ASSUME IInv, UNCHANGED vars PROVE IInv'
  OBVIOUS
<1>1. UNCHANGED <<inited, useCache, used, cached, usedSize, cachedSize, nAlloc,
                  nCachedReused, heap, asked, phase, crashed>>
  BY DEF vars
<1>2. TypeOK'
  BY <1>1 DEF IInv, TypeOK
<1>3. WalkProgress'
  BY <1>1, NoBlockMoves DEF IInv, WalkProgress
<1> QED BY <1>1, <1>2, <1>3, NoBlockMoves DEF IInv

\* The values with their maximum keep their type.
LEMMA TotalsTyped ==
  ASSUME NEW v \in [val : Int, extreme : Int], NEW d \in Int
  PROVE  /\ Increase(v, d) \in [val : Int, extreme : Int]
         /\ Decrease(v, d) \in [val : Int, extreme : Int]
         /\ Assign(v, d) \in [val : Int, extreme : Int]
BY DEF Increase, Decrease, Assign

\* initialize starts from empty maps, or crashes.
LEMMA InitializeStep == IInv /\ Initialize => IInv'
<1> SUFFICES ASSUME IInv, Initialize PROVE IInv'
  OBVIOUS
<1>1. CASE inited
  BY <1>1, CrashStep DEF Initialize
<1>2. CASE ~inited
  <2>1. /\ phase = "idle" /\ inited' = TRUE
        /\ usedSize' = Assign(usedSize, 0) /\ cachedSize' = Assign(cachedSize, 0)
        /\ UNCHANGED <<useCache, used, cached, nAlloc, nCachedReused, heap, asked,
                       phase, crashed>>
    BY <1>2 DEF Initialize, Ready, statistics
  <2>2. TypeOK'
    <3>1. /\ usedSize' \in [val : Int, extreme : Int]
          /\ cachedSize' \in [val : Int, extreme : Int]
      BY <2>1, TotalsTyped DEF IInv, TypeOK
    <3> QED BY <2>1, <3>1 DEF IInv, TypeOK
  <2>3. WalkProgress'
    BY <1>2, <2>1, NoBlockMoves DEF IInv, WalkProgress
  <2> QED BY <2>1, <2>2, <2>3, NoBlockMoves DEF IInv
<1> QED BY <1>1, <1>2

\* EnableCache, DisableCache, the start of finalize and the ends of the loops.
LEMMA ControlStep ==
  IInv /\ (EnableCache \/ DisableCache \/ (Finalize /\ inited) \/ ReleaseEnd \/ ClearEnd)
  => IInv'
<1> SUFFICES ASSUME IInv,
                    EnableCache \/ DisableCache \/ (Finalize /\ inited)
                    \/ ReleaseEnd \/ ClearEnd
             PROVE  IInv'
  OBVIOUS
<1>1. UNCHANGED <<used, cached, usedSize, cachedSize, nAlloc, nCachedReused, heap,
                  asked, crashed>>
  BY DEF EnableCache, DisableCache, Finalize, ReleaseEnd, ClearEnd, statistics
<1>2. inited' \in BOOLEAN /\ useCache' \in BOOLEAN
      /\ phase' \in {"idle", "releasing", "clearing"}
  BY DEF EnableCache, DisableCache, Finalize, ReleaseEnd, ClearEnd, IInv, TypeOK
<1>3. TypeOK'
  BY <1>1, <1>2 DEF IInv, TypeOK
<1>4. CachedPtrs' = CachedPtrs
  BY <1>1, NoBlockMoves
<1>5. WalkProgress'
  <2>1. CASE EnableCache
    BY <1>1, <1>4, <2>1 DEF EnableCache, Ready, IInv, WalkProgress
  <2>2. CASE DisableCache
    BY <1>1, <1>4, <2>2 DEF DisableCache, Ready, IInv, WalkProgress
  <2>3. CASE Finalize /\ inited
    BY <1>1, <1>4, <2>3 DEF Finalize, Ready, IInv, WalkProgress
  <2>4. CASE ReleaseEnd
    BY <1>1, <1>4, <2>4 DEF ReleaseEnd, IInv, WalkProgress
  <2>5. CASE ClearEnd
    <3>1. CachedPtrs = {}
      <4> SUFFICES ASSUME NEW p \in CachedPtrs PROVE FALSE
        OBVIOUS
      <4>1. PICK s \in Sizes : \E i \in 1..Len(cached[s]) : cached[s][i] = p
        BY CacheVocabulary, ListedElements DEF IInv
      <4>2. PICK i \in 1..Len(cached[s]) : cached[s][i] = p
        BY <4>1
      <4>3. IsAligned(p, DefaultAlignment)
        BY DEF IInv, EveryBlockRecorded, DefaultAligned
      <4>4. s \in Clearable
        BY <4>2, <4>3 DEF Clearable, Fitting
      <4> QED BY <4>4, <2>5 DEF ClearEnd
    <3>2. /\ phase = "clearing" /\ phase' = "idle"
          /\ inited' = inited /\ useCache' = useCache
      BY <2>5 DEF ClearEnd
    <3> QED BY <1>1, <1>4, <3>1, <3>2 DEF IInv, WalkProgress
  <2> QED BY <2>1, <2>2, <2>3, <2>4, <2>5
<1> QED BY <1>1, <1>3, <1>5, NoBlockMoves DEF IInv

\* A block leaves its client, for the cache or for the operating system. The
\* promise on lost blocks needs a build that frees.
LEMMA GiveUpStep ==
  ASSUME ~DeviceBuild, IInv, NEW p \in Ptr, GiveUp(p), UNCHANGED phase
  PROVE  IInv'
<1>1. /\ p \in DOMAIN used
      /\ used' = Drop(used, p) /\ asked' = Drop(asked, p)
      /\ usedSize' = Decrease(usedSize, used[p])
      /\ UNCHANGED <<inited, useCache, nAlloc, nCachedReused, crashed>>
  BY DEF GiveUp, PopFromUsed, statistics
<1>2. TypeOK /\ OneOwner /\ EveryBlockRecorded
  BY DEF IInv
<1>3. /\ DOMAIN used' = DOMAIN used \ {p}
      /\ \A x \in DOMAIN used' : used'[x] = used[x]
      /\ used' \in [DOMAIN used' -> Sizes]
  <2>1. /\ DOMAIN used' = DOMAIN used \ {p}
        /\ \A x \in DOMAIN used' : used'[x] = used[x]
        /\ used' = [x \in DOMAIN used' |-> used'[x]]
    BY <1>1 DEF Drop, Restrict
  <2> QED BY <2>1, <1>2 DEF TypeOK
<1>4. /\ \A x \in DOMAIN used' : asked'[x] = asked[x]
      /\ asked' \in [DOMAIN used' -> Alignments]
  <2>1. /\ DOMAIN asked' = DOMAIN asked \ {p}
        /\ \A x \in DOMAIN asked' : asked'[x] = asked[x]
        /\ asked' = [x \in DOMAIN asked' |-> asked'[x]]
    BY <1>1 DEF Drop, Restrict
  <2>2. DOMAIN asked = DOMAIN used
    BY <1>2 DEF TypeOK
  <2> QED BY <2>1, <2>2, <1>2, <1>3 DEF TypeOK
<1>5. used[p] \in Sizes /\ used[p] \in Int
  BY <1>1, <1>2, SizesAssumption DEF TypeOK
<1>6. usedSize' \in [val : Int, extreme : Int]
  BY <1>1, <1>2, <1>5, TotalsTyped DEF TypeOK
<1>7. AlignmentHonoured'
  BY <1>3, <1>4 DEF IInv, AlignmentHonoured
<1>8. cached \in Lists /\ NoRepeat(cached) /\ p \notin Listed(cached)
  BY <1>1, <1>2, CacheVocabulary
<1>9. CASE useCache
  <2>1. /\ cached' = [cached EXCEPT ![used[p]] = Append(@, p)]
        /\ cachedSize' = Increase(cachedSize, used[p])
        /\ heap' = heap
    BY <1>9 DEF GiveUp, PushToCache
  <2>2. /\ cached' \in Lists
        /\ NoRepeat(cached')
        /\ Listed(cached') = Listed(cached) \cup {p}
        /\ \A s \in Sizes : \A x :
             x \in ToSet(cached'[s]) <=> x \in ToSet(cached[s]) \/ (s = used[p] /\ x = p)
    <3>1. cached' = Pushed(cached, used[p], p)
      BY <2>1 DEF Pushed
    <3> QED BY <1>5, <1>8, <3>1, PushListed
  <2>3. TypeOK'
    <3>1. cachedSize' \in [val : Int, extreme : Int]
      BY <1>2, <1>5, <2>1, TotalsTyped DEF TypeOK
    <3> QED BY <1>1, <1>2, <1>3, <1>4, <1>6, <2>1, <2>2, <3>1 DEF TypeOK, Lists
  <2>4. OneOwner'
    BY <1>2, <1>3, <2>2, CacheVocabulary, CacheVocabularyNext
  <2>5. EveryBlockRecorded'
    <3>1. DOMAIN heap' = DOMAIN used' \cup CachedPtrs'
      BY <1>1, <1>2, <1>3, <2>1, <2>2, CacheVocabulary, CacheVocabularyNext
         DEF EveryBlockRecorded
    <3>2. \A x \in DOMAIN used' : heap'[x] = used'[x]
      BY <1>2, <1>3, <2>1 DEF EveryBlockRecorded
    <3>3. \A s \in Sizes : \A x \in ToSet(cached'[s]) : heap'[x] = s
      BY <1>1, <1>2, <2>1, <2>2 DEF EveryBlockRecorded
    <3> QED BY <3>1, <3>2, <3>3 DEF EveryBlockRecorded
  <2>6. DefaultAligned'
    BY <2>1 DEF IInv, DefaultAligned
  <2>7. WalkProgress'
    BY <1>1, <1>3, <1>9 DEF IInv, WalkProgress
  <2> QED BY <1>7, <2>3, <2>4, <2>5, <2>6, <2>7 DEF IInv
<1>10. CASE ~useCache
  <2>1. cached' = cached /\ cachedSize' = cachedSize /\ heap' = Drop(heap, p)
    BY <1>10 DEF GiveUp, DeAllocateRaw
  <2>2. /\ DOMAIN heap' = DOMAIN heap \ {p}
        /\ \A x \in DOMAIN heap' : heap'[x] = heap[x]
        /\ heap' = [x \in DOMAIN heap' |-> heap'[x]]
    BY <2>1 DEF Drop, Restrict
  <2>3. CachedPtrs' = CachedPtrs
    BY <2>1 DEF CachedPtrs
  <2>4. TypeOK'
    <3>1. heap' \in [DOMAIN heap' -> Sizes] /\ DOMAIN heap' \subseteq Ptr
      BY <1>2, <2>2 DEF TypeOK
    <3> QED BY <1>1, <1>2, <1>3, <1>4, <1>6, <2>1, <3>1 DEF TypeOK
  <2>5. OneOwner'
    BY <1>2, <1>3, <1>8, <2>1, CacheVocabulary, CacheVocabularyNext
  <2>6. EveryBlockRecorded'
    <3>1. p \notin CachedPtrs
      BY <1>8, CacheVocabulary
    <3>2. \A s \in Sizes : \A x \in ToSet(cached[s]) : x # p /\ x \in DOMAIN heap
      BY <1>2, <3>1 DEF CachedPtrs, EveryBlockRecorded
    <3>3. \A s \in Sizes : \A x \in ToSet(cached'[s]) : heap'[x] = s
      BY <1>2, <2>1, <2>2, <3>2 DEF EveryBlockRecorded
    <3>4. \A x \in DOMAIN used' : x \in DOMAIN heap' /\ heap'[x] = used'[x]
      BY <1>2, <1>3, <2>2 DEF EveryBlockRecorded
    <3>5. DOMAIN heap' = DOMAIN used' \cup CachedPtrs'
      BY <1>2, <1>3, <2>2, <2>3, <3>1 DEF EveryBlockRecorded
    <3> QED BY <3>3, <3>4, <3>5 DEF EveryBlockRecorded
  <2>7. DefaultAligned'
    BY <2>2 DEF IInv, DefaultAligned
  <2>8. WalkProgress'
    BY <1>1, <1>3, <2>3 DEF IInv, WalkProgress
  <2> QED BY <1>7, <2>4, <2>5, <2>6, <2>7, <2>8 DEF IInv
<1> QED BY <1>9, <1>10

\* The popped block was in the cache, fitted, and is there no more.
LEMMA PopFromCacheEffect ==
  ASSUME TypeOK, OneOwner, NEW p, NEW size \in Sizes, NEW alignment,
         PopFromCache(p, size, alignment)
  PROVE  /\ cached' \in Lists
         /\ NoRepeat(cached')
         /\ p \in Ptr /\ p \in CachedPtrs /\ p \in ToSet(cached[size])
         /\ IsAligned(p, alignment)
         /\ CachedPtrs' = CachedPtrs \ {p}
         /\ \A s \in Sizes : ToSet(cached'[s]) \subseteq ToSet(cached[s])
         /\ cachedSize' \in [val : Int, extreme : Int]
<1>1. PICK i \in Fitting(size, alignment) :
         /\ p = cached[size][i]
         /\ cached' = Popped(cached, size, i)
         /\ cachedSize' = Decrease(cachedSize, size)
  BY DEF PopFromCache, Popped
<1>2. i \in 1..Len(cached[size]) /\ IsAligned(p, alignment)
  BY <1>1 DEF Fitting
<1>3. cached \in Lists /\ NoRepeat(cached)
  BY CacheVocabulary
<1>4. /\ cached' \in Lists
      /\ NoRepeat(cached')
      /\ p \in Listed(cached) /\ p \in ToSet(cached[size])
      /\ Listed(cached') = Listed(cached) \ {p}
      /\ \A s \in Sizes : ToSet(cached'[s]) \subseteq ToSet(cached[s])
  <2>1. cached' \in Lists /\ NoRepeat(cached')
    BY <1>1, <1>2, <1>3, PopListed
  <2>2. cached[size][i] \in Listed(cached) /\ cached[size][i] \in ToSet(cached[size])
    BY <1>1, <1>2, <1>3, PopListed
  <2>3. Listed(cached') = Listed(cached) \ {cached[size][i]}
    BY <1>1, <1>2, <1>3, PopListed
  <2>4. \A s \in Sizes : ToSet(cached'[s]) \subseteq ToSet(cached[s])
    BY <1>1, <1>2, <1>3, PopListed
  <2> QED BY <1>1, <2>1, <2>2, <2>3, <2>4
<1>5. p \in Ptr
  <2>1. cached[size] \in Seq(Ptr)
    BY <1>3 DEF Lists
  <2> QED BY <1>1, <1>2, <2>1, ElementOfSeq
<1>6. size \in Int
  BY SizesAssumption
<1>7. cachedSize' \in [val : Int, extreme : Int]
  BY <1>1, <1>6, TotalsTyped DEF TypeOK
<1> QED BY <1>2, <1>4, <1>5, <1>7, CacheVocabulary, CacheVocabularyNext

\* A block becomes its client's.
LEMMA PushToUsedEffect ==
  ASSUME TypeOK, NEW p \in Ptr, NEW size \in Sizes, NEW alignment \in Alignments,
         p \notin DOMAIN used, PushToUsed(p, size, alignment)
  PROVE  /\ DOMAIN used' = DOMAIN used \cup {p}
         /\ used'[p] = size /\ asked'[p] = alignment
         /\ \A x \in DOMAIN used : x # p /\ used'[x] = used[x] /\ asked'[x] = asked[x]
         /\ used' \in [DOMAIN used' -> Sizes] /\ DOMAIN used' \subseteq Ptr
         /\ asked' \in [DOMAIN used' -> Alignments]
         /\ usedSize' \in [val : Int, extreme : Int]
<1>1. /\ used' = Put(used, p, size)
      /\ asked' = Put(asked, p, alignment)
      /\ usedSize' = Increase(usedSize, size)
  BY DEF PushToUsed
<1>2. size \in Int
  BY SizesAssumption
<1>3. usedSize' \in [val : Int, extreme : Int]
  BY <1>1, <1>2, TotalsTyped DEF TypeOK
<1>4. used' = [x \in DOMAIN used \cup {p} |-> IF x = p THEN size ELSE used[x]]
  BY <1>1 DEF Put
<1>5. asked' = [x \in DOMAIN used \cup {p} |-> IF x = p THEN alignment ELSE asked[x]]
  <2>1. DOMAIN asked = DOMAIN used
    BY DEF TypeOK
  <2> QED BY <1>1, <2>1 DEF Put
<1> QED BY <1>3, <1>4, <1>5 DEF TypeOK

\* provide hands out a block of the cache, which leaves its list for the used map.
LEMMA ProvideFromCacheStep ==
  ASSUME IInv, NEW p \in Ptr, NEW size \in Sizes, NEW alignment \in Alignments,
         ProvideFromCache(p, size, alignment)
  PROVE  IInv'
<1>1. TypeOK /\ OneOwner /\ EveryBlockRecorded
  BY DEF IInv
<1>2. /\ inited /\ phase = "idle" /\ nCachedReused < MaxReused
      /\ PopFromCache(p, size, alignment)
      /\ PushToUsed(p, size, alignment)
      /\ nCachedReused' = nCachedReused + 1
      /\ UNCHANGED <<inited, useCache, nAlloc, heap, phase, crashed>>
  BY DEF ProvideFromCache, Ready
<1>3. /\ cached' \in Lists
      /\ NoRepeat(cached')
      /\ p \in CachedPtrs /\ p \in ToSet(cached[size])
      /\ IsAligned(p, alignment)
      /\ CachedPtrs' = CachedPtrs \ {p}
      /\ \A s \in Sizes : ToSet(cached'[s]) \subseteq ToSet(cached[s])
      /\ cachedSize' \in [val : Int, extreme : Int]
  BY <1>1, <1>2, PopFromCacheEffect
<1>4. p \notin DOMAIN used
  BY <1>1, <1>3 DEF OneOwner
<1>5. /\ DOMAIN used' = DOMAIN used \cup {p}
      /\ used'[p] = size /\ asked'[p] = alignment
      /\ \A x \in DOMAIN used : x # p /\ used'[x] = used[x] /\ asked'[x] = asked[x]
      /\ used' \in [DOMAIN used' -> Sizes] /\ DOMAIN used' \subseteq Ptr
      /\ asked' \in [DOMAIN used' -> Alignments]
      /\ usedSize' \in [val : Int, extreme : Int]
  BY <1>1, <1>2, <1>4, PushToUsedEffect
<1>6. TypeOK'
  <2>1. nCachedReused' \in 0..MaxReused
    BY <1>1, <1>2, BoundsAssumption DEF TypeOK
  <2> QED BY <1>1, <1>2, <1>3, <1>5, <2>1 DEF TypeOK, Lists
<1>7. OneOwner'
  BY <1>1, <1>3, <1>5, CacheVocabularyNext DEF OneOwner
<1>8. EveryBlockRecorded'
  <2>1. DOMAIN heap' = DOMAIN used' \cup CachedPtrs'
    BY <1>1, <1>2, <1>3, <1>5 DEF EveryBlockRecorded
  <2>2. \A x \in DOMAIN used' : heap'[x] = used'[x]
    BY <1>1, <1>2, <1>3, <1>5 DEF EveryBlockRecorded
  <2>3. \A s \in Sizes : \A x \in ToSet(cached'[s]) : heap'[x] = s
    BY <1>1, <1>2, <1>3 DEF EveryBlockRecorded
  <2> QED BY <2>1, <2>2, <2>3 DEF EveryBlockRecorded
<1>9. AlignmentHonoured'
  BY <1>3, <1>5 DEF IInv, AlignmentHonoured
<1>10. DefaultAligned'
  BY <1>2 DEF IInv, DefaultAligned
<1>11. WalkProgress'
  BY <1>2, <1>3 DEF IInv, WalkProgress
<1> QED BY <1>6, <1>7, <1>8, <1>9, <1>10, <1>11 DEF IInv

\* provide hands out a block the system allocates, recorded as used.
LEMMA ProvideFromSystemStep ==
  ASSUME IInv, NEW p \in Ptr, NEW size \in Sizes, NEW alignment \in Alignments,
         ProvideFromSystem(p, size, alignment)
  PROVE  IInv'
<1>1. TypeOK /\ OneOwner /\ EveryBlockRecorded
  BY DEF IInv
<1>2. /\ inited /\ phase = "idle" /\ nAlloc < MaxAlloc
      /\ p \notin DOMAIN heap /\ IsAligned(p, alignment)
      /\ heap' = Put(heap, p, size)
      /\ nAlloc' = nAlloc + 1
      /\ PushToUsed(p, size, alignment)
      /\ UNCHANGED <<inited, useCache, cached, cachedSize, nCachedReused, phase,
                     crashed>>
  BY DEF ProvideFromSystem, AllocateRaw, Ready
<1>3. p \notin DOMAIN used /\ p \notin CachedPtrs /\ CachedPtrs' = CachedPtrs
  BY <1>1, <1>2 DEF EveryBlockRecorded, CachedPtrs
<1>4. /\ DOMAIN used' = DOMAIN used \cup {p}
      /\ used'[p] = size /\ asked'[p] = alignment
      /\ \A x \in DOMAIN used : x # p /\ used'[x] = used[x] /\ asked'[x] = asked[x]
      /\ used' \in [DOMAIN used' -> Sizes] /\ DOMAIN used' \subseteq Ptr
      /\ asked' \in [DOMAIN used' -> Alignments]
      /\ usedSize' \in [val : Int, extreme : Int]
  BY <1>1, <1>2, <1>3, PushToUsedEffect
<1>5. /\ DOMAIN heap' = DOMAIN heap \cup {p}
      /\ heap'[p] = size
      /\ \A x \in DOMAIN heap : heap'[x] = heap[x]
      /\ heap' \in [DOMAIN heap' -> Sizes] /\ DOMAIN heap' \subseteq Ptr
  <2>1. heap' = [x \in DOMAIN heap \cup {p} |-> IF x = p THEN size ELSE heap[x]]
    BY <1>2 DEF Put
  <2> QED BY <1>1, <1>2, <2>1 DEF TypeOK
<1>6. TypeOK'
  <2>1. nAlloc' \in 0..MaxAlloc
    BY <1>1, <1>2, BoundsAssumption DEF TypeOK
  <2> QED BY <1>1, <1>2, <1>4, <1>5, <2>1 DEF TypeOK
<1>7. OneOwner'
  BY <1>1, <1>2, <1>3, <1>4, CacheVocabulary, CacheVocabularyNext
<1>8. EveryBlockRecorded'
  <2>1. DOMAIN heap' = DOMAIN used' \cup CachedPtrs'
    BY <1>1, <1>3, <1>4, <1>5 DEF EveryBlockRecorded
  <2>2. \A x \in DOMAIN used' : heap'[x] = used'[x]
    BY <1>1, <1>4, <1>5 DEF EveryBlockRecorded
  <2>3. \A s \in Sizes : \A x \in ToSet(cached[s]) : x \in DOMAIN heap
    BY <1>1 DEF EveryBlockRecorded, CachedPtrs
  <2>4. \A s \in Sizes : \A x \in ToSet(cached'[s]) : heap'[x] = s
    BY <1>1, <1>2, <1>5, <2>3 DEF EveryBlockRecorded
  <2> QED BY <2>1, <2>2, <2>4 DEF EveryBlockRecorded
<1>9. AlignmentHonoured'
  BY <1>2, <1>4 DEF IInv, AlignmentHonoured
<1>10. DefaultAligned'
  <2>1. IsAligned(p, DefaultAlignment)
    <3>1. p \in Nat /\ alignment \in Nat \ {0} /\ DefaultAlignment \in Nat \ {0}
          /\ alignment % DefaultAlignment = 0
      BY PtrAssumption, AlignmentAssumption
    <3> QED BY <1>2, <3>1, CoarserAlignment DEF IsAligned
  <2> QED BY <1>5, <2>1 DEF IInv, DefaultAligned
<1>11. WalkProgress'
  BY <1>2, <1>3 DEF IInv, WalkProgress
<1> QED BY <1>6, <1>7, <1>8, <1>9, <1>10, <1>11 DEF IInv

\* A turn of clearCache takes a block out of its list and frees it.
LEMMA ClearTurnStep ==
  ASSUME ~DeviceBuild, IInv, ClearTurn
  PROVE  IInv'
<1>1. TypeOK /\ OneOwner /\ EveryBlockRecorded
  BY DEF IInv
<1>2. PICK s \in Clearable, p \in Ptr :
         PopFromCache(p, s, DefaultAlignment) /\ DeAllocateRaw(p)
  BY DEF ClearTurn
<1>3. /\ phase = "clearing"
      /\ UNCHANGED <<inited, useCache, used, usedSize, nAlloc, nCachedReused,
                     asked, phase, crashed>>
  BY DEF ClearTurn, statistics
<1>4. s \in Sizes
  BY DEF Clearable
<1>5. /\ cached' \in Lists
      /\ NoRepeat(cached')
      /\ p \in CachedPtrs
      /\ CachedPtrs' = CachedPtrs \ {p}
      /\ \A t \in Sizes : ToSet(cached'[t]) \subseteq ToSet(cached[t])
      /\ cachedSize' \in [val : Int, extreme : Int]
  BY <1>1, <1>2, <1>4, PopFromCacheEffect
<1>6. heap' = Drop(heap, p)
  BY <1>2 DEF DeAllocateRaw
<1>7. /\ DOMAIN heap' = DOMAIN heap \ {p}
      /\ \A x \in DOMAIN heap' : heap'[x] = heap[x]
      /\ heap' = [x \in DOMAIN heap' |-> heap'[x]]
  BY <1>6 DEF Drop, Restrict
<1>8. TypeOK'
  <2>1. heap' \in [DOMAIN heap' -> Sizes] /\ DOMAIN heap' \subseteq Ptr
    BY <1>1, <1>7 DEF TypeOK
  <2> QED BY <1>1, <1>3, <1>5, <2>1 DEF TypeOK, Lists
<1>9. OneOwner'
  BY <1>1, <1>3, <1>5, CacheVocabularyNext DEF OneOwner
<1>10. EveryBlockRecorded'
  <2>1. p \notin DOMAIN used
    BY <1>1, <1>5 DEF OneOwner
  <2>2. DOMAIN heap' = DOMAIN used' \cup CachedPtrs'
    BY <1>1, <1>3, <1>5, <1>7, <2>1 DEF EveryBlockRecorded
  <2>3. \A x \in DOMAIN used' : heap'[x] = used'[x]
    BY <1>1, <1>3, <1>7, <2>1 DEF EveryBlockRecorded
  <2>4. \A t \in Sizes : \A x \in ToSet(cached'[t]) : x \in DOMAIN heap'
    BY <2>2 DEF CachedPtrs
  <2>5. \A t \in Sizes : \A x \in ToSet(cached'[t]) : heap'[x] = t
    BY <1>1, <1>5, <1>7, <2>4 DEF EveryBlockRecorded
  <2> QED BY <2>2, <2>3, <2>5 DEF EveryBlockRecorded
<1>11. AlignmentHonoured'
  BY <1>3 DEF IInv, AlignmentHonoured
<1>12. DefaultAligned'
  BY <1>7 DEF IInv, DefaultAligned
<1>13. WalkProgress'
  BY <1>3 DEF IInv, WalkProgress
<1> QED BY <1>8, <1>9, <1>10, <1>11, <1>12, <1>13 DEF IInv

------------------------------------------------------------------------------
(* The theorems.                                                           *)

\* Every step of the manager keeps the invariant.
LEMMA NextIInv ==
  ASSUME ~DeviceBuild, IInv, [Next]_vars
  PROVE  IInv'
<1>1. CASE Initialize
  BY <1>1, InitializeStep
<1>2. CASE EnableCache \/ DisableCache \/ ReleaseEnd \/ ClearEnd
  BY <1>2, ControlStep
<1>3. ASSUME NEW p \in Ptr, NEW s \in Sizes, NEW a \in Alignments,
             ProvideFromCache(p, s, a) \/ ProvideFromSystem(p, s, a)
      PROVE  IInv'
  BY <1>3, ProvideFromCacheStep, ProvideFromSystemStep
<1>4. ASSUME NEW s \in Sizes, NEW a \in Alignments, ProvideFails(s, a)
      PROVE  IInv'
  BY <1>4, CrashStep DEF ProvideFails
<1>5. ASSUME NEW p \in Ptr, Release(p) PROVE IInv'
  <2>1. CASE p \in DOMAIN used
    <3>1. GiveUp(p) /\ UNCHANGED phase
      BY <1>5, <2>1 DEF Release
    <3> QED BY <3>1, GiveUpStep
  <2>2. CASE p \notin DOMAIN used
    BY <1>5, <2>2, CrashStep DEF Release
  <2> QED BY <2>1, <2>2
<1>6. CASE Finalize
  <2>1. CASE inited
    BY <1>6, <2>1, ControlStep
  <2>2. CASE ~inited
    BY <1>6, <2>2, CrashStep DEF Finalize
  <2> QED BY <2>1, <2>2
<1>7. CASE ReleaseTurn
  <2>1. PICK p \in DOMAIN used : GiveUp(p)
    BY <1>7 DEF ReleaseTurn
  <2>2. p \in Ptr /\ UNCHANGED phase
    BY <1>7, <2>1 DEF IInv, TypeOK, ReleaseTurn
  <2> QED BY <2>1, <2>2, GiveUpStep
<1>8. CASE ClearTurn
  BY <1>8, ClearTurnStep
<1>9. CASE UNCHANGED vars
  BY <1>9, StutterStep
<1> QED BY <1>1, <1>2, <1>3, <1>4, <1>5, <1>6, <1>7, <1>8, <1>9 DEF Next, Loops

\* The inductive invariant holds in every state of a build that frees.
THEOREM Inductive == ASSUME ~DeviceBuild PROVE Spec => []IInv
<1>1. Init => IInv
  BY InitIInv
<1>2. IInv /\ [Next]_vars => IInv'
  BY NextIInv
<1> QED BY <1>1, <1>2, PTL DEF Spec

\* No block has two owners: none is in use and cached, none is listed twice.
THEOREM Ownership == ASSUME ~DeviceBuild PROVE Spec => []OneOwner
<1>1. IInv => OneOwner
  BY DEF IInv
<1> QED BY <1>1, Inductive, PTL

\* The maps of the manager and the blocks held from the system are the same.
THEOREM NoBlockLost == ASSUME ~DeviceBuild PROVE Spec => []EveryBlockRecorded
<1>1. IInv => EveryBlockRecorded
  BY DEF IInv
<1> QED BY <1>1, Inductive, PTL

\* Recycling never weakens the alignment a client asked for.
THEOREM Alignment == ASSUME ~DeviceBuild PROVE Spec => []AlignmentHonoured
<1>1. IInv => AlignmentHonoured
  BY DEF IInv
<1> QED BY <1>1, Inductive, PTL

\* disableCache() leaves an empty cache that stays empty.
THEOREM Disabled == ASSUME ~DeviceBuild PROVE Spec => []CacheEmptyWhenDisabled
<1>1. IInv => CacheEmptyWhenDisabled
  BY DEF IInv, WalkProgress, CacheEmptyWhenDisabled
<1> QED BY <1>1, Inductive, PTL

\* finalize() gives everything back, if alignments keep the default one.
THEOREM Finalized == ASSUME ~DeviceBuild PROVE Spec => []NothingLeftAfterFinalize
<1>1. IInv => NothingLeftAfterFinalize
  BY DEF IInv, WalkProgress, NothingLeftAfterFinalize, EveryBlockRecorded
<1> QED BY <1>1, Inductive, PTL

\* What each step is to the clients: a block lent, a block taken back, or
\* nothing.
LEMMA StepRefines ==
  ASSUME IInv, [Next]_vars
  PROVE  [Abstract!Next]_<<used, nAlloc + nCachedReused>>
<1> DEFINE seen == <<used, nAlloc + nCachedReused>>
<1>1. ASSUME UNCHANGED <<used, nAlloc, nCachedReused>> PROVE UNCHANGED seen
  BY <1>1
<1>2. ASSUME NEW p \in Ptr, NEW s \in Sizes, p \notin DOMAIN used,
             used' = Put(used, p, s),
             nAlloc' + nCachedReused' = nAlloc + nCachedReused + 1
      PROVE  Abstract!Next
  <2>1. Abstract!Lend(p, s)
    BY <1>2 DEF Abstract!Lend, Abstract!Put, Put
  <2> QED BY <2>1 DEF Abstract!Next
<1>3. ASSUME NEW p \in Ptr, GiveUp(p) PROVE Abstract!Next
  <2>1. Abstract!TakeBack(p)
    BY <1>3 DEF GiveUp, PopFromUsed, statistics, Abstract!TakeBack, Abstract!Drop,
                Abstract!Restrict, Drop, Restrict
  <2> QED BY <2>1 DEF Abstract!Next
<1>4. nAlloc \in Int /\ nCachedReused \in Int
  BY BoundsAssumption DEF IInv, TypeOK
<1>5. CASE Initialize \/ EnableCache \/ DisableCache \/ ReleaseEnd \/ ClearEnd
           \/ ClearTurn \/ Finalize \/ UNCHANGED vars
  <2>1. UNCHANGED <<used, nAlloc, nCachedReused>>
    BY <1>5 DEF Initialize, EnableCache, DisableCache, ReleaseEnd, ClearEnd, ClearTurn,
                Finalize, Crash, statistics, vars
  <2> QED BY <2>1, <1>1
<1>6. ASSUME NEW p \in Ptr, NEW s \in Sizes, NEW a \in Alignments,
             ProvideFromCache(p, s, a)
      PROVE  Abstract!Next
  <2>1. /\ PopFromCache(p, s, a) /\ used' = Put(used, p, s)
        /\ nCachedReused' = nCachedReused + 1 /\ nAlloc' = nAlloc
    BY <1>6 DEF ProvideFromCache, PushToUsed
  <2>2. p \notin DOMAIN used
    BY <2>1, PopFromCacheEffect DEF IInv, OneOwner
  <2> QED BY <1>2, <1>4, <2>1, <2>2
<1>7. ASSUME NEW p \in Ptr, NEW s \in Sizes, NEW a \in Alignments,
             ProvideFromSystem(p, s, a)
      PROVE  Abstract!Next
  <2>1. /\ used' = Put(used, p, s) /\ p \notin DOMAIN heap
        /\ nCachedReused' = nCachedReused /\ nAlloc' = nAlloc + 1
    BY <1>7 DEF ProvideFromSystem, AllocateRaw, PushToUsed
  <2>2. p \notin DOMAIN used
    BY <2>1 DEF IInv, EveryBlockRecorded
  <2> QED BY <1>2, <1>4, <2>1, <2>2
<1>8. ASSUME NEW s \in Sizes, NEW a \in Alignments, ProvideFails(s, a)
      PROVE  UNCHANGED seen
  BY <1>8, <1>1 DEF ProvideFails, Crash
<1>9. ASSUME NEW p \in Ptr, Release(p) PROVE Abstract!Next \/ UNCHANGED seen
  <2>1. CASE p \in DOMAIN used
    BY <1>9, <2>1, <1>3 DEF Release
  <2>2. CASE p \notin DOMAIN used
    BY <1>9, <2>2, <1>1 DEF Release, Crash
  <2> QED BY <2>1, <2>2
<1>10. CASE ReleaseTurn
  <2>1. PICK p \in DOMAIN used : GiveUp(p)
    BY <1>10 DEF ReleaseTurn
  <2>2. p \in Ptr
    BY <2>1 DEF IInv, TypeOK
  <2> QED BY <2>1, <2>2, <1>3
<1> QED BY <1>5, <1>6, <1>7, <1>8, <1>9, <1>10 DEF Next, Loops

\* The manager is an allocator: a block it lends is one that nobody holds.
THEOREM Refinement == ASSUME ~DeviceBuild PROVE Spec => ImplementsAllocator
<1>1. Init => Abstract!Init
  BY DEF Init, Abstract!Init, EmptyMap, Abstract!EmptyMap
<1>2. IInv /\ [Next]_vars => [Abstract!Next]_<<used, nAlloc + nCachedReused>>
  BY StepRefines
<1> QED BY <1>1, <1>2, Inductive, PTL DEF Spec, ImplementsAllocator, Abstract!Spec

------------------------------------------------------------------------------
(* Sums over maps. The library adds up the values of a function by a          *)
(* recursive function, that picks one key after the other; an induction on    *)
(* the set of keys becomes the choice of a smallest set of keys on which a    *)
(* claim fails.                                                               *)

\* The key that is added next.
Pick(s) == CHOOSE x \in s : TRUE

\* g says what the values of f on each set of keys in D add up to.
SumsOn(f, D, g) ==
  g = [s \in SUBSET D |-> IF s = {} THEN 0 ELSE f[Pick(s)] + g[s \ {Pick(s)}]]

\* Among subsets of a finite set there are minimal ones.
LEMMA FiniteMin ==
  ASSUME NEW S, IsFiniteSet(S), NEW T \in SUBSET (SUBSET S), T # {}
  PROVE  \E x \in T : \A y \in T : ~(y \subseteq x /\ y # x)
<1>1. IsWellFoundedOn(StrictSubsetOrdering(S), SUBSET S)
  BY FS_StrictSubsetOrderingWellFounded, FS_FiniteSubsetsOfFinite
<1>2. \E x \in T : \A y \in T : ~ (<<y, x>> \in StrictSubsetOrdering(S))
  BY <1>1, WFMin
<1> QED BY <1>2 DEF StrictSubsetOrdering

\* Functions that agree on some keys have the same sums on them.
LEMMA SumsAgree ==
  ASSUME NEW D, NEW f, NEW g, SumsOn(f, D, g),
         NEW E, NEW e, NEW h, SumsOn(e, E, h),
         NEW S, IsFiniteSet(S), S \subseteq D, S \subseteq E,
         \A x \in S : f[x] = e[x]
  PROVE  \A s \in SUBSET S : g[s] = h[s]
<1> DEFINE T == {s \in SUBSET S : g[s] # h[s]}
<1> SUFFICES ASSUME T # {} PROVE FALSE
  OBVIOUS
<1>1. PICK s \in T : \A y \in T : ~(y \subseteq s /\ y # s)
  <2>1. T \in SUBSET (SUBSET S)
    OBVIOUS
  <2> HIDE DEF T
  <2> QED BY <2>1, FiniteMin
<1>2. /\ g[s] = IF s = {} THEN 0 ELSE f[Pick(s)] + g[s \ {Pick(s)}]
      /\ h[s] = IF s = {} THEN 0 ELSE e[Pick(s)] + h[s \ {Pick(s)}]
  BY DEF SumsOn
<1>3. s # {} /\ Pick(s) \in s
  BY <1>2 DEF Pick
<1>4. g[s \ {Pick(s)}] = h[s \ {Pick(s)}]
  BY <1>1, <1>3
<1> QED BY <1>2, <1>3, <1>4

\* Whatever has to be added up, there is a sum.
LEMMA SumsExist ==
  ASSUME NEW S, IsFiniteSet(S), NEW f
  PROVE  \E g : SumsOn(f, S, g)
<1> DEFINE T == {D \in SUBSET S : ~ \E g : SumsOn(f, D, g)}
<1> SUFFICES ASSUME T # {} PROVE FALSE
  OBVIOUS
<1>1. PICK D \in T : \A y \in T : ~(y \subseteq D /\ y # D)
  <2>1. T \in SUBSET (SUBSET S)
    OBVIOUS
  <2> HIDE DEF T
  <2> QED BY <2>1, FiniteMin
<1> DEFINE of(s) == CHOOSE g : SumsOn(f, s, g)
           before(s) == of(s \ {Pick(s)})[s \ {Pick(s)}]
           G == [s \in SUBSET D |-> IF s = {} THEN 0 ELSE f[Pick(s)] + before(s)]
<1>2. \A s \in SUBSET D : s # D => SumsOn(f, s, of(s))
  BY <1>1
<1>3. \A s \in SUBSET D : s # {} => Pick(s) \in s
  BY DEF Pick
<1>4. \A s \in SUBSET D : s # D => of(s)[s] = G[s]
  <2> TAKE s \in SUBSET D
  <2> HAVE s # D
  <2> HIDE DEF of
  <2>1. of(s)[s] = IF s = {} THEN 0 ELSE f[Pick(s)] + of(s)[s \ {Pick(s)}]
    BY <1>2 DEF SumsOn
  <2> DEFINE r == s \ {Pick(s)}
  <2>2. ASSUME s # {} PROVE of(s)[r] = of(r)[r]
    <3>1. SumsOn(f, s, of(s)) /\ SumsOn(f, r, of(r)) /\ IsFiniteSet(r)
      BY <1>2, <1>3, <2>2, FS_Subset
    <3> HIDE DEF r
    <3>2. \A t \in SUBSET r : of(s)[t] = of(r)[t]
      <4>1. r \subseteq s
        BY DEF r
      <4> QED BY <3>1, <4>1, SumsAgree
    <3> QED BY <3>2
  <2> QED BY <2>1, <2>2
<1>5. SumsOn(f, D, G)
  <2> SUFFICES ASSUME NEW s \in SUBSET D, s # {}
               PROVE  before(s) = G[s \ {Pick(s)}]
    <3>1. \A s \in SUBSET D : s # {} => s \ {Pick(s)} \in SUBSET D
      OBVIOUS
    <3> HIDE DEF of
    <3> QED BY <3>1 DEF SumsOn
  <2> QED BY <1>3, <1>4
<1> QED BY <1>5, <1>1

\* The library's sum is the value of that function.
LEMMA SumIsThere ==
  ASSUME NEW f, NEW D, IsFiniteSet(D)
  PROVE  \E g : SumsOn(f, D, g) /\ SumFunctionOnSet(f, D) = g[D]
<1> DEFINE G == CHOOSE g : SumsOn(f, D, g)
<1>1. SumsOn(f, D, G) 
  BY SumsExist
<1>2. SumFunctionOnSet(f, D) = G[D]
  BY DEF SumFunctionOnSet, FoldFunctionOnSet, MapThenFoldSet, SumsOn, Pick
<1> QED BY <1>1, <1>2

\* The sums of integers are integers.
LEMMA SumsTyped ==
  ASSUME NEW D, IsFiniteSet(D), NEW f, \A x \in D : f[x] \in Int,
         NEW g, SumsOn(f, D, g)
  PROVE  \A s \in SUBSET D : g[s] \in Int
<1> DEFINE T == {s \in SUBSET D : g[s] \notin Int}
<1> SUFFICES ASSUME T # {} PROVE FALSE
  OBVIOUS
<1>1. PICK s \in T : \A y \in T : ~(y \subseteq s /\ y # s)
  <2>1. T \in SUBSET (SUBSET D)
    OBVIOUS
  <2> HIDE DEF T
  <2> QED BY <2>1, FiniteMin
<1>2. g[s] = IF s = {} THEN 0 ELSE f[Pick(s)] + g[s \ {Pick(s)}]
  BY DEF SumsOn
<1>3. s # {} /\ Pick(s) \in s
  BY <1>2 DEF Pick
<1>4. g[s \ {Pick(s)}] \in Int /\ f[Pick(s)] \in Int
  BY <1>1, <1>3
<1> QED BY <1>2, <1>3, <1>4

\* Any key may be the last that is added, not only the one that is picked.
LEMMA AnyOrder ==
  ASSUME NEW D, IsFiniteSet(D), NEW f, \A x \in D : f[x] \in Int,
         NEW g, SumsOn(f, D, g)
  PROVE  \A s \in SUBSET D : \A k \in s : g[s] = f[k] + g[s \ {k}]
<1> DEFINE T == {s \in SUBSET D : \E k \in s : g[s] # f[k] + g[s \ {k}]}
<1> SUFFICES ASSUME T # {} PROVE FALSE
  OBVIOUS
<1>1. PICK s \in T : \A y \in T : ~(y \subseteq s /\ y # s)
  <2>1. T \in SUBSET (SUBSET D)
    OBVIOUS
  <2> HIDE DEF T
  <2> QED BY <2>1, FiniteMin
<1>2. PICK k \in s : g[s] # f[k] + g[s \ {k}]
  OBVIOUS
<1> DEFINE p == Pick(s)
<1>3. p \in s
  BY <1>2 DEF Pick
<1>4. g[s] = f[p] + g[s \ {p}]
  BY <1>2 DEF SumsOn
<1>5. p # k
  BY <1>2, <1>4
<1> HIDE DEF p
<1>6. \A r \in SUBSET s : r # s => \A x \in r : g[r] = f[x] + g[r \ {x}]
  BY <1>1
<1>7. /\ g[s \ {p}] = f[k] + g[(s \ {p}) \ {k}]
      /\ g[s \ {k}] = f[p] + g[(s \ {k}) \ {p}]
  <2>1. s \ {p} # s /\ k \in s \ {p} /\ s \ {k} # s /\ p \in s \ {k}
    BY <1>3, <1>5
  <2> QED BY <2>1, <1>6
<1>8. (s \ {p}) \ {k} = (s \ {k}) \ {p}
  OBVIOUS
<1>9. f[k] \in Int /\ f[p] \in Int /\ g[(s \ {k}) \ {p}] \in Int
  <2>1. \A t \in SUBSET D : g[t] \in Int
    BY SumsTyped
  <2> QED BY <1>3, <2>1
<1>10. \A a, b, c \in Int : a + (b + c) = b + (a + c)
  OBVIOUS
<1>11. g[s] = f[p] + (f[k] + g[(s \ {k}) \ {p}])
  BY <1>4, <1>7, <1>8
<1>12. g[s] = f[k] + (f[p] + g[(s \ {k}) \ {p}])
  BY <1>9, <1>10, <1>11
<1> QED BY <1>2, <1>7, <1>12

\* Nothing adds up to zero.
LEMMA SumOfNothing == \A f : SumFunctionOnSet(f, {}) = 0
<1> TAKE f
<1>1. PICK g : SumsOn(f, {}, g) /\ SumFunctionOnSet(f, {}) = g[{}]
  BY SumIsThere, FS_EmptySet
<1> QED BY <1>1 DEF SumsOn

\* Zeros add up to zero.
LEMMA SumOfZeros ==
  ASSUME NEW D, IsFiniteSet(D), NEW f, \A x \in D : f[x] = 0
  PROVE  SumFunctionOnSet(f, D) = 0
<1>1. PICK g : SumsOn(f, D, g) /\ SumFunctionOnSet(f, D) = g[D]
  BY SumIsThere
<1> DEFINE T == {s \in SUBSET D : g[s] # 0}
<1> SUFFICES ASSUME T # {} PROVE FALSE
  BY <1>1
<1>2. PICK s \in T : \A y \in T : ~(y \subseteq s /\ y # s)
  <2>1. T \in SUBSET (SUBSET D)
    OBVIOUS
  <2> HIDE DEF T
  <2> QED BY <2>1, FiniteMin
<1>3. g[s] = IF s = {} THEN 0 ELSE f[Pick(s)] + g[s \ {Pick(s)}]
  BY <1>1 DEF SumsOn
<1>4. s # {} /\ Pick(s) \in s
  BY <1>3 DEF Pick
<1>5. g[s \ {Pick(s)}] = 0 /\ f[Pick(s)] = 0
  BY <1>2, <1>4
<1> QED BY <1>3, <1>4, <1>5

\* What a sum loses when a key is left out, whatever other function gives the
\* values of the others.
LEMMA SumWithout ==
  ASSUME NEW D, IsFiniteSet(D), NEW f, \A x \in D : f[x] \in Int,
         NEW k \in D, NEW e, \A x \in D \ {k} : e[x] = f[x]
  PROVE  /\ SumFunctionOnSet(f, D) = f[k] + SumFunctionOnSet(e, D \ {k})
         /\ SumFunctionOnSet(e, D \ {k}) \in Int
<1> DEFINE E == D \ {k}
<1>1. IsFiniteSet(E) /\ \A x \in E : e[x] \in Int
  BY FS_Subset
<1>2. PICK g : SumsOn(f, D, g) /\ SumFunctionOnSet(f, D) = g[D]
  BY SumIsThere
<1>3. PICK h : SumsOn(e, E, h) /\ SumFunctionOnSet(e, E) = h[E]
  BY <1>1, SumIsThere
<1>4. g[D] = f[k] + g[E]
  BY <1>2, AnyOrder
<1>5. g[E] = h[E]
  <2>1. \A s \in SUBSET E : g[s] = h[s]
    BY <1>1, <1>2, <1>3, SumsAgree
  <2> QED BY <2>1
<1>6. h[E] \in Int
  BY <1>1, <1>3, SumsTyped
<1> QED BY <1>2, <1>3, <1>4, <1>5, <1>6

\* A new key of a map adds its value to the sum.
LEMMA SumPut ==
  ASSUME NEW m, IsFiniteSet(DOMAIN m), \A x \in DOMAIN m : m[x] \in Int,
         NEW k, k \notin DOMAIN m, NEW v \in Int
  PROVE  /\ SumFunction(Put(m, k, v)) = SumFunction(m) + v
         /\ IsFiniteSet(DOMAIN Put(m, k, v))
<1> DEFINE n == Put(m, k, v)
<1>1. DOMAIN n = DOMAIN m \cup {k} /\ n[k] = v /\ \A x \in DOMAIN m : n[x] = m[x]
  BY DEF Put
<1>2. IsFiniteSet(DOMAIN n)
  BY <1>1, FS_AddElement
<1>3. DOMAIN n \ {k} = DOMAIN m
  BY <1>1
<1> HIDE DEF n
<1>4. /\ SumFunctionOnSet(n, DOMAIN n) = v + SumFunctionOnSet(m, DOMAIN m)
      /\ SumFunctionOnSet(m, DOMAIN m) \in Int
  BY <1>1, <1>2, <1>3, SumWithout
<1>5. SumFunction(n) = SumFunction(m) + v
  BY <1>4 DEF SumFunction
<1> QED BY <1>2, <1>5 DEF n

\* An erased key takes its value out of the sum.
LEMMA SumDrop ==
  ASSUME NEW m, IsFiniteSet(DOMAIN m), \A x \in DOMAIN m : m[x] \in Int,
         NEW k \in DOMAIN m
  PROVE  /\ SumFunction(Drop(m, k)) = SumFunction(m) - m[k]
         /\ IsFiniteSet(DOMAIN Drop(m, k))
<1> DEFINE n == Drop(m, k)
<1>1. DOMAIN n = DOMAIN m \ {k} /\ \A x \in DOMAIN m \ {k} : n[x] = m[x]
  BY DEF Drop, Restrict
<1>2. IsFiniteSet(DOMAIN n)
  BY <1>1, FS_Subset
<1> HIDE DEF n
<1>3. /\ SumFunctionOnSet(m, DOMAIN m) = m[k] + SumFunctionOnSet(n, DOMAIN n)
      /\ SumFunctionOnSet(n, DOMAIN n) \in Int
  BY <1>1, SumWithout
<1>4. SumFunction(n) = SumFunction(m) - m[k]
  BY <1>3 DEF SumFunction
<1> QED BY <1>2, <1>4 DEF n

\* Changing one value changes the sum by as much.
LEMMA SumChange ==
  ASSUME NEW D, IsFiniteSet(D), NEW m \in [D -> Int], NEW n \in [D -> Int],
         NEW k \in D, \A x \in D \ {k} : n[x] = m[x]
  PROVE  SumFunction(n) = SumFunction(m) - m[k] + n[k]
<1>1. /\ SumFunctionOnSet(m, D) = m[k] + SumFunctionOnSet(m, D \ {k})
      /\ SumFunctionOnSet(n, D) = n[k] + SumFunctionOnSet(m, D \ {k})
      /\ SumFunctionOnSet(m, D \ {k}) \in Int
  BY SumWithout
<1>2. m[k] \in Int /\ n[k] \in Int /\ DOMAIN m = D /\ DOMAIN n = D
  OBVIOUS
<1> QED BY <1>1, <1>2 DEF SumFunction

\* The sum of a function of integers is an integer.
LEMMA SumTyped ==
  ASSUME NEW D, IsFiniteSet(D), NEW m \in [D -> Int]
  PROVE  SumFunction(m) \in Int
<1>1. DOMAIN m = D /\ \A x \in D : m[x] \in Int
  OBVIOUS
<1>2. PICK g : SumsOn(m, D, g) /\ SumFunctionOnSet(m, D) = g[D]
  BY SumIsThere
<1>3. g[D] \in Int
  <2>1. \A s \in SUBSET D : g[s] \in Int
    BY <1>1, <1>2, SumsTyped
  <2> QED BY <2>1
<1> QED BY <1>1, <1>2, <1>3 DEF SumFunction

------------------------------------------------------------------------------
(* The totals of the manager.                                                 *)

\* The bytes in each list of the cache.
Bytes(c) == [s \in Sizes |-> s * Len(c[s])]

TotalsInv == /\ IInv
             /\ IsFiniteSet(DOMAIN used)
             /\ TotalsMatchMaps

\* The totals and their maxima, in the names of the lemmas on sums.
LEMMA TotalsVocabulary ==
  /\ TotalsMatchMaps <=> /\ usedSize.val = SumFunction(used)
                         /\ cachedSize.val = SumFunction(Bytes(cached))
                         /\ usedSize.val <= usedSize.extreme
                         /\ cachedSize.val <= cachedSize.extreme
  /\ TotalsMatchMaps' <=> /\ usedSize'.val = SumFunction(used')
                          /\ cachedSize'.val = SumFunction(Bytes(cached'))
                          /\ usedSize'.val <= usedSize'.extreme
                          /\ cachedSize'.val <= cachedSize'.extreme
BY DEF TotalsMatchMaps, Bytes

\* A value with its maximum stays below it, whatever is done with it.
LEMMA MaximumBounds ==
  ASSUME NEW v \in [val : Int, extreme : Int], NEW d \in Int
  PROVE  /\ Increase(v, d).val = v.val + d
         /\ Decrease(v, d).val = v.val - d
         /\ Assign(v, d).val = d
         /\ Increase(v, d).val <= Increase(v, d).extreme
         /\ v.val <= v.extreme => /\ Decrease(v, d).val <= Decrease(v, d).extreme
                                  /\ Assign(v, d).val <= Assign(v, d).extreme
BY DEF Increase, Decrease, Assign

\* A list that gets or loses a block counts for one block more or less.
LEMMA BytesMove ==
  ASSUME IsFiniteSet(Sizes), NEW c \in Lists, NEW d \in Lists, NEW size \in Sizes,
         \A s \in Sizes \ {size} : d[s] = c[s], NEW n \in Int,
         Len(d[size]) = Len(c[size]) + n
  PROVE  SumFunction(Bytes(d)) = SumFunction(Bytes(c)) + size * n
<1>1. \A s \in Sizes : s \in Int /\ Len(c[s]) \in Int /\ Len(d[s]) \in Int
  BY SizesAssumption, LenProperties DEF Lists
<1>2. Bytes(c) \in [Sizes -> Int] /\ Bytes(d) \in [Sizes -> Int]
  BY <1>1 DEF Bytes
<1>3. \A s \in Sizes \ {size} : Bytes(d)[s] = Bytes(c)[s]
  BY DEF Bytes
<1>4. SumFunction(Bytes(d)) = SumFunction(Bytes(c)) - Bytes(c)[size] + Bytes(d)[size]
  BY <1>2, <1>3, SumChange
<1>5. Bytes(d)[size] = Bytes(c)[size] + size * n
  <2>1. size * (Len(c[size]) + n) = size * Len(c[size]) + size * n
    BY <1>1
  <2> QED BY <2>1 DEF Bytes
<1>6. SumFunction(Bytes(c)) \in Int /\ Bytes(c)[size] \in Int /\ size * n \in Int
  BY <1>1, <1>2, SumTyped
<1>7. \A x, y, z \in Int : x - y + (y + z) = x + z
  OBVIOUS
<1>8. SumFunction(Bytes(d)) = SumFunction(Bytes(c)) - Bytes(c)[size]
                              + (Bytes(c)[size] + size * n)
  BY <1>4, <1>5
<1> QED BY <1>6, <1>7, <1>8


\* Of the map of used blocks and its total.
UsedTotal == /\ IsFiniteSet(DOMAIN used)
             /\ usedSize.val = SumFunction(used)
             /\ usedSize.val <= usedSize.extreme

\* Of the cache and its total.
CacheTotal == /\ cachedSize.val = SumFunction(Bytes(cached))
              /\ cachedSize.val <= cachedSize.extreme

LEMMA TotalsAreTwo == /\ TotalsInv <=> IInv /\ UsedTotal /\ CacheTotal
                      /\ TotalsInv' <=> IInv' /\ UsedTotal' /\ CacheTotal'
BY TotalsVocabulary DEF TotalsInv, UsedTotal, CacheTotal

\* Neither map nor total is touched.
LEMMA TotalsStay ==
  /\ UsedTotal /\ UNCHANGED <<used, usedSize>> => UsedTotal'
  /\ CacheTotal /\ UNCHANGED <<cached, cachedSize>> => CacheTotal'
BY DEF UsedTotal, CacheTotal, Bytes

\* A block lent is counted when it is recorded.
LEMMA LentIsCounted ==
  ASSUME TypeOK, UsedTotal, NEW p, p \notin DOMAIN used, NEW size \in Sizes,
         NEW alignment, PushToUsed(p, size, alignment)
  PROVE  UsedTotal'
<1>1. size \in Int /\ \A x \in DOMAIN used : used[x] \in Int
  BY SizesAssumption DEF TypeOK
<1>2. used' = Put(used, p, size) /\ usedSize' = Increase(usedSize, size)
  BY DEF PushToUsed
<1>3. /\ SumFunction(used') = SumFunction(used) + size
      /\ IsFiniteSet(DOMAIN used')
  BY <1>1, <1>2, SumPut DEF UsedTotal
<1>4. usedSize'.val = usedSize.val + size /\ usedSize'.val <= usedSize'.extreme
  BY <1>1, <1>2, MaximumBounds DEF TypeOK
<1> QED BY <1>3, <1>4 DEF UsedTotal

\* A block taken back is no longer counted.
LEMMA TakenIsUncounted ==
  ASSUME TypeOK, UsedTotal, NEW p, PopFromUsed(p)
  PROVE  UsedTotal'
<1>1. \A x \in DOMAIN used : used[x] \in Int
  BY SizesAssumption DEF TypeOK
<1>2. /\ p \in DOMAIN used
      /\ used' = Drop(used, p) /\ usedSize' = Decrease(usedSize, used[p])
  BY DEF PopFromUsed
<1>3. /\ SumFunction(used') = SumFunction(used) - used[p]
      /\ IsFiniteSet(DOMAIN used')
  BY <1>1, <1>2, SumDrop DEF UsedTotal
<1>4. /\ usedSize'.val = usedSize.val - used[p]
      /\ usedSize'.val <= usedSize'.extreme
  BY <1>1, <1>2, MaximumBounds DEF TypeOK, UsedTotal
<1> QED BY <1>3, <1>4 DEF UsedTotal

\* A block sent to the cache counts there by the size of its list.
LEMMA CachedIsCounted ==
  ASSUME IsFiniteSet(Sizes), TypeOK, CacheTotal, NEW p \in Ptr, NEW size \in Sizes,
         PushToCache(p, size)
  PROVE  CacheTotal'
<1>1. cached \in Lists /\ cached[size] \in Seq(Ptr) /\ size \in Int
  BY SizesAssumption DEF TypeOK, Lists
<1>2. /\ cached' = [cached EXCEPT ![size] = Append(@, p)]
      /\ cachedSize' = Increase(cachedSize, size)
  BY DEF PushToCache
<1>3. /\ Append(cached[size], p) \in Seq(Ptr)
      /\ Len(Append(cached[size], p)) = Len(cached[size]) + 1
  BY <1>1
<1>4. /\ cached' \in Lists
      /\ cached'[size] = Append(cached[size], p)
      /\ \A s \in Sizes \ {size} : cached'[s] = cached[s]
  BY <1>1, <1>2, <1>3 DEF Lists
<1>5. SumFunction(Bytes(cached')) = SumFunction(Bytes(cached)) + size * 1
  BY <1>1, <1>3, <1>4, BytesMove
<1>6. cachedSize'.val = cachedSize.val + size /\ cachedSize'.val <= cachedSize'.extreme
  BY <1>1, <1>2, MaximumBounds DEF TypeOK
<1> QED BY <1>1, <1>5, <1>6 DEF CacheTotal

\* A block popped, by a request or by clearCache, takes its bytes with it.
LEMMA PoppedIsUncounted ==
  ASSUME IsFiniteSet(Sizes), TypeOK, CacheTotal, NEW p, NEW size \in Sizes,
         NEW alignment, PopFromCache(p, size, alignment)
  PROVE  CacheTotal'
<1>1. cached \in Lists /\ cached[size] \in Seq(Ptr) /\ size \in Int
  BY SizesAssumption DEF TypeOK, Lists
<1>2. PICK i \in 1..Len(cached[size]) :
         /\ cached' = [cached EXCEPT ![size] = RemoveAt(@, i)]
         /\ cachedSize' = Decrease(cachedSize, size)
  BY DEF PopFromCache, Fitting
<1>3. /\ RemoveAt(cached[size], i) \in Seq(Ptr)
      /\ Len(RemoveAt(cached[size], i)) = Len(cached[size]) - 1
  BY <1>1, RemoveAtProperties
<1>4. /\ cached' \in Lists
      /\ cached'[size] = RemoveAt(cached[size], i)
      /\ \A s \in Sizes \ {size} : cached'[s] = cached[s]
  BY <1>1, <1>2, <1>3 DEF Lists
<1>5. PICK n \in Int : n = -1
  OBVIOUS
<1>6. SumFunction(Bytes(cached')) = SumFunction(Bytes(cached)) + size * n
  <2>1. Len(cached'[size]) = Len(cached[size]) + n
    BY <1>1, <1>3, <1>4, <1>5, LenProperties
  <2> QED BY <1>1, <1>4, <2>1, BytesMove
<1>7. /\ cachedSize'.val = cachedSize.val - size
      /\ cachedSize'.val <= cachedSize'.extreme
  BY <1>1, <1>2, MaximumBounds DEF TypeOK, CacheTotal
<1>8. cachedSize.val \in Int /\ size * n = - size
  BY <1>1, <1>5 DEF TypeOK
<1>9. cachedSize.val - size = SumFunction(Bytes(cached)) + size * n
  BY <1>1, <1>8 DEF CacheTotal
<1> QED BY <1>6, <1>7, <1>9 DEF CacheTotal

\* initialize zeroes the totals without looking at the maps: a manager that is
\* not initialized holds nothing.
LEMMA NothingCountsNothing ==
  ASSUME IsFiniteSet(Sizes), TypeOK, DOMAIN used = {}, CachedPtrs = {}
  PROVE  SumFunction(used) = 0 /\ SumFunction(Bytes(cached)) = 0
<1>1. SumFunction(used) = 0
  BY SumOfNothing DEF SumFunction
<1>2. \A s \in Sizes : cached[s] = << >>
  <2> SUFFICES ASSUME NEW s \in Sizes, cached[s] # << >> PROVE FALSE
    OBVIOUS
  <2>1. cached \in Lists /\ cached[s] \in Seq(Ptr)
    BY DEF TypeOK, Lists
  <2>2. 1 \in 1..Len(cached[s])
    BY <2>1, EmptySeq, LenProperties
  <2>3. cached[s][1] \in Listed(cached)
    BY <2>1, <2>2, ListedElements
  <2> QED BY <2>3, CacheVocabulary
<1>3. \A s \in Sizes : Bytes(cached)[s] = 0
  <2>1. \A s \in Sizes : s \in Int /\ Len(cached[s]) = 0
    BY <1>2, SizesAssumption
  <2>2. \A x \in Int : x * 0 = 0
    OBVIOUS
  <2> QED BY <2>1, <2>2 DEF Bytes
<1>4. SumFunction(Bytes(cached)) = 0
  <2>1. DOMAIN Bytes(cached) = Sizes
    BY DEF Bytes
  <2> QED BY <1>3, <2>1, SumOfZeros DEF SumFunction
<1> QED BY <1>1, <1>4


\* A release: the block and its bytes go from one total to the other, or out.
LEMMA GivenUpCounted ==
  ASSUME IsFiniteSet(Sizes), TotalsInv, NEW p, GiveUp(p)
  PROVE  UsedTotal' /\ CacheTotal'
<1>1. TypeOK /\ UsedTotal /\ CacheTotal
  BY TotalsAreTwo DEF IInv
<1>2. PopFromUsed(p)
  BY DEF GiveUp
<1>3. p \in Ptr /\ used[p] \in Sizes
  BY <1>1, <1>2 DEF PopFromUsed, TypeOK
<1>4. UsedTotal'
  BY <1>1, <1>2, TakenIsUncounted
<1>5. CASE useCache
  BY <1>1, <1>3, <1>4, <1>5, CachedIsCounted DEF GiveUp
<1>6. CASE ~useCache
  BY <1>1, <1>4, <1>6, TotalsStay DEF GiveUp
<1> QED BY <1>5, <1>6

\* A request that finds a block in the cache moves its bytes.
LEMMA RecycledCounted ==
  ASSUME IsFiniteSet(Sizes), TotalsInv, NEW p, NEW size \in Sizes, NEW alignment,
         ProvideFromCache(p, size, alignment)
  PROVE  UsedTotal' /\ CacheTotal'
<1>1. TypeOK /\ OneOwner /\ UsedTotal /\ CacheTotal
  BY TotalsAreTwo DEF IInv
<1>2. PopFromCache(p, size, alignment) /\ PushToUsed(p, size, alignment)
  BY DEF ProvideFromCache
<1>3. p \notin DOMAIN used
  BY <1>1, <1>2, PopFromCacheEffect DEF OneOwner
<1> QED BY <1>1, <1>2, <1>3, LentIsCounted, PoppedIsUncounted

\* A request that the system serves adds its bytes.
LEMMA AllocatedCounted ==
  ASSUME TotalsInv, NEW p, NEW size \in Sizes, NEW alignment,
         ProvideFromSystem(p, size, alignment)
  PROVE  UsedTotal' /\ CacheTotal'
<1>1. TypeOK /\ EveryBlockRecorded /\ UsedTotal /\ CacheTotal
  BY TotalsAreTwo DEF IInv
<1>2. /\ PushToUsed(p, size, alignment) /\ UNCHANGED <<cached, cachedSize>>
      /\ p \notin DOMAIN heap
  BY DEF ProvideFromSystem, AllocateRaw
<1>3. p \notin DOMAIN used
  BY <1>1, <1>2 DEF EveryBlockRecorded
<1> QED BY <1>1, <1>2, <1>3, LentIsCounted, TotalsStay

\* initialize finds empty maps.
LEMMA InitializedCounted ==
  ASSUME IsFiniteSet(Sizes), TotalsInv, Initialize
  PROVE  UsedTotal' /\ CacheTotal'
<1>1. TypeOK /\ WalkProgress /\ UsedTotal /\ CacheTotal
  BY TotalsAreTwo DEF IInv
<1>2. CASE inited
  BY <1>1, <1>2, TotalsStay DEF Initialize, Crash
<1>3. CASE ~inited
  <2>1. /\ phase = "idle" /\ used' = used /\ cached' = cached
        /\ usedSize' = Assign(usedSize, 0) /\ cachedSize' = Assign(cachedSize, 0)
    BY <1>3 DEF Initialize, Ready
  <2>2. DOMAIN used = {} /\ CachedPtrs = {}
    BY <1>1, <1>3, <2>1 DEF WalkProgress
  <2>3. SumFunction(used) = 0 /\ SumFunction(Bytes(cached)) = 0
    BY <1>1, <2>2, NothingCountsNothing
  <2>4. /\ usedSize'.val = 0 /\ usedSize'.val <= usedSize'.extreme
        /\ cachedSize'.val = 0 /\ cachedSize'.val <= cachedSize'.extreme
    <3>1. usedSize.val <= usedSize.extreme /\ cachedSize.val <= cachedSize.extreme
      BY <1>1 DEF UsedTotal, CacheTotal
    <3>2. /\ usedSize \in [val : Int, extreme : Int] /\ 0 \in Int
          /\ cachedSize \in [val : Int, extreme : Int]
      BY <1>1 DEF TypeOK
    <3>3. usedSize'.val = 0 /\ usedSize'.val <= usedSize'.extreme
      BY <2>1, <3>1, <3>2, MaximumBounds
    <3>4. cachedSize'.val = 0 /\ cachedSize'.val <= cachedSize'.extreme
      BY <2>1, <3>1, <3>2, MaximumBounds
    <3> QED BY <3>3, <3>4
  <2> QED BY <1>1, <2>1, <2>3, <2>4 DEF UsedTotal, CacheTotal
<1> QED BY <1>2, <1>3

\* Every step keeps both totals.
LEMMA NextTotals ==
  ASSUME ~DeviceBuild, IsFiniteSet(Sizes), TotalsInv, [Next]_vars
  PROVE  TotalsInv'
<1>1. IInv /\ TypeOK /\ UsedTotal /\ CacheTotal
  BY TotalsAreTwo DEF IInv
<1>2. IInv'
  BY <1>1, NextIInv
<1>3. SUFFICES UsedTotal' /\ CacheTotal'
  BY <1>2, TotalsAreTwo
<1>4. CASE Initialize
  BY <1>4, InitializedCounted
<1>5. CASE EnableCache \/ DisableCache \/ Finalize \/ ReleaseEnd \/ ClearEnd
           \/ UNCHANGED vars
  <2>1. UNCHANGED <<used, usedSize, cached, cachedSize>>
    BY <1>5 DEF EnableCache, DisableCache, Finalize, ReleaseEnd, ClearEnd, Crash, vars
  <2> QED BY <1>1, <2>1, TotalsStay
<1>6. ASSUME NEW p \in Ptr, NEW s \in Sizes, NEW a \in Alignments,
             ProvideFromCache(p, s, a) \/ ProvideFromSystem(p, s, a)
      PROVE  UsedTotal' /\ CacheTotal'
  BY <1>6, RecycledCounted, AllocatedCounted
<1>7. ASSUME NEW s \in Sizes, NEW a \in Alignments, ProvideFails(s, a)
      PROVE  UsedTotal' /\ CacheTotal'
  BY <1>1, <1>7, TotalsStay DEF ProvideFails, Crash
<1>8. ASSUME NEW p \in Ptr, Release(p) PROVE UsedTotal' /\ CacheTotal'
  <2>1. CASE p \in DOMAIN used
    BY <1>8, <2>1, GivenUpCounted DEF Release
  <2>2. CASE p \notin DOMAIN used
    BY <1>1, <1>8, <2>2, TotalsStay DEF Release, Crash
  <2> QED BY <2>1, <2>2
<1>9. CASE ReleaseTurn
  BY <1>9, GivenUpCounted DEF ReleaseTurn
<1>10. CASE ClearTurn
  <2>1. PICK s \in Clearable, p \in Ptr : PopFromCache(p, s, DefaultAlignment)
    BY <1>10 DEF ClearTurn
  <2>2. s \in Sizes /\ UNCHANGED <<used, usedSize>>
    BY <1>10 DEF ClearTurn, Clearable
  <2>3. CacheTotal'
    BY <1>1, <2>1, <2>2, PoppedIsUncounted
  <2> QED BY <1>1, <2>2, <2>3, TotalsStay
<1> QED BY <1>4, <1>5, <1>6, <1>7, <1>8, <1>9, <1>10 DEF Next, Loops

\* A manager that starts holds nothing and counts nothing.
LEMMA InitTotals == ASSUME IsFiniteSet(Sizes), Init PROVE TotalsInv
<1>1. IInv /\ TypeOK
  BY InitIInv DEF IInv
<1>2. DOMAIN used = {}
  BY DEF Init, EmptyMap
<1>3. CachedPtrs = {}
  <2>1. \A s \in Sizes : cached[s] = << >> /\ Len(cached[s]) = 0 /\ ToSet(cached[s]) = {}
    BY DEF Init, ToSet
  <2> QED BY <2>1 DEF CachedPtrs
<1>4. SumFunction(used) = 0 /\ SumFunction(Bytes(cached)) = 0
  BY <1>1, <1>2, <1>3, NothingCountsNothing
<1>5. usedSize = [val |-> 0, extreme |-> 0] /\ cachedSize = [val |-> 0, extreme |-> 0]
  BY DEF Init, ResetTo
<1>6. UsedTotal /\ CacheTotal
  BY <1>2, <1>4, <1>5, FS_EmptySet DEF UsedTotal, CacheTotal
<1> QED BY <1>1, <1>6, TotalsAreTwo

\* The totals the manager keeps, call by call and turn by turn, are the sums
\* over its maps, and the maxima bound them.
THEOREM Totals ==
  ASSUME ~DeviceBuild, IsFiniteSet(Sizes)
  PROVE  Spec => []TotalsMatchMaps
<1>1. Init => TotalsInv
  BY InitTotals
<1>2. TotalsInv /\ [Next]_vars => TotalsInv'
  BY NextTotals
<1>3. TotalsInv => TotalsMatchMaps
  BY DEF TotalsInv
<1> QED BY <1>1, <1>2, <1>3, PTL DEF Spec

------------------------------------------------------------------------------
(* The tensors over the manager: the inductive invariant.                  *)

Records == [alive : BOOLEAN, allocated : BOOLEAN,
            storage : Ptr \cup {NoPtr}, size : Sizes \cup {0}]

TensorsTyped == /\ tens \in [Tensor -> Records]
                /\ mem \in [Ptr -> Values]
                /\ meant \in [Tensor -> Values \cup {Nothing}]

\* A tensor that will release its block, or that may be read.
Holds(t) == tens[t].allocated \/ Usable(t)

\* An object out of scope holds nothing.
OnlyTheLivingHold == \A t \in Tensor : Holds(t) => tens[t].alive

\* Who holds a block holds one in use, of its own size. It is StorageIsLent and
\* RoomForSizes in one: a move assignment swaps a released and a readable one.
HeldIsLent == \A t \in Tensor : Holds(t) => /\ tens[t].storage \in DOMAIN used
                                            /\ used[tens[t].storage] = tens[t].size

Apart == \A t, o \in Tensor :
            t # o /\ Holds(t) /\ Holds(o) => tens[t].storage # tens[o].storage

\* finalize runs when the tensors are gone: its walk takes no block from them.
WalkAfterLife == phase = "releasing" => \A t \in Tensor : ~tens[t].alive

TInv == /\ IInv
        /\ TensorsTyped
        /\ OnlyTheLivingHold
        /\ HeldIsLent
        /\ Apart
        /\ ReadsAsMeant
        /\ WalkAfterLife

------------------------------------------------------------------------------
(* The steps.                                                              *)

\* No object exists at the beginning.
LEMMA TInitInv == TInit => TInv
<1> SUFFICES ASSUME TInit PROVE TInv
  OBVIOUS
<1>1. IInv
  BY InitIInv DEF TInit
<1>2. /\ \A t \in Tensor : tens[t] = NotConstructed /\ meant[t] = Nothing
      /\ tens = [t \in Tensor |-> NotConstructed] /\ meant = [t \in Tensor |-> Nothing]
      /\ mem \in [Ptr -> Values]
  BY DEF TInit
<1>3. NotConstructed \in Records
  BY DEF NotConstructed, Records
<1>4. TensorsTyped
  BY <1>2, <1>3 DEF TensorsTyped
<1>5. \A t \in Tensor : ~Holds(t) /\ ~tens[t].alive /\ ~Usable(t)
  BY <1>2 DEF Holds, Usable, NotConstructed
<1> QED BY <1>1, <1>4, <1>5 DEF TInv, OnlyTheLivingHold, HeldIsLent, Apart, ReadsAsMeant,
                               WalkAfterLife

\* What the manager does by itself does not touch the tensors, if it keeps what is in
\* use or nobody is alive.
LEMMA TensorsKept ==
  ASSUME TInv, IInv', UNCHANGED tvars,
         UNCHANGED used \/ \A t \in Tensor : ~tens[t].alive,
         phase' = "releasing" => phase = "releasing" \/ \A t \in Tensor : ~tens[t].alive
  PROVE  TInv'
<1>1. tens' = tens /\ mem' = mem /\ meant' = meant
  BY DEF tvars
<1>2. \A t \in Tensor : Holds(t)' = Holds(t) /\ Usable(t)' = Usable(t)
  BY <1>1 DEF Holds, Usable
<1>3. HeldIsLent'
  <2>1. CASE UNCHANGED used
    BY <1>1, <1>2, <2>1 DEF TInv, HeldIsLent
  <2>2. CASE \A t \in Tensor : ~tens[t].alive
    BY <1>2, <2>2 DEF TInv, HeldIsLent, OnlyTheLivingHold
  <2> QED BY <2>1, <2>2
<1>4. TensorsTyped' /\ OnlyTheLivingHold' /\ Apart' /\ ReadsAsMeant'
  BY <1>1, <1>2 DEF TInv, TensorsTyped, OnlyTheLivingHold, Apart, ReadsAsMeant
<1>5. WalkAfterLife'
  BY <1>1 DEF TInv, WalkAfterLife
<1> QED BY <1>3, <1>4, <1>5 DEF TInv

\* A crash leaves everything as it was.
LEMMA TCrashStep == TInv /\ TCrash => TInv'
<1> SUFFICES ASSUME TInv, TCrash PROVE TInv'
  OBVIOUS
<1>1. IInv' /\ UNCHANGED <<used, phase>> /\ UNCHANGED tvars
  BY CrashStep DEF TInv, TCrash, Crash
<1> QED BY <1>1, TensorsKept

\* The loops and switches of the manager.
LEMMA ManagementStep ==
  ASSUME ~DeviceBuild, TInv, Management
  PROVE  TInv'
<1>1. IInv /\ UNCHANGED tvars
  BY DEF TInv, Management
<1>2. CASE Initialize /\ ~inited
  <2>1. IInv' /\ UNCHANGED <<used, phase>>
    BY <1>1, <1>2, InitializeStep DEF Initialize
  <2> QED BY <1>1, <2>1, TensorsKept
<1>3. CASE EnableCache \/ DisableCache \/ ReleaseEnd \/ ClearEnd
  <2>1. IInv'
    BY <1>1, <1>3, ControlStep
  <2>2. UNCHANGED used /\ (phase' = "releasing" => phase = "releasing")
    BY <1>3 DEF EnableCache, DisableCache, ReleaseEnd, ClearEnd
  <2> QED BY <1>1, <2>1, <2>2, TensorsKept
<1>4. CASE ClearTurn
  <2>1. IInv' /\ UNCHANGED <<used, phase>>
    BY <1>1, <1>4, ClearTurnStep DEF ClearTurn
  <2> QED BY <1>1, <2>1, TensorsKept
<1>5. CASE ReleaseTurn
  <2>1. PICK p \in DOMAIN used : GiveUp(p)
    BY <1>5 DEF ReleaseTurn
  <2>2. p \in Ptr /\ UNCHANGED phase
    BY <1>1, <1>5, <2>1 DEF IInv, TypeOK, ReleaseTurn
  <2>3. IInv'
    BY <1>1, <2>1, <2>2, GiveUpStep
  <2>4. \A t \in Tensor : ~tens[t].alive
    BY <1>5 DEF TInv, WalkAfterLife, ReleaseTurn
  <2> QED BY <1>1, <2>3, <2>4, TensorsKept
<1> QED BY <1>2, <1>3, <1>4, <1>5 DEF Management, Loops

\* finalize starts when no tensor is left.
LEMMA ShutdownStep == TInv /\ Shutdown => TInv'
<1> SUFFICES ASSUME TInv, Shutdown PROVE TInv'
  OBVIOUS
<1>1. IInv /\ UNCHANGED tvars /\ (\A t \in Tensor : ~tens[t].alive) /\ Finalize
  BY DEF TInv, Shutdown
<1>2. IInv'
  BY <1>1, ControlStep, CrashStep DEF Finalize
<1> QED BY <1>1, <1>2, TensorsKept

\* A block handed out was nobody's, and becomes the client's at its size.
LEMMA ProvideEffect ==
  ASSUME IInv, NEW p \in Ptr, NEW s \in Sizes, Provide(p, s)
  PROVE  /\ IInv'
         /\ p \notin DOMAIN used
         /\ DOMAIN used' = DOMAIN used \cup {p}
         /\ used'[p] = s
         /\ \A x \in DOMAIN used : used'[x] = used[x]
         /\ phase' = "idle"
<1>1. TypeOK /\ OneOwner /\ EveryBlockRecorded /\ DefaultAlignment \in Alignments
  BY TensorAlignmentAssumption DEF IInv
<1>2. CASE ProvideFromCache(p, s, DefaultAlignment)
  <2>1. IInv'
    BY <1>1, <1>2, ProvideFromCacheStep
  <2>2. /\ PopFromCache(p, s, DefaultAlignment)
        /\ PushToUsed(p, s, DefaultAlignment)
        /\ phase' = "idle"
    BY <1>2 DEF ProvideFromCache, Ready
  <2>3. p \notin DOMAIN used
    BY <1>1, <2>2, PopFromCacheEffect DEF OneOwner
  <2> QED BY <1>1, <2>1, <2>2, <2>3, PushToUsedEffect
<1>3. CASE ProvideFromSystem(p, s, DefaultAlignment)
  <2>1. IInv'
    BY <1>1, <1>3, ProvideFromSystemStep
  <2>2. /\ p \notin DOMAIN heap
        /\ PushToUsed(p, s, DefaultAlignment)
        /\ phase' = "idle"
    BY <1>3 DEF ProvideFromSystem, AllocateRaw, Ready
  <2>3. p \notin DOMAIN used
    BY <1>1, <2>2 DEF EveryBlockRecorded
  <2> QED BY <1>1, <2>1, <2>2, <2>3, PushToUsedEffect
<1> QED BY <1>2, <1>3 DEF Provide

\* A tensor takes a new block and stands for what is put in it.
LEMMA TakesBlock ==
  ASSUME TInv, NEW t \in Tensor, NEW p \in Ptr, NEW s \in Sizes, NEW v \in Values,
         Provide(p, s),
         tens' = [tens EXCEPT ![t] = Holding(p, s)],
         meant' = [meant EXCEPT ![t] = v],
         mem' \in [Ptr -> Values], mem'[p] = v,
         \A q \in Ptr \ {p} : mem'[q] = mem[q]
  PROVE  TInv'
<1>1. /\ IInv' /\ p \notin DOMAIN used
      /\ DOMAIN used' = DOMAIN used \cup {p} /\ used'[p] = s
      /\ \A x \in DOMAIN used : used'[x] = used[x]
      /\ phase' = "idle"
  BY ProvideEffect DEF TInv
<1>2. TensorsTyped /\ DOMAIN used \subseteq Ptr
  BY DEF TInv, IInv, TypeOK
<1>3. /\ tens'[t].alive /\ tens'[t].storage = p /\ tens'[t].size = s /\ meant'[t] = v
      /\ \A o \in Tensor \ {t} : tens'[o] = tens[o] /\ meant'[o] = meant[o]
  BY <1>2 DEF TensorsTyped, Holding
<1>4. \A o \in Tensor \ {t} : Holds(o)' = Holds(o) /\ Usable(o)' = Usable(o)
  BY <1>3 DEF Holds, Usable
<1>5. TensorsTyped'
  <2>1. Holding(p, s) \in Records
    BY DEF Holding, Records
  <2> QED BY <1>2, <2>1 DEF TensorsTyped
<1>6. OnlyTheLivingHold'
  BY <1>3, <1>4 DEF TInv, OnlyTheLivingHold
<1>7. HeldIsLent'
  <2> SUFFICES ASSUME NEW o \in Tensor, Holds(o)'
               PROVE  tens'[o].storage \in DOMAIN used' /\ used'[tens'[o].storage] = tens'[o].size
    BY DEF HeldIsLent
  <2>1. CASE o = t
    BY <1>1, <1>3, <2>1
  <2>2. CASE o # t
    <3>1. tens[o].storage \in DOMAIN used /\ used[tens[o].storage] = tens[o].size
      BY <1>4, <2>2 DEF TInv, HeldIsLent
    <3> QED BY <1>1, <1>3, <2>2, <3>1
  <2> QED BY <2>1, <2>2
<1>8. \A o \in Tensor \ {t} : Holds(o) => tens[o].storage \in Ptr \ {p}
  BY <1>1, <1>2 DEF TInv, HeldIsLent
<1>9. Apart'
  BY <1>3, <1>4, <1>8 DEF TInv, Apart
<1>10. ReadsAsMeant'
  <2> SUFFICES ASSUME NEW o \in Tensor, Usable(o)'
               PROVE  mem'[tens'[o].storage] = meant'[o]
    BY DEF ReadsAsMeant
  <2>1. CASE o = t
    BY <1>3, <2>1
  <2>2. CASE o # t
    <3>1. Usable(o) /\ tens[o].storage \in Ptr \ {p}
      BY <1>4, <1>8, <2>2 DEF Holds
    <3> QED BY <1>3, <2>2, <3>1 DEF TInv, ReadsAsMeant
  <2> QED BY <2>1, <2>2
<1>11. WalkAfterLife'
  BY <1>1 DEF WalkAfterLife
<1> QED BY <1>1, <1>5, <1>6, <1>7, <1>9, <1>10, <1>11 DEF TInv

\* A constructor without sizes holds nothing.
LEMMA ConstructEmptyStep ==
  ASSUME TInv, NEW t \in Tensor, ConstructEmpty(t)
  PROVE  TInv'
<1>1. /\ ~tens[t].alive /\ phase = "idle"
      /\ tens' = [tens EXCEPT ![t] = Unallocated]
      /\ UNCHANGED <<vars, mem, meant>>
  BY DEF ConstructEmpty, Ready
<1>2. IInv' /\ UNCHANGED <<used, phase>>
  BY <1>1, StutterStep DEF TInv, vars
<1>3. TensorsTyped' /\ TensorsTyped
  <2>1. Unallocated \in Records
    BY DEF Unallocated, NotConstructed, Records
  <2> QED BY <1>1, <2>1 DEF TInv, TensorsTyped
<1>4. ~tens'[t].allocated /\ \A o \in Tensor \ {t} : tens'[o] = tens[o]
  BY <1>1, <1>3 DEF TensorsTyped, Unallocated, NotConstructed
<1>5. ~Usable(t) /\ ~Holds(t)
  BY <1>1 DEF TInv, OnlyTheLivingHold, Holds
<1>6. \A o \in Tensor : /\ Usable(o)' = Usable(o)
                        /\ Holds(o)' => o # t /\ Holds(o) /\ tens'[o] = tens[o]
  BY <1>1, <1>4, <1>5 DEF Holds, Usable
<1>7. OnlyTheLivingHold' /\ HeldIsLent' /\ Apart'
  BY <1>2, <1>6 DEF TInv, OnlyTheLivingHold, HeldIsLent, Apart
<1>8. ReadsAsMeant'
  BY <1>1, <1>4, <1>5, <1>6 DEF TInv, ReadsAsMeant
<1> QED BY <1>1, <1>2, <1>3, <1>7, <1>8 DEF TInv, WalkAfterLife

\* Construction with sizes and late allocation: whatever the block contains.
LEMMA AllocationStep ==
  ASSUME TInv, NEW t \in Tensor, NEW p \in Ptr, NEW s \in Sizes,
         Construct(t, p, s) \/ Allocate(t, p, s)
  PROVE  TInv'
<1>1. CASE Allocate(t, p, s) /\ tens[t].allocated
  BY <1>1, TCrashStep DEF Allocate
<1>2. CASE Construct(t, p, s) \/ (Allocate(t, p, s) /\ ~tens[t].allocated)
  <2>1. /\ Provide(p, s)
        /\ tens' = [tens EXCEPT ![t] = Holding(p, s)]
        /\ meant' = [meant EXCEPT ![t] = mem[p]]
        /\ mem' = mem
    BY <1>2 DEF Construct, Allocate
  <2>2. mem \in [Ptr -> Values] /\ mem[p] \in Values
    BY DEF TInv, TensorsTyped
  <2> QED BY <2>1, <2>2, TakesBlock
<1> QED BY <1>1, <1>2

\* A copy takes a block of the other tensor's size and its value.
LEMMA CopyConstructStep ==
  ASSUME TInv, NEW t \in Tensor, NEW o \in Tensor, NEW p \in Ptr, CopyConstruct(t, o, p)
  PROVE  TInv'
<1> DEFINE v == mem[tens[o].storage]
<1>1. /\ Usable(o) /\ Provide(p, tens[o].size)
      /\ tens' = [tens EXCEPT ![t] = Holding(p, tens[o].size)]
      /\ mem' = [mem EXCEPT ![p] = v]
      /\ meant' = [meant EXCEPT ![t] = meant[o]]
  BY DEF CopyConstruct
<1>2. /\ tens[o].storage \in DOMAIN used /\ used[tens[o].storage] = tens[o].size
      /\ meant[o] = v
  BY <1>1 DEF TInv, HeldIsLent, ReadsAsMeant, Holds
<1>3. tens[o].storage \in Ptr /\ tens[o].size \in Sizes
  BY <1>2 DEF TInv, IInv, TypeOK
<1>4. mem \in [Ptr -> Values] /\ v \in Values
  BY <1>3 DEF TInv, TensorsTyped
<1>5. /\ mem' \in [Ptr -> Values] /\ mem'[p] = v
      /\ \A q \in Ptr \ {p} : mem'[q] = mem[q]
  BY <1>1, <1>4
<1> HIDE DEF v
<1> QED BY <1>1, <1>2, <1>3, <1>4, <1>5, TakesBlock

\* Elements are written in the block of the tensor, which nobody else holds.
LEMMA Written ==
  ASSUME TInv, NEW t \in Tensor, NEW v \in Values, Usable(t),
         mem' = [mem EXCEPT ![tens[t].storage] = v],
         meant' = [meant EXCEPT ![t] = v],
         UNCHANGED <<vars, tens>>
  PROVE  TInv'
<1>1. IInv' /\ UNCHANGED <<used, phase, tens>>
  BY StutterStep DEF TInv, vars
<1>2. Holds(t) /\ tens[t].storage \in Ptr
  BY DEF TInv, HeldIsLent, Holds, IInv, TypeOK
<1>3. TensorsTyped /\ TensorsTyped'
  BY <1>1, <1>2 DEF TInv, TensorsTyped
<1>4. /\ mem'[tens[t].storage] = v /\ meant'[t] = v
      /\ \A q \in Ptr \ {tens[t].storage} : mem'[q] = mem[q]
      /\ \A o \in Tensor \ {t} : meant'[o] = meant[o]
  BY <1>2, <1>3 DEF TensorsTyped
<1>5. \A o \in Tensor : Holds(o)' => Holds(o)
  BY <1>1, <1>2, <1>4 DEF Holds, Usable
<1>6. OnlyTheLivingHold' /\ HeldIsLent' /\ Apart' /\ WalkAfterLife'
  BY <1>1, <1>5 DEF TInv, OnlyTheLivingHold, HeldIsLent, Apart, WalkAfterLife
<1>7. ReadsAsMeant'
  <2> SUFFICES ASSUME NEW o \in Tensor, Usable(o)'
               PROVE  mem'[tens'[o].storage] = meant'[o]
    BY DEF ReadsAsMeant
  <2>1. CASE o = t
    BY <1>1, <1>4, <2>1
  <2>2. CASE o # t
    <3>1. Usable(o) /\ Holds(o)
      BY <1>4, <2>2 DEF Usable, Holds
    <3>2. tens[o].storage \in Ptr \ {tens[t].storage}
      BY <1>2, <2>2, <3>1 DEF TInv, HeldIsLent, Apart, IInv, TypeOK
    <3> QED BY <1>1, <1>4, <2>2, <3>1, <3>2 DEF TInv, ReadsAsMeant
  <2> QED BY <2>1, <2>2
<1> QED BY <1>1, <1>3, <1>6, <1>7 DEF TInv

\* Assignment from a tensor of the same sizes, or a crash.
LEMMA CopyAssignStep ==
  ASSUME TInv, NEW t \in Tensor, NEW o \in Tensor, CopyAssign(t, o)
  PROVE  TInv'
<1>1. CASE tens[t].size # tens[o].size
  BY <1>1, TCrashStep DEF CopyAssign
<1>2. CASE tens[t].size = tens[o].size
  <2>1. /\ Usable(t) /\ Usable(o)
        /\ mem' = [mem EXCEPT ![tens[t].storage] = mem[tens[o].storage]]
        /\ meant' = [meant EXCEPT ![t] = meant[o]]
        /\ UNCHANGED <<vars, tens>>
    BY <1>2 DEF CopyAssign
  <2>2. tens[o].storage \in Ptr /\ meant[o] = mem[tens[o].storage]
    BY <2>1 DEF TInv, HeldIsLent, ReadsAsMeant, Holds, IInv, TypeOK
  <2>3. meant[o] \in Values
    BY <2>2 DEF TInv, TensorsTyped
  <2> QED BY <2>1, <2>2, <2>3, Written
<1> QED BY <1>1, <1>2

\* The storage goes from one object to the other, that did not exist.
LEMMA MoveConstructStep ==
  ASSUME TInv, NEW t \in Tensor, NEW o \in Tensor, MoveConstruct(t, o)
  PROVE  TInv'
<1>1. /\ ~tens[t].alive /\ tens[o].alive /\ t # o
      /\ tens' = [tens EXCEPT ![t] = [tens[o] EXCEPT !.allocated = FALSE],
                              ![o].allocated = FALSE]
      /\ meant' = [meant EXCEPT ![t] = meant[o], ![o] = Nothing]
      /\ UNCHANGED <<vars, mem>> /\ phase = "idle"
  BY DEF MoveConstruct, Ready
<1>2. IInv' /\ UNCHANGED <<used, phase, mem>>
  BY <1>1, StutterStep DEF TInv, vars
<1>3. TensorsTyped
  BY DEF TInv
<1>4. /\ tens'[t] = [tens[o] EXCEPT !.allocated = FALSE]
      /\ tens'[o] = [tens[o] EXCEPT !.allocated = FALSE]
      /\ \A x \in Tensor \ {t, o} : tens'[x] = tens[x]
      /\ meant'[t] = meant[o] /\ meant'[o] = Nothing
      /\ \A x \in Tensor \ {t, o} : meant'[x] = meant[x]
  BY <1>1, <1>3 DEF TensorsTyped
<1>5. \A x \in {t, o} : /\ tens'[x].alive = tens[o].alive /\ ~tens'[x].allocated
                        /\ tens'[x].storage = tens[o].storage /\ tens'[x].size = tens[o].size
  BY <1>3, <1>4 DEF TensorsTyped, Records
<1>6. TensorsTyped'
  <2>1. [tens[o] EXCEPT !.allocated = FALSE] \in Records
    BY <1>3 DEF TensorsTyped, Records
  <2>2. tens' \in [Tensor -> Records]
    BY <1>1, <1>3, <1>4, <2>1 DEF TensorsTyped
  <2>3. meant' \in [Tensor -> Values \cup {Nothing}]
    BY <1>1, <1>3 DEF TensorsTyped
  <2> QED BY <1>2, <1>3, <2>2, <2>3 DEF TensorsTyped
<1>7. ~Holds(o)' /\ (Holds(t)' => Usable(o)) /\ (Usable(t)' => Usable(o))
  BY <1>4, <1>5 DEF Holds, Usable
<1>8. \A x \in Tensor \ {t, o} : Holds(x)' = Holds(x) /\ Usable(x)' = Usable(x)
  BY <1>4 DEF Holds, Usable
<1>9. Usable(o) => Holds(o)
  BY DEF Holds
<1>10. OnlyTheLivingHold'
  BY <1>1, <1>4, <1>5, <1>7, <1>8 DEF TInv, OnlyTheLivingHold
<1>11. HeldIsLent'
  BY <1>2, <1>4, <1>5, <1>7, <1>8, <1>9 DEF TInv, HeldIsLent
<1>12. Apart'
  <2> SUFFICES ASSUME NEW x \in Tensor, NEW y \in Tensor, x # y, Holds(x)', Holds(y)'
               PROVE  tens'[x].storage # tens'[y].storage
    BY DEF Apart
  <2>1. x # o /\ y # o
    BY <1>7
  <2>2. CASE x = t
    BY <1>4, <1>5, <1>7, <1>8, <1>9, <2>1, <2>2 DEF TInv, Apart
  <2>3. CASE y = t
    BY <1>4, <1>5, <1>7, <1>8, <1>9, <2>1, <2>3 DEF TInv, Apart
  <2>4. CASE x # t /\ y # t
    BY <1>4, <1>8, <2>1, <2>4 DEF TInv, Apart
  <2> QED BY <2>2, <2>3, <2>4
<1>13. ReadsAsMeant'
  <2> SUFFICES ASSUME NEW x \in Tensor, Usable(x)'
               PROVE  mem'[tens'[x].storage] = meant'[x]
    BY DEF ReadsAsMeant
  <2>1. x # o
    BY <1>7 DEF Holds
  <2>2. CASE x = t
    BY <1>2, <1>4, <1>5, <1>7, <2>2 DEF TInv, ReadsAsMeant
  <2>3. CASE x # t
    BY <1>2, <1>4, <1>8, <2>1, <2>3 DEF TInv, ReadsAsMeant
  <2> QED BY <2>2, <2>3
<1>14. WalkAfterLife'
  BY <1>1, <1>2 DEF WalkAfterLife
<1> QED BY <1>2, <1>6, <1>10, <1>11, <1>12, <1>13, <1>14 DEF TInv

\* Storage, flag and value are exchanged by two tensors of the same sizes.
LEMMA MoveAssignStep ==
  ASSUME TInv, NEW t \in Tensor, NEW o \in Tensor, MoveAssign(t, o)
  PROVE  TInv'
<1> DEFINE other(x) == IF x = t THEN o ELSE IF x = o THEN t ELSE x
<1>1. /\ tens[t].alive /\ tens[o].alive /\ tens[t].size = tens[o].size
      /\ tens' = [tens EXCEPT ![t].storage = tens[o].storage,
                              ![t].allocated = tens[o].allocated,
                              ![o].storage = tens[t].storage,
                              ![o].allocated = tens[t].allocated]
      /\ meant' = [meant EXCEPT ![t] = meant[o], ![o] = meant[t]]
      /\ UNCHANGED <<vars, mem>> /\ phase = "idle"
  BY DEF MoveAssign, Ready
<1>2. IInv' /\ UNCHANGED <<used, phase, mem>>
  BY <1>1, StutterStep DEF TInv, vars
<1>3. TensorsTyped
  BY DEF TInv
<1>4. /\ tens' \in [Tensor -> Records]
      /\ \A x \in Tensor : /\ tens'[x].storage = tens[other(x)].storage
                           /\ tens'[x].allocated = tens[other(x)].allocated
                           /\ tens'[x].alive = tens[other(x)].alive
                           /\ tens'[x].size = tens[other(x)].size
  <2>1. tens[t] \in Records /\ tens[o] \in Records
    BY <1>3 DEF TensorsTyped
  <2>2. CASE t = o
    <3>1. tens' = tens
      BY <1>1, <1>3, <2>1, <2>2 DEF TensorsTyped, Records
    <3>2. \A x \in Tensor : other(x) = x
      BY <2>2
    <3> QED BY <1>3, <3>1, <3>2 DEF TensorsTyped
  <2>3. CASE t # o
    <3>1. DOMAIN tens' = Tensor /\ \A x \in Tensor \ {t, o} : tens'[x] = tens[x]
      BY <1>1, <1>3 DEF TensorsTyped
    <3>2. tens'[t] = [tens[t] EXCEPT !.storage = tens[o].storage,
                                     !.allocated = tens[o].allocated]
      BY <1>1, <1>3, <2>1, <2>3 DEF TensorsTyped, Records
    <3>3. tens'[o] = [tens[o] EXCEPT !.storage = tens[t].storage,
                                     !.allocated = tens[t].allocated]
      BY <1>1, <1>3, <2>1, <2>3 DEF TensorsTyped, Records
    <3>4. /\ tens'[t] \in Records /\ tens'[t].storage = tens[o].storage
          /\ tens'[t].allocated = tens[o].allocated
          /\ tens'[t].alive = tens[t].alive /\ tens'[t].size = tens[t].size
      BY <2>1, <3>2 DEF Records
    <3>5. /\ tens'[o] \in Records /\ tens'[o].storage = tens[t].storage
          /\ tens'[o].allocated = tens[t].allocated
          /\ tens'[o].alive = tens[o].alive /\ tens'[o].size = tens[o].size
      BY <2>1, <3>3 DEF Records
    <3>6. tens' \in [Tensor -> Records]
      <4>1. tens' = [x \in Tensor |-> tens'[x]]
        BY <1>1, <1>3 DEF TensorsTyped
      <4>2. \A x \in Tensor : tens'[x] \in Records
        BY <1>3, <3>1, <3>4, <3>5 DEF TensorsTyped
      <4> QED BY <4>1, <4>2
    <3>7. tens[t].alive = tens[o].alive
      BY <1>1, <2>1 DEF Records
    <3>8. other(t) = o /\ other(o) = t /\ \A x \in Tensor \ {t, o} : other(x) = x
      BY <2>3
    <3> HIDE DEF other
    <3>9. ASSUME NEW x \in Tensor
          PROVE  /\ tens'[x].storage = tens[other(x)].storage
                 /\ tens'[x].allocated = tens[other(x)].allocated
                 /\ tens'[x].alive = tens[other(x)].alive
                 /\ tens'[x].size = tens[other(x)].size
      <4>1. tens[t].size = tens[o].size
        BY <1>1
      <4>2. CASE x = t
        BY <3>4, <3>7, <3>8, <4>1, <4>2
      <4>3. CASE x = o
        BY <3>5, <3>7, <3>8, <4>1, <4>3
      <4>4. CASE x \notin {t, o}
        BY <3>1, <3>8, <4>4
      <4> QED BY <4>2, <4>3, <4>4
    <3> QED BY <3>6, <3>9
  <2> QED BY <2>2, <2>3
<1>5. /\ meant' \in [Tensor -> Values \cup {Nothing}]
      /\ \A x \in Tensor : meant'[x] = meant[other(x)]
  BY <1>1, <1>3 DEF TensorsTyped
<1>6. \A x \in Tensor : other(x) \in Tensor
  OBVIOUS
<1>7. \A x, y \in Tensor : x # y => other(x) # other(y)
  OBVIOUS
<1> HIDE DEF other
<1>8. \A x \in Tensor : Holds(x)' = Holds(other(x)) /\ Usable(x)' = Usable(other(x))
  BY <1>4, <1>5 DEF Holds, Usable
<1>9. TensorsTyped'
  BY <1>2, <1>3, <1>4, <1>5 DEF TensorsTyped
<1>10. OnlyTheLivingHold' /\ HeldIsLent'
  BY <1>2, <1>4, <1>6, <1>8 DEF TInv, OnlyTheLivingHold, HeldIsLent
<1>11. Apart'
  BY <1>4, <1>6, <1>7, <1>8 DEF TInv, Apart
<1>12. ReadsAsMeant'
  BY <1>2, <1>4, <1>5, <1>6, <1>8 DEF TInv, ReadsAsMeant
<1>13. WalkAfterLife'
  BY <1>1, <1>2 DEF WalkAfterLife
<1> QED BY <1>2, <1>9, <1>10, <1>11, <1>12, <1>13 DEF TInv

\* A destructor releases the block of the tensor, if it has the flag up, and no
\* other tensor holds it.
LEMMA DestroyStep ==
  ASSUME ~DeviceBuild, TInv, NEW t \in Tensor, Destroy(t)
  PROVE  TInv'
<1>1. /\ phase = "idle"
      /\ tens' = [tens EXCEPT ![t] = NotConstructed]
      /\ meant' = [meant EXCEPT ![t] = Nothing]
      /\ mem' = mem
  BY DEF Destroy, Ready
<1>2. TensorsTyped /\ IInv
  BY DEF TInv
<1>3. TensorsTyped'
  <2>1. NotConstructed \in Records
    BY DEF NotConstructed, Records
  <2> QED BY <1>1, <1>2, <2>1 DEF TensorsTyped
<1>4. /\ ~tens'[t].allocated /\ ~tens'[t].alive /\ meant'[t] = Nothing
      /\ \A o \in Tensor \ {t} : tens'[o] = tens[o] /\ meant'[o] = meant[o]
  BY <1>1, <1>2 DEF TensorsTyped, NotConstructed
<1>5. \A o \in Tensor : /\ Holds(o)' => o # t /\ Holds(o)
                        /\ Usable(o)' => o # t /\ Usable(o)
  BY <1>4 DEF Holds, Usable
<1>6. /\ IInv' /\ phase' = phase
      /\ \A o \in Tensor \ {t} : Holds(o) =>
            tens[o].storage \in DOMAIN used' /\ used'[tens[o].storage] = tens[o].size
  <2>1. CASE ~tens[t].allocated
    <3>1. UNCHANGED vars
      BY <2>1 DEF Destroy
    <3>2. used' = used /\ phase' = phase
      BY <3>1 DEF vars
    <3> QED BY <1>2, <3>1, <3>2, StutterStep DEF TInv, HeldIsLent
  <2>2. CASE tens[t].allocated
    <3>1. Holds(t) /\ tens[t].storage \in DOMAIN used /\ tens[t].storage \in Ptr
      BY <2>2 DEF TInv, HeldIsLent, Holds, IInv, TypeOK
    <3>2. GiveUp(tens[t].storage) /\ phase' = phase
      BY <2>2, <3>1 DEF Destroy, Release
    <3>3. IInv'
      BY <1>2, <3>1, <3>2, GiveUpStep
    <3>4. used' = Drop(used, tens[t].storage)
      BY <3>2 DEF GiveUp, PopFromUsed
    <3>5. /\ DOMAIN used' = DOMAIN used \ {tens[t].storage}
          /\ \A x \in DOMAIN used' : used'[x] = used[x]
      BY <3>4 DEF Drop, Restrict
    <3> QED BY <3>1, <3>2, <3>3, <3>5 DEF TInv, HeldIsLent, Apart
  <2> QED BY <2>1, <2>2
<1>7. OnlyTheLivingHold' /\ HeldIsLent' /\ Apart'
  BY <1>4, <1>5, <1>6 DEF TInv, OnlyTheLivingHold, HeldIsLent, Apart
<1>8. ReadsAsMeant'
  BY <1>1, <1>4, <1>5 DEF TInv, ReadsAsMeant
<1> QED BY <1>1, <1>3, <1>6, <1>7, <1>8 DEF TInv, WalkAfterLife

------------------------------------------------------------------------------
(* The theorems.                                                           *)

\* Every step of the program keeps the invariant.
LEMMA TNextInv ==
  ASSUME ~DeviceBuild, TInv, [TNext]_allVars
  PROVE  TInv'
<1>1. CASE Management \/ Shutdown
  BY <1>1, ManagementStep, ShutdownStep
<1>2. CASE UNCHANGED allVars
  <2>1. UNCHANGED vars /\ UNCHANGED tvars
    BY <1>2 DEF allVars
  <2>2. IInv' /\ UNCHANGED <<used, phase>>
    BY <2>1, StutterStep DEF TInv, vars
  <2> QED BY <2>1, <2>2, TensorsKept
<1>3. ASSUME NEW t \in Tensor, ConstructEmpty(t) \/ Destroy(t) \/ GetRefRefused(t)
      PROVE  TInv'
  BY <1>3, ConstructEmptyStep, DestroyStep, TCrashStep DEF GetRefRefused
<1>4. ASSUME NEW t \in Tensor, NEW p \in Ptr, NEW s \in Sizes,
             Construct(t, p, s) \/ Allocate(t, p, s)
      PROVE  TInv'
  BY <1>4, AllocationStep
<1>5. ASSUME NEW t \in Tensor, NEW v \in Values, AssignScalar(t, v) PROVE TInv'
  BY <1>5, Written DEF AssignScalar
<1>6. ASSUME NEW t \in Tensor, NEW o \in Tensor,
             CopyAssign(t, o) \/ MoveConstruct(t, o) \/ MoveAssign(t, o)
             \/ MoveAssignRefused(t, o)
      PROVE  TInv'
  BY <1>6, CopyAssignStep, MoveConstructStep, MoveAssignStep, TCrashStep DEF MoveAssignRefused
<1>7. ASSUME NEW t \in Tensor, NEW o \in Tensor, NEW p \in Ptr, CopyConstruct(t, o, p)
      PROVE  TInv'
  BY <1>7, CopyConstructStep
<1> QED BY <1>1, <1>2, <1>3, <1>4, <1>5, <1>6, <1>7 DEF TNext

\* The inductive invariant of tensors and manager together.
THEOREM TensorsInductive == ASSUME ~DeviceBuild PROVE TSpec => []TInv
<1>1. TInit => TInv
  BY TInitInv
<1>2. TInv /\ [TNext]_allVars => TInv'
  BY TNextInv
<1> QED BY <1>1, <1>2, PTL DEF TSpec

\* No chain of copies, moves, swaps and destructions makes a block of two tensors,
\* or of none and released.
THEOREM StorageNeverShared == ASSUME ~DeviceBuild PROVE TSpec => []StorageOfOne
<1>1. TInv => StorageOfOne
  BY DEF TInv, HeldIsLent, Apart, Holds, StorageOfOne, StorageIsLent, NoSharedStorage
<1> QED BY <1>1, TensorsInductive, PTL

\* A tensor reads as the last value given to it.
THEOREM ValueSemantics == ASSUME ~DeviceBuild PROVE TSpec => []ReadsAsMeant
<1>1. TInv => ReadsAsMeant
  BY DEF TInv
<1> QED BY <1>1, TensorsInductive, PTL

\* A readable tensor has a block in use, as large as its sizes say.
THEOREM EnoughRoom == ASSUME ~DeviceBuild PROVE TSpec => []RoomForSizes
<1>1. TInv => RoomForSizes
  BY DEF TInv, HeldIsLent, Holds, RoomForSizes
<1> QED BY <1>1, TensorsInductive, PTL
==============================================================================
