--------------------------- MODULE EoGeometryProofs ---------------------------
(***************************************************************************)
(* Sites, ranks, lanes and coordinates, for any number of directions, up   *)
(* to what is on the two sides of a face between lanes or ranks.           *)
(***************************************************************************)
EXTENDS EoGeometry, FiniteSetTheorems, WellFoundedInduction, TLAPS

------------------------------------------------------------------------------
(* Arithmetic.                                                             *)

\* A set of numbers has a smallest one: an induction on a number becomes the
\* choice of the smallest for which a claim fails.
LEMMA NatMin ==
  ASSUME NEW T \in SUBSET Nat, T # {}
  PROVE  \E x \in T : \A y \in T : x <= y
<1>1. PICK x \in T : \A y \in T : ~ (<<y, x>> \in OpToRel(<, Nat))
  BY NatLessThanWellFounded, WFMin
<1>2. \A y \in T : ~(y < x)
  BY <1>1 DEF OpToRel
<1> QED BY <1>2

\* What a number is made of says its quotient and its remainder.
LEMMA QuotientAndRemainder ==
  ASSUME NEW a \in Nat, NEW n \in Nat \ {0}, NEW c \in 0..(n - 1)
  PROVE  (a * n + c) \div n = a /\ (a * n + c) % n = c
<1> DEFINE x == a * n + c
           q == x \div n
           r == x % n
<1>1. x \in Nat
  OBVIOUS
<1>2. q \in Int /\ r \in 0..(n - 1) /\ x = n * q + r
  BY <1>1
<1>3. n * (q - a) = c - r
  BY <1>2
<1> HIDE DEF q, r, x
<1>4. CASE q - a >= 1
  <2>1. n * (q - a) >= n
    BY <1>2, <1>4
  <2> QED BY <1>2, <1>3, <2>1
<1>5. CASE q - a <= -1
  <2>1. n * (q - a) <= - n
    BY <1>2, <1>5
  <2> QED BY <1>2, <1>3, <2>1
<1>6. CASE q = a
  BY <1>2, <1>3, <1>6 DEF q, r, x
<1> QED BY <1>2, <1>4, <1>5, <1>6

LEMMA DivideAndRest ==
  ASSUME NEW x \in Nat, NEW n \in Nat \ {0}
  PROVE  /\ x \div n \in Nat /\ x % n \in 0..(n - 1)
         /\ x = (x \div n) * n + (x % n)
OBVIOUS

LEMMA QuotientBounded ==
  ASSUME NEW a \in Nat, NEW n \in Nat \ {0}, NEW x \in 0..(a * n - 1)
  PROVE  x \div n \in 0..(a - 1)
<1>1. x \in Nat /\ a * n \in Nat
  OBVIOUS
<1>2. x \div n \in Nat /\ x % n \in 0..(n - 1) /\ x = (x \div n) * n + (x % n)
  BY <1>1, DivideAndRest
<1> DEFINE q == x \div n
<1> HIDE DEF q
<1>3. q * n < a * n
  BY <1>1, <1>2 DEF q
<1>4. q < a
  <2> SUFFICES ASSUME q >= a PROVE FALSE
    BY <1>2 DEF q
  <2>1. q * n >= a * n
    BY <1>2 DEF q
  <2> QED BY <1>1, <1>2, <1>3, <2>1 DEF q
<1> QED BY <1>2, <1>4 DEF q


------------------------------------------------------------------------------
(* Sites and coordinates. The operators are recursive functions on the     *)
(* directions, which have to be shown to exist.                            *)

\* The coordinates inside of given sides.
Box(n) == {c \in [Dir -> Nat] : \A d \in Dir : c[d] < n[d]}

VolumesUpTo(n, m, below) ==
  below = [d \in 0..m |-> IF d = 0 THEN 1 ELSE below[d - 1] * n[d - 1]]

SitesUpTo(c, n, m, out) ==
  out = [d \in 0..m |-> IF d = 0 THEN 0 ELSE out[d - 1] * n[d - 1] + c[d - 1]]

\* From the last direction down.
RestsFrom(s, n, m, rest) ==
  rest = [d \in m..NDims |-> IF d = NDims THEN s ELSE rest[d + 1] \div n[d]]

LEMMA NDimsNat == NDims \in Nat /\ NDims # 0
BY NDimsAssumption

LEMMA VolumesThere ==
  ASSUME NEW n
  PROVE  \E below : VolumesUpTo(n, NDims, below) /\ Volume(n) = below[NDims]
<1> DEFINE T == {m \in Nat : ~ \E below : VolumesUpTo(n, m, below)}
<1>1. T = {}
  <2> SUFFICES ASSUME T # {} PROVE FALSE
    OBVIOUS
  <2>1. PICK m \in T : \A y \in T : m <= y
    <3>1. T \in SUBSET Nat
      OBVIOUS
    <3> HIDE DEF T
    <3> QED BY <3>1, NatMin
  <2>2. CASE m = 0
    <3>1. VolumesUpTo(n, m, [d \in 0..m |-> 1])
      BY <2>2 DEF VolumesUpTo
    <3> QED BY <3>1
  <2>3. CASE m # 0
    <3>1. m - 1 \in Nat /\ m - 1 \notin T
      BY <2>1, <2>3
    <3>2. PICK b : VolumesUpTo(n, m - 1, b)
      BY <3>1
    <3> DEFINE B == [d \in 0..m |-> IF d = m THEN b[m - 1] * n[m - 1] ELSE b[d]]
    <3>3. \A d \in 0..(m - 1) : B[d] = b[d]
      BY <3>1
    <3>4. \A d \in 0..(m - 1) : b[d] = IF d = 0 THEN 1 ELSE b[d - 1] * n[d - 1]
      BY <3>2 DEF VolumesUpTo
    <3>5. \A d \in 0..m : B[d] = IF d = 0 THEN 1 ELSE B[d - 1] * n[d - 1]
      <4> TAKE d \in 0..m
      <4>1. CASE d = m
        BY <4>1, <2>3, <3>1, <3>3
      <4>2. CASE d # m
        <5>1. d \in 0..(m - 1) /\ (d # 0 => d - 1 \in 0..(m - 1))
          BY <4>2
        <5> QED BY <5>1, <3>3, <3>4
      <4> QED BY <4>1, <4>2
    <3>6. B = [d \in 0..m |-> B[d]]
      OBVIOUS
    <3> HIDE DEF B
    <3>7. VolumesUpTo(n, m, B)
      BY <3>5, <3>6 DEF VolumesUpTo
    <3> QED BY <3>7
  <2> QED BY <2>2, <2>3
<1> DEFINE G == CHOOSE below : VolumesUpTo(n, NDims, below)
<1>2. VolumesUpTo(n, NDims, G)
  BY <1>1, NDimsNat
<1>3. Volume(n) = G[NDims]
  BY DEF Volume, VolumesUpTo
<1> QED BY <1>2, <1>3

LEMMA SitesThere ==
  ASSUME NEW n, NEW c
  PROVE  \E out : SitesUpTo(c, n, NDims, out) /\ SiteOfCoords(c, n) = out[NDims]
<1> DEFINE T == {m \in Nat : ~ \E out : SitesUpTo(c, n, m, out)}
<1>1. T = {}
  <2> SUFFICES ASSUME T # {} PROVE FALSE
    OBVIOUS
  <2>1. PICK m \in T : \A y \in T : m <= y
    <3>1. T \in SUBSET Nat
      OBVIOUS
    <3> HIDE DEF T
    <3> QED BY <3>1, NatMin
  <2>2. CASE m = 0
    <3>1. SitesUpTo(c, n, m, [d \in 0..m |-> 0])
      BY <2>2 DEF SitesUpTo
    <3> QED BY <3>1
  <2>3. CASE m # 0
    <3>1. m - 1 \in Nat /\ m - 1 \notin T
      BY <2>1, <2>3
    <3>2. PICK b : SitesUpTo(c, n, m - 1, b)
      BY <3>1
    <3> DEFINE B == [d \in 0..m |->
                       IF d = m THEN b[m - 1] * n[m - 1] + c[m - 1] ELSE b[d]]
    <3>3. \A d \in 0..(m - 1) : B[d] = b[d]
      BY <3>1
    <3>4. \A d \in 0..(m - 1) :
             b[d] = IF d = 0 THEN 0 ELSE b[d - 1] * n[d - 1] + c[d - 1]
      BY <3>2 DEF SitesUpTo
    <3>5. \A d \in 0..m : B[d] = IF d = 0 THEN 0 ELSE B[d - 1] * n[d - 1] + c[d - 1]
      <4> TAKE d \in 0..m
      <4>1. CASE d = m
        BY <4>1, <2>3, <3>1, <3>3
      <4>2. CASE d # m
        <5>1. d \in 0..(m - 1) /\ (d # 0 => d - 1 \in 0..(m - 1))
          BY <4>2
        <5> QED BY <5>1, <3>3, <3>4
      <4> QED BY <4>1, <4>2
    <3>6. B = [d \in 0..m |-> B[d]]
      OBVIOUS
    <3> HIDE DEF B
    <3>7. SitesUpTo(c, n, m, B)
      BY <3>5, <3>6 DEF SitesUpTo
    <3> QED BY <3>7
  <2> QED BY <2>2, <2>3
<1> DEFINE G == CHOOSE out : SitesUpTo(c, n, NDims, out)
<1>2. SitesUpTo(c, n, NDims, G)
  BY <1>1, NDimsNat
<1>3. SiteOfCoords(c, n) = G[NDims]
  BY DEF SiteOfCoords, SitesUpTo
<1> QED BY <1>2, <1>3

LEMMA RestsThere ==
  ASSUME NEW n, NEW s
  PROVE  \E rest : /\ RestsFrom(s, n, 0, rest)
                   /\ CoordsOfSite(s, n) = [d \in Dir |-> rest[d + 1] % n[d]]
<1> DEFINE T == {m \in Nat : m <= NDims /\ ~ \E rest : RestsFrom(s, n, NDims - m, rest)}
<1>0. NDims \in Nat
  BY NDimsNat
<1>1. T = {}
  <2> SUFFICES ASSUME T # {} PROVE FALSE
    OBVIOUS
  <2>1. PICK m \in T : \A y \in T : m <= y
    <3>1. T \in SUBSET Nat
      OBVIOUS
    <3> HIDE DEF T
    <3> QED BY <3>1, NatMin
  <2>2. CASE m = 0
    <3>1. RestsFrom(s, n, NDims - m, [d \in NDims..NDims |-> s])
      BY <1>0, <2>2 DEF RestsFrom
    <3> QED BY <3>1
  <2>3. CASE m # 0
    <3> DEFINE k == NDims - m
    <3>1. m - 1 \in Nat /\ m - 1 \notin T /\ m - 1 <= NDims
      BY <1>0, <2>1, <2>3
    <3>2. k \in Int /\ k + 1 <= NDims /\ k + 1 = NDims - (m - 1) /\ k >= 0
      BY <1>0, <2>3
    <3>3. PICK b : RestsFrom(s, n, k + 1, b)
      BY <3>1, <3>2
    <3> HIDE DEF k
    <3> DEFINE B == [d \in k..NDims |-> IF d = k THEN b[k + 1] \div n[k] ELSE b[d]]
    <3>4. \A d \in (k + 1)..NDims : B[d] = b[d]
      BY <1>0, <3>2
    <3>5. \A d \in (k + 1)..NDims :
             b[d] = IF d = NDims THEN s ELSE b[d + 1] \div n[d]
      BY <3>3 DEF RestsFrom
    <3>6. \A d \in k..NDims : B[d] = IF d = NDims THEN s ELSE B[d + 1] \div n[d]
      <4> TAKE d \in k..NDims
      <4>1. CASE d = k
        BY <4>1, <1>0, <3>2, <3>4
      <4>2. CASE d # k
        <5>1. d \in (k + 1)..NDims /\ (d # NDims => d + 1 \in (k + 1)..NDims)
          BY <4>2, <1>0, <3>2
        <5> QED BY <5>1, <3>4, <3>5
      <4> QED BY <4>1, <4>2
    <3>7. B = [d \in k..NDims |-> B[d]]
      OBVIOUS
    <3> HIDE DEF B
    <3>8. RestsFrom(s, n, k, B)
      BY <3>6, <3>7 DEF RestsFrom
    <3> QED BY <3>8 DEF k
  <2> QED BY <2>2, <2>3
<1> DEFINE G == CHOOSE rest : RestsFrom(s, n, 0, rest)
<1>2. RestsFrom(s, n, 0, G)
  <2>1. NDims \in Nat /\ NDims <= NDims /\ NDims - NDims = 0
    BY <1>0
  <2>2. NDims \notin T
    BY <1>1
  <2>3. \E rest : RestsFrom(s, n, NDims - NDims, rest)
    BY <2>1, <2>2
  <2> QED BY <2>1, <2>3
<1>3. CoordsOfSite(s, n) = [d \in Dir |-> G[d + 1] % n[d]]
  BY DEF CoordsOfSite, RestsFrom
<1> QED BY <1>2, <1>3


\* The volumes below each direction are positive numbers.
LEMMA VolumesTyped ==
  ASSUME NEW n \in SidesOf, NEW below, VolumesUpTo(n, NDims, below)
  PROVE  \A d \in 0..NDims : below[d] \in Nat \ {0}
<1> DEFINE T == {d \in 0..NDims : below[d] \notin Nat \ {0}}
<1> SUFFICES ASSUME T # {} PROVE FALSE
  OBVIOUS
<1>0. NDims \in Nat
  BY NDimsNat
<1>1. PICK m \in T : \A y \in T : m <= y
  <2>1. T \in SUBSET Nat
    BY <1>0
  <2> HIDE DEF T
  <2> QED BY <2>1, NatMin
<1>2. m \in 0..NDims /\ below[m] \notin Nat \ {0}
      /\ below[m] = IF m = 0 THEN 1 ELSE below[m - 1] * n[m - 1]
  BY DEF VolumesUpTo
<1>3. m # 0
  BY <1>2
<1>4. m - 1 \in 0..NDims /\ m - 1 \in Dir /\ m - 1 \notin T
  BY <1>0, <1>1, <1>2, <1>3 DEF Dir
<1>5. below[m - 1] \in Nat \ {0} /\ n[m - 1] \in Nat \ {0}
  BY <1>4 DEF SidesOf
<1>6. \A a, b \in Nat \ {0} : a * b \in Nat \ {0}
  OBVIOUS
<1> QED BY <1>2, <1>3, <1>5, <1>6

\* The site is below the volume, and the quotients that give the coordinates
\* are the partial sites.
LEMMA SitesBounded ==
  ASSUME NEW n \in SidesOf, NEW c \in Box(n),
         NEW out, SitesUpTo(c, n, NDims, out),
         NEW below, VolumesUpTo(n, NDims, below)
  PROVE  \A d \in 0..NDims : out[d] \in 0..(below[d] - 1)
<1> DEFINE T == {d \in 0..NDims : out[d] \notin 0..(below[d] - 1)}
<1> SUFFICES ASSUME T # {} PROVE FALSE
  OBVIOUS
<1>0. NDims \in Nat /\ \A d \in 0..NDims : below[d] \in Nat \ {0}
  BY NDimsNat, VolumesTyped
<1>1. PICK m \in T : \A y \in T : m <= y
  <2>1. T \in SUBSET Nat
    BY <1>0
  <2> HIDE DEF T
  <2> QED BY <2>1, NatMin
<1>2. /\ m \in 0..NDims /\ out[m] \notin 0..(below[m] - 1)
      /\ out[m] = IF m = 0 THEN 0 ELSE out[m - 1] * n[m - 1] + c[m - 1]
      /\ below[m] = IF m = 0 THEN 1 ELSE below[m - 1] * n[m - 1]
  BY DEF VolumesUpTo, SitesUpTo
<1>3. m # 0
  BY <1>2
<1>4. m - 1 \in 0..NDims /\ m - 1 \in Dir /\ m - 1 \notin T
  BY <1>0, <1>1, <1>2, <1>3 DEF Dir
<1>5. /\ below[m - 1] \in Nat \ {0} /\ n[m - 1] \in Nat \ {0}
      /\ c[m - 1] \in 0..(n[m - 1] - 1) /\ out[m - 1] \in 0..(below[m - 1] - 1)
  BY <1>0, <1>4 DEF SidesOf, Box
<1>6. \A a, b \in Nat \ {0} : \A x \in 0..(a - 1), y \in 0..(b - 1) :
         x * b + y \in 0..(a * b - 1)
  <2> TAKE a, b \in Nat \ {0}
  <2> TAKE x \in 0..(a - 1), y \in 0..(b - 1)
  <2>1. x * b <= (a - 1) * b
    OBVIOUS
  <2>2. x * b + y \in Nat /\ a * b \in Nat /\ (a - 1) * b = a * b - b
    OBVIOUS
  <2>3. x * b \in Int
    OBVIOUS
  <2> QED BY <2>1, <2>2, <2>3
<1> QED BY <1>2, <1>3, <1>5, <1>6

\* The coordinates of the site of some coordinates are those.
THEOREM SiteOfCoordsInverse ==
  ASSUME NEW n \in SidesOf, NEW c \in Box(n)
  PROVE  /\ SiteOfCoords(c, n) \in RanksOf(n)
         /\ CoordsOfSite(SiteOfCoords(c, n), n) = c
<1>0. NDims \in Nat
  BY NDimsNat
<1>1. PICK below : VolumesUpTo(n, NDims, below) /\ Volume(n) = below[NDims]
  BY VolumesThere
<1>2. PICK out : SitesUpTo(c, n, NDims, out) /\ SiteOfCoords(c, n) = out[NDims]
  BY SitesThere
<1>3. PICK rest : /\ RestsFrom(out[NDims], n, 0, rest)
                  /\ CoordsOfSite(out[NDims], n) = [d \in Dir |-> rest[d + 1] % n[d]]
  BY RestsThere
<1>4. \A d \in 0..NDims : out[d] \in Nat /\ out[d] \in 0..(below[d] - 1)
  BY <1>1, <1>2, SitesBounded
<1>5. SiteOfCoords(c, n) \in RanksOf(n)
  BY <1>0, <1>1, <1>2, <1>4 DEF RanksOf
<1>6. \A d \in Dir : /\ out[d] \in Nat /\ n[d] \in Nat \ {0} /\ c[d] \in 0..(n[d] - 1)
                     /\ d + 1 \in 0..NDims /\ d \in 0..NDims
                     /\ out[d + 1] = out[d] * n[d] + c[d]
  <2> TAKE d \in Dir
  <2>1. d + 1 \in 0..NDims /\ d \in 0..NDims /\ d + 1 # 0 /\ (d + 1) - 1 = d
    BY <1>0 DEF Dir
  <2>2. out[d + 1] = out[d] * n[d] + c[d]
    BY <1>2, <2>1 DEF SitesUpTo
  <2> QED BY <1>4, <2>1, <2>2 DEF SidesOf, Box
<1>6a. \A d \in Dir : /\ (out[d] * n[d] + c[d]) \div n[d] = out[d]
                      /\ (out[d] * n[d] + c[d]) % n[d] = c[d]
  <2> TAKE d \in Dir
  <2>1. PICK a \in Nat, m \in Nat \ {0} : out[d] = a /\ n[d] = m
    BY <1>6
  <2>2. c[d] \in 0..(m - 1)
    BY <1>6, <2>1
  <2>3. (a * m + c[d]) \div m = a /\ (a * m + c[d]) % m = c[d]
    BY <2>2, QuotientAndRemainder
  <2> QED BY <2>1, <2>3
<1>7. \A d \in 0..NDims : rest[d] = out[d]
  <2> DEFINE T == {m \in Nat : m <= NDims /\ rest[NDims - m] # out[NDims - m]}
  <2>1. T = {}
    <3> SUFFICES ASSUME T # {} PROVE FALSE
      OBVIOUS
    <3>1. PICK m \in T : \A y \in T : m <= y
      <4>1. T \in SUBSET Nat
        OBVIOUS
      <4> HIDE DEF T
      <4> QED BY <4>1, NatMin
    <3> DEFINE k == NDims - m
    <3>2. /\ k \in 0..NDims /\ rest[k] # out[k]
          /\ rest[k] = IF k = NDims THEN out[NDims] ELSE rest[k + 1] \div n[k]
      BY <1>0, <1>3 DEF RestsFrom
    <3>3. k # NDims /\ k \in Dir
      BY <1>0, <3>2 DEF Dir
    <3>4. rest[k + 1] = out[k + 1]
      <4>1. m - 1 \in Nat /\ m - 1 <= NDims /\ NDims - (m - 1) = k + 1 /\ m - 1 \notin T
        BY <1>0, <3>1, <3>3
      <4> QED BY <4>1
    <3> HIDE DEF k
    <3>5. rest[k] = (out[k] * n[k] + c[k]) \div n[k]
      BY <1>6, <3>2, <3>3, <3>4
    <3> QED BY <1>6a, <3>2, <3>3, <3>5
  <2> TAKE d \in 0..NDims
  <2>2. NDims - d \in Nat /\ NDims - d <= NDims /\ NDims - (NDims - d) = d
    BY <1>0
  <2> QED BY <2>1, <2>2
<1>8. \A d \in Dir : rest[d + 1] % n[d] = c[d]
  <2> TAKE d \in Dir
  <2>1. rest[d + 1] % n[d] = (out[d] * n[d] + c[d]) % n[d]
    BY <1>6, <1>7
  <2> QED BY <1>6a, <2>1
<1>9. c = [d \in Dir |-> c[d]]
  BY DEF Box
<1> QED BY <1>2, <1>3, <1>5, <1>8, <1>9

\* A site has coordinates inside of the lattice, and is the site of them.
THEOREM CoordsOfSiteInverse ==
  ASSUME NEW n \in SidesOf, NEW s \in RanksOf(n)
  PROVE  /\ CoordsOfSite(s, n) \in Box(n)
         /\ SiteOfCoords(CoordsOfSite(s, n), n) = s
<1>0. NDims \in Nat
  BY NDimsNat
<1>1. PICK below : VolumesUpTo(n, NDims, below) /\ Volume(n) = below[NDims]
  BY VolumesThere
<1>2. PICK rest : /\ RestsFrom(s, n, 0, rest)
                  /\ CoordsOfSite(s, n) = [d \in Dir |-> rest[d + 1] % n[d]]
  BY RestsThere
<1> DEFINE c == [d \in Dir |-> rest[d + 1] % n[d]]
<1>3. PICK out : SitesUpTo(c, n, NDims, out) /\ SiteOfCoords(c, n) = out[NDims]
  BY SitesThere
<1>4. \A d \in 0..NDims : below[d] \in Nat \ {0}
  BY <1>1, VolumesTyped
<1>5. \A d \in Dir : /\ n[d] \in Nat \ {0} /\ d \in 0..NDims /\ d + 1 \in 0..NDims
                     /\ d # NDims /\ (d + 1) - 1 = d /\ d + 1 # 0
  BY <1>0 DEF Dir, SidesOf
<1>6. \A d \in Dir : /\ below[d + 1] = below[d] * n[d]
                     /\ rest[d] = rest[d + 1] \div n[d]
                     /\ out[d + 1] = out[d] * n[d] + c[d]
  <2> HIDE DEF c
  <2> TAKE d \in Dir
  <2>1. below[d + 1] = below[d] * n[d]
    BY <1>1, <1>5 DEF VolumesUpTo
  <2>2. rest[d] = rest[d + 1] \div n[d]
    BY <1>2, <1>5 DEF RestsFrom
  <2>3. out[d + 1] = out[d] * n[d] + c[d]
    BY <1>3, <1>5 DEF SitesUpTo
  <2> QED BY <2>1, <2>2, <2>3
<1>7. \A d \in 0..NDims : rest[d] \in 0..(below[d] - 1)
  <2> DEFINE T == {m \in Nat : m <= NDims /\ rest[NDims - m] \notin 0..(below[NDims - m] - 1)}
  <2>1. T = {}
    <3> SUFFICES ASSUME T # {} PROVE FALSE
      OBVIOUS
    <3>1. PICK m \in T : \A y \in T : m <= y
      <4>1. T \in SUBSET Nat
        OBVIOUS
      <4> HIDE DEF T
      <4> QED BY <4>1, NatMin
    <3> DEFINE k == NDims - m
    <3>2. k \in 0..NDims /\ rest[k] \notin 0..(below[k] - 1)
      BY <1>0
    <3>3. k # NDims /\ k \in Dir
      <4>1. rest[NDims] = s /\ s \in 0..(below[NDims] - 1)
        BY <1>0, <1>1, <1>2 DEF RestsFrom, RanksOf
      <4> QED BY <1>0, <3>2, <4>1 DEF Dir
    <3>4. rest[k + 1] \in 0..(below[k + 1] - 1)
      <4>1. m - 1 \in Nat /\ m - 1 <= NDims /\ NDims - (m - 1) = k + 1 /\ m - 1 \notin T
        BY <1>0, <3>1, <3>3
      <4> QED BY <4>1
    <3> HIDE DEF k
    <3>5. rest[k + 1] \in 0..(below[k] * n[k] - 1) /\ rest[k] = rest[k + 1] \div n[k]
      BY <1>6, <3>3, <3>4
    <3>6. below[k] \in Nat /\ n[k] \in Nat \ {0}
      BY <1>4, <1>5, <3>3
    <3> QED BY <3>2, <3>5, <3>6, QuotientBounded
  <2> TAKE d \in 0..NDims
  <2>2. NDims - d \in Nat /\ NDims - d <= NDims /\ NDims - (NDims - d) = d
    BY <1>0
  <2> QED BY <2>1, <2>2
<1>8. \A d \in Dir : /\ rest[d + 1] \in Nat /\ c[d] \in 0..(n[d] - 1)
                     /\ rest[d + 1] = rest[d] * n[d] + c[d]
  <2> TAKE d \in Dir
  <2>1. rest[d + 1] \in Nat
    BY <1>4, <1>5, <1>7
  <2>2. c[d] = rest[d + 1] % n[d]
    OBVIOUS
  <2> HIDE DEF c
  <2>3. PICK x \in Nat, m \in Nat \ {0} : rest[d + 1] = x /\ n[d] = m
    BY <1>5, <2>1
  <2>4. x % m \in 0..(m - 1) /\ x = (x \div m) * m + (x % m)
    BY DivideAndRest
  <2> QED BY <1>6, <2>2, <2>3, <2>4
<1>9. c \in Box(n)
  <2>1. \A d \in Dir : c[d] \in Nat /\ c[d] < n[d]
    BY <1>5, <1>8
  <2> QED BY <2>1 DEF Box
<1> HIDE DEF c
<1>10. \A d \in 0..NDims : out[d] = rest[d]
  <2> DEFINE T == {d \in 0..NDims : out[d] # rest[d]}
  <2> SUFFICES ASSUME T # {} PROVE FALSE
    OBVIOUS
  <2>1. PICK m \in T : \A y \in T : m <= y
    <3>1. T \in SUBSET Nat
      BY <1>0
    <3> HIDE DEF T
    <3> QED BY <3>1, NatMin
  <2>2. m \in 0..NDims /\ out[m] # rest[m]
    OBVIOUS
  <2>3. m # 0
    <3>1. 0 \in 0..NDims /\ out[0] = 0 /\ below[0] = 1
      BY <1>0, <1>1, <1>3 DEF SitesUpTo, VolumesUpTo
    <3>2. rest[0] = 0
      BY <1>7, <3>1
    <3> QED BY <2>2, <3>1, <3>2
  <2>4. m - 1 \in 0..NDims /\ m - 1 \in Dir /\ (m - 1) + 1 = m /\ m - 1 \notin T
    BY <1>0, <2>1, <2>2, <2>3 DEF Dir
  <2>5. out[m - 1] = rest[m - 1]
    BY <2>4
  <2>6. out[m] = out[m - 1] * n[m - 1] + c[m - 1] /\ rest[m] = rest[m - 1] * n[m - 1] + c[m - 1]
    BY <1>6, <1>8, <2>4
  <2> QED BY <2>2, <2>5, <2>6
<1>11. rest[NDims] = s
  BY <1>0, <1>2 DEF RestsFrom
<1>12. NDims \in 0..NDims
  BY <1>0
<1> QED BY <1>2, <1>3, <1>9, <1>10, <1>11, <1>12 DEF c


------------------------------------------------------------------------------
(* Neighbours.                                                             *)

\* One step of a coordinate on a circle of n.
Around(x, n, ori) == IF ori = BW THEN IF x = 0 THEN n - 1 ELSE x - 1
                                 ELSE IF x + 1 = n THEN 0 ELSE x + 1

LEMMA StepAround ==
  ASSUME NEW n \in Nat \ {0}, NEW x \in 0..(n - 1), NEW ori \in Ori
  PROVE  /\ (x + n) % n = x
         /\ ((x + MoveOffset(ori)) + n) % n = Around(x, n, ori)
         /\ Around(x, n, ori) \in 0..(n - 1)
         /\ Around(Around(x, n, ori), n, OppositeOri(ori)) = x
<1>1. \A y \in 0..(n - 1) : (0 * n + y) % n = y /\ (1 * n + y) % n = y /\ (2 * n + y) % n = y
  BY QuotientAndRemainder
<1>2. \A y \in 0..(n - 1) : /\ 0 * n + y = y /\ 1 * n + y = y + n
                            /\ 2 * n + y = (y + n) + n
  OBVIOUS
<1>3. \A y \in 0..(n - 1) : y % n = y /\ (y + n) % n = y /\ ((y + n) + n) % n = y
  BY <1>1, <1>2
<1>4. Around(x, n, ori) \in 0..(n - 1)
  BY DEF Around
<1>5. Around(Around(x, n, ori), n, OppositeOri(ori)) = x
  BY DEF Around, OppositeOri, Ori, BW, FW
<1>6. ((x + MoveOffset(ori)) + n) % n = Around(x, n, ori)
  <2>1. CASE ori = BW /\ x = 0
    <3>1. (x + MoveOffset(ori)) + n = n - 1 /\ n - 1 \in 0..(n - 1)
      BY <2>1 DEF MoveOffset
    <3> QED BY <2>1, <3>1, <1>3 DEF Around
  <2>2. CASE ori = BW /\ x # 0
    <3>1. (x + MoveOffset(ori)) + n = (x - 1) + n /\ x - 1 \in 0..(n - 1)
      BY <2>2 DEF MoveOffset
    <3> QED BY <2>2, <3>1, <1>3 DEF Around
  <2>3. CASE ori # BW /\ x + 1 = n
    <3>1. (x + MoveOffset(ori)) + n = (0 + n) + n /\ 0 \in 0..(n - 1)
      BY <2>3 DEF MoveOffset
    <3> QED BY <2>3, <3>1, <1>3 DEF Around
  <2>4. CASE ori # BW /\ x + 1 # n
    <3>1. (x + MoveOffset(ori)) + n = (x + 1) + n /\ x + 1 \in 0..(n - 1)
      BY <2>4 DEF MoveOffset
    <3> QED BY <2>4, <3>1, <1>3 DEF Around
  <2> QED BY <2>1, <2>2, <2>3, <2>4
<1> QED BY <1>3, <1>4, <1>5, <1>6

\* The neighbour is the site of the coordinates with one of them moved around.
LEMMA NeighbourCoords ==
  ASSUME NEW n \in SidesOf, NEW rank \in RanksOf(n), NEW ori \in Ori, NEW dir \in Dir
  PROVE  LET c == CoordsOfSite(rank, n)
             w == [d \in Dir |-> IF d = dir THEN Around(c[d], n[d], ori) ELSE c[d]]
         IN  c \in Box(n) /\ w \in Box(n) /\ RankNeighbour(rank, n, ori, dir) = SiteOfCoords(w, n)
<1> DEFINE c == CoordsOfSite(rank, n)
           w == [d \in Dir |-> IF d = dir THEN Around(c[d], n[d], ori) ELSE c[d]]
           v == [d \in Dir |-> (Shifted(c, ori, dir)[d] + n[d]) % n[d]]
<1>1. c \in Box(n)
  BY CoordsOfSiteInverse
<1>2. \A d \in Dir : n[d] \in Nat \ {0} /\ c[d] \in 0..(n[d] - 1)
  BY <1>1 DEF Box, SidesOf
<1>3. RankNeighbour(rank, n, ori, dir) = SiteOfCoords(v, n)
  BY DEF RankNeighbour
<1> HIDE DEF c
<1>4. \A d \in Dir : Shifted(c, ori, dir)[d] = IF d = dir THEN c[d] + MoveOffset(ori) ELSE c[d]
  BY <1>1 DEF Shifted, Box
<1>5. \A d \in Dir : v[d] = w[d] /\ w[d] \in 0..(n[d] - 1)
  <2> TAKE d \in Dir
  <2>0. PICK m \in Nat \ {0} : n[d] = m
    BY <1>2
  <2>1. PICK x \in 0..(m - 1) : n[d] = m /\ c[d] = x
    BY <1>2, <2>0
  <2>2. /\ (x + m) % m = x
        /\ ((x + MoveOffset(ori)) + m) % m = Around(x, m, ori)
        /\ Around(x, m, ori) \in 0..(m - 1)
    BY StepAround
  <2>3. v[d] = (Shifted(c, ori, dir)[d] + n[d]) % n[d]
    OBVIOUS
  <2>4. w[d] = IF d = dir THEN Around(c[d], n[d], ori) ELSE c[d]
    OBVIOUS
  <2> HIDE DEF v, w
  <2> QED BY <1>4, <2>1, <2>2, <2>3, <2>4
<1>6. v = w
  BY <1>5
<1>7. w \in Box(n)
  <2>1. \A d \in Dir : w[d] \in Nat /\ w[d] < n[d]
    BY <1>2, <1>5
  <2> QED BY <2>1 DEF Box
<1> HIDE DEF v, w
<1> QED BY <1>1, <1>3, <1>6, <1>7 DEF c, w

\* The rank behind a face has me behind its opposite face, in any periodic
\* lattice of ranks or of lanes, however many there are.
THEOREM NeighbourInverse ==
  ASSUME NEW n \in SidesOf, NEW rank \in RanksOf(n), NEW ori \in Ori, NEW dir \in Dir
  PROVE  /\ RankNeighbour(rank, n, ori, dir) \in RanksOf(n)
         /\ RankNeighbour(RankNeighbour(rank, n, ori, dir), n, OppositeOri(ori), dir) = rank
<1> DEFINE c == CoordsOfSite(rank, n)
           w == [d \in Dir |-> IF d = dir THEN Around(c[d], n[d], ori) ELSE c[d]]
           other == RankNeighbour(rank, n, ori, dir)
<1>1. c \in Box(n) /\ w \in Box(n) /\ other = SiteOfCoords(w, n)
  BY NeighbourCoords
<1>2. other \in RanksOf(n) /\ CoordsOfSite(other, n) = w
  BY <1>1, SiteOfCoordsInverse
<1>3. OppositeOri(ori) \in Ori
  BY DEF OppositeOri, Ori, BW, FW
<1> DEFINE u == [d \in Dir |-> IF d = dir THEN Around(w[d], n[d], OppositeOri(ori))
                                          ELSE w[d]]
<1> HIDE DEF other
<1>4. RankNeighbour(other, n, OppositeOri(ori), dir) = SiteOfCoords(u, n)
  <2> HIDE DEF w
  <2> QED BY <1>2, <1>3, NeighbourCoords
<1>5. \A d \in Dir : n[d] \in Nat \ {0} /\ c[d] \in 0..(n[d] - 1)
  BY <1>1 DEF Box, SidesOf
<1>6. \A d \in Dir : u[d] = c[d]
  <2> TAKE d \in Dir
  <2>1. Around(Around(c[d], n[d], ori), n[d], OppositeOri(ori)) = c[d]
    BY <1>5, StepAround
  <2> HIDE DEF c
  <2> QED BY <2>1
<1>7. u = c
  <2>1. c = [d \in Dir |-> c[d]]
    BY <1>1 DEF Box
  <2> HIDE DEF c
  <2> QED BY <1>6, <2>1
<1>8. SiteOfCoords(c, n) = rank
  BY CoordsOfSiteInverse
<1> QED BY <1>2, <1>4, <1>7, <1>8 DEF other

------------------------------------------------------------------------------
(* The parity of coordinates, and the sites of one parity.                 *)

SumsUpTo(c, m, sum) ==
  sum = [d \in 0..m |-> IF d = 0 THEN 0 ELSE sum[d - 1] + c[d - 1]]

\* The sum on the directions is what its loop finds.
LEMMA DirSumsThere ==
  ASSUME NEW c
  PROVE  \E sum : SumsUpTo(c, NDims, sum) /\ SumOnDirs(c) = sum[NDims]
<1> DEFINE T == {m \in Nat : ~ \E sum : SumsUpTo(c, m, sum)}
<1>1. T = {}
  <2> SUFFICES ASSUME T # {} PROVE FALSE
    OBVIOUS
  <2>1. PICK m \in T : \A y \in T : m <= y
    <3>1. T \in SUBSET Nat
      OBVIOUS
    <3> HIDE DEF T
    <3> QED BY <3>1, NatMin
  <2>2. CASE m = 0
    <3>1. SumsUpTo(c, m, [d \in 0..m |-> 0])
      BY <2>2 DEF SumsUpTo
    <3> QED BY <3>1
  <2>3. CASE m # 0
    <3>1. m - 1 \in Nat /\ m - 1 \notin T
      BY <2>1, <2>3
    <3>2. PICK b : SumsUpTo(c, m - 1, b)
      BY <3>1
    <3> DEFINE B == [d \in 0..m |-> IF d = m THEN b[m - 1] + c[m - 1] ELSE b[d]]
    <3>3. \A d \in 0..(m - 1) : B[d] = b[d]
      BY <3>1
    <3>4. \A d \in 0..(m - 1) : b[d] = IF d = 0 THEN 0 ELSE b[d - 1] + c[d - 1]
      BY <3>2 DEF SumsUpTo
    <3>5. \A d \in 0..m : B[d] = IF d = 0 THEN 0 ELSE B[d - 1] + c[d - 1]
      <4> TAKE d \in 0..m
      <4>1. CASE d = m
        BY <4>1, <2>3, <3>1, <3>3
      <4>2. CASE d # m
        <5>1. d \in 0..(m - 1) /\ (d # 0 => d - 1 \in 0..(m - 1))
          BY <4>2
        <5> QED BY <5>1, <3>3, <3>4
      <4> QED BY <4>1, <4>2
    <3>6. B = [d \in 0..m |-> B[d]]
      OBVIOUS
    <3> HIDE DEF B
    <3>7. SumsUpTo(c, m, B)
      BY <3>5, <3>6 DEF SumsUpTo
    <3> QED BY <3>7
  <2> QED BY <2>2, <2>3
<1> DEFINE G == CHOOSE sum : SumsUpTo(c, NDims, sum)
<1>2. SumsUpTo(c, NDims, G)
  BY <1>1, NDimsNat
<1>3. SumOnDirs(c) = G[NDims]
  BY DEF SumOnDirs, SumsUpTo
<1> QED BY <1>2, <1>3

LEMMA SumsThere ==
  ASSUME NEW c
  PROVE  \E sum : SumsUpTo(c, NDims, sum) /\ CoordsParity(c) = sum[NDims] % 2
BY DirSumsThere DEF CoordsParity

\* Moving in one direction changes the parity by the length of the move.
LEMMA ParityMoved ==
  ASSUME NEW c \in [Dir -> Int], NEW dir \in Dir, NEW x \in Int
  PROVE  /\ CoordsParity(c) \in Parity
         /\ CoordsParity([c EXCEPT ![dir] = @ + x]) = (CoordsParity(c) + x) % 2
<1> DEFINE moved == [c EXCEPT ![dir] = @ + x]
<1>0. NDims \in Nat /\ dir \in 0..(NDims - 1)
  BY NDimsNat DEF Dir
<1>1. PICK sum : SumsUpTo(c, NDims, sum) /\ CoordsParity(c) = sum[NDims] % 2
  BY SumsThere
<1>2. PICK after : SumsUpTo(moved, NDims, after) /\ CoordsParity(moved) = after[NDims] % 2
  BY SumsThere
<1> DEFINE T == {d \in 0..NDims :
                   ~(sum[d] \in Int /\ after[d] = IF d > dir THEN sum[d] + x ELSE sum[d])}
<1>3. T = {}
  <2> SUFFICES ASSUME T # {} PROVE FALSE
    OBVIOUS
  <2>1. PICK m \in T : \A y \in T : m <= y
    <3>1. T \in SUBSET Nat
      BY <1>0
    <3> HIDE DEF T
    <3> QED BY <3>1, NatMin
  <2>2. /\ m \in 0..NDims
        /\ ~(sum[m] \in Int /\ after[m] = IF m > dir THEN sum[m] + x ELSE sum[m])
        /\ sum[m] = IF m = 0 THEN 0 ELSE sum[m - 1] + c[m - 1]
        /\ after[m] = IF m = 0 THEN 0 ELSE after[m - 1] + moved[m - 1]
    BY <1>1, <1>2 DEF SumsUpTo
  <2>3. m # 0
    BY <1>0, <2>2
  <2>4. m - 1 \in 0..NDims /\ m - 1 \in Dir /\ m - 1 \notin T
    BY <1>0, <2>1, <2>2, <2>3 DEF Dir
  <2>5. sum[m - 1] \in Int
        /\ after[m - 1] = IF m - 1 > dir THEN sum[m - 1] + x ELSE sum[m - 1]
    BY <2>4
  <2>6. c[m - 1] \in Int /\ moved[m - 1] = IF m - 1 = dir THEN c[m - 1] + x ELSE c[m - 1]
    BY <2>4
  <2> QED BY <1>0, <2>2, <2>3, <2>5, <2>6
<1>4. sum[NDims] \in Int /\ after[NDims] = sum[NDims] + x
  BY <1>0, <1>3
<1>5. \A a, b \in Int : a % 2 \in Parity /\ (a + b) % 2 = ((a % 2) + b) % 2
  BY DEF Parity
<1> QED BY <1>1, <1>2, <1>4, <1>5

\* With one side k times as long, the volume is k times as large.
LEMMA ScaledVolume ==
  ASSUME NEW n \in SidesOf, NEW part \in SidesOf, NEW dir \in Dir, NEW k \in Nat \ {0},
         \A d \in Dir : n[d] = IF d = dir THEN k * part[d] ELSE part[d]
  PROVE  Volume(n) = k * Volume(part) /\ Volume(part) \in Nat \ {0}
<1>0. NDims \in Nat /\ dir \in 0..(NDims - 1)
  BY NDimsNat DEF Dir
<1>1. PICK all : VolumesUpTo(n, NDims, all) /\ Volume(n) = all[NDims]
  BY VolumesThere
<1>2. PICK below : VolumesUpTo(part, NDims, below) /\ Volume(part) = below[NDims]
  BY VolumesThere
<1>3. \A d \in 0..NDims : below[d] \in Nat \ {0}
  BY <1>2, VolumesTyped
<1> DEFINE T == {d \in 0..NDims : all[d] # IF d > dir THEN k * below[d] ELSE below[d]}
<1>4. T = {}
  <2> SUFFICES ASSUME T # {} PROVE FALSE
    OBVIOUS
  <2>1. PICK m \in T : \A y \in T : m <= y
    <3>1. T \in SUBSET Nat
      BY <1>0
    <3> HIDE DEF T
    <3> QED BY <3>1, NatMin
  <2>2. /\ m \in 0..NDims
        /\ all[m] # IF m > dir THEN k * below[m] ELSE below[m]
        /\ all[m] = IF m = 0 THEN 1 ELSE all[m - 1] * n[m - 1]
        /\ below[m] = IF m = 0 THEN 1 ELSE below[m - 1] * part[m - 1]
    BY <1>1, <1>2 DEF VolumesUpTo
  <2>3. m # 0
    BY <1>0, <2>2
  <2>4. m - 1 \in 0..NDims /\ m - 1 \in Dir /\ m - 1 \notin T
    BY <1>0, <2>1, <2>2, <2>3 DEF Dir
  <2>5. all[m - 1] = IF m - 1 > dir THEN k * below[m - 1] ELSE below[m - 1]
    BY <2>4
  <2>6. n[m - 1] = IF m - 1 = dir THEN k * part[m - 1] ELSE part[m - 1]
    BY <2>4
  <2>7. below[m - 1] \in Nat /\ part[m - 1] \in Nat
    BY <1>3, <2>4 DEF SidesOf
  <2>8. \A a, b \in Nat : (k * a) * b = k * (a * b) /\ a * (k * b) = k * (a * b)
    OBVIOUS
  <2>9. /\ (k * below[m - 1]) * part[m - 1] = k * (below[m - 1] * part[m - 1])
        /\ below[m - 1] * (k * part[m - 1]) = k * (below[m - 1] * part[m - 1])
    BY <2>7, <2>8
  <2> QED BY <1>0, <2>2, <2>3, <2>5, <2>6, <2>9
<1> QED BY <1>0, <1>1, <1>2, <1>3, <1>4

\* With one site out of two in one direction, the volume is a half.
LEMMA HalfVolume ==
  ASSUME NEW n \in SidesOf, NEW half \in SidesOf, NEW dir \in Dir,
         \A d \in Dir : n[d] = IF d = dir THEN 2 * half[d] ELSE half[d]
  PROVE  Volume(n) = 2 * Volume(half) /\ Volume(half) \in Nat \ {0}
BY ScaledVolume

------------------------------------------------------------------------------
(* Sites of ranks and lanes.                                               *)

LEMMA Exact ==
  ASSUME NEW a \in Nat, NEW n \in Nat \ {0}
  PROVE  (a * n) \div n = a /\ (a * n) % n = 0
<1>1. 0 \in 0..(n - 1) /\ a * n + 0 = a * n
  OBVIOUS
<1> QED BY <1>1, QuotientAndRemainder

\* The number of sites of a parity in a direction, and how far they are.
Spacing(lat, d) == 1 + Versor(lat.parityDir)[d]

\* All sides are multiples of what they are divided in.
LEMMA SidesDivided ==
  ASSUME NEW lat, Divided(lat), NEW rank
  PROVE  LET g == SimdLocGrid(lat, rank)
         IN  /\ g.pdir = lat.parityDir /\ g.sides \in SidesOf /\ EoSides(g) \in SidesOf
             /\ \A d \in Dir :
                  /\ Spacing(lat, d) = IF d = lat.parityDir THEN 2 ELSE 1
                  /\ ParitySides(g)[d] = Spacing(lat, d)
                  /\ g.sides[d] = EoSides(g)[d] * Spacing(lat, d)
                  /\ lat.glbSides[d] = g.sides[d] * (lat.nRanks[d] * lat.nSimdRanks[d])
<1> DEFINE g == SimdLocGrid(lat, rank)
<1>1. /\ g.pdir = lat.parityDir
      /\ g.sides = [d \in Dir |-> lat.glbSides[d] \div Times(lat.nRanks, lat.nSimdRanks)[d]]
  BY DEF SimdLocGrid, Grid
<1>2. ASSUME NEW d \in Dir
      PROVE  /\ g.sides[d] \in Nat \ {0}
             /\ lat.glbSides[d] = g.sides[d] * (lat.nRanks[d] * lat.nSimdRanks[d])
  <2> DEFINE n == lat.nRanks[d] * lat.nSimdRanks[d]
             a == lat.glbSides[d]
  <2>1. lat.nRanks[d] \in Nat \ {0} /\ lat.nSimdRanks[d] \in Nat \ {0} /\ a \in Nat \ {0}
    BY DEF Divided, SidesOf
  <2>2. n \in Nat \ {0}
    <3>1. \A x, y \in Nat \ {0} : x * y \in Nat \ {0}
      OBVIOUS
    <3> QED BY <2>1, <3>1
  <2>3. g.sides[d] = a \div n
    BY <1>1 DEF Times
  <2>4. a % n = 0
    BY DEF Divided, IsPartitionable, Times
  <2> HIDE DEF n, a
  <2>5. a \div n \in Nat /\ a = (a \div n) * n + (a % n)
    BY <2>1, <2>2, DivideAndRest
  <2>6. a = (a \div n) * n
    BY <2>2, <2>4, <2>5
  <2>7. a \div n # 0
    <3> DEFINE q == a \div n
    <3>1. q \in Nat /\ a = q * n
      BY <2>5, <2>6
    <3> HIDE DEF q
    <3>2. q # 0
      BY <2>1, <2>2, <3>1
    <3> QED BY <3>2 DEF q
  <2> QED BY <2>3, <2>5, <2>6, <2>7 DEF n, a
<1>3. ASSUME NEW d \in Dir
      PROVE  /\ Spacing(lat, d) = IF d = lat.parityDir THEN 2 ELSE 1
             /\ ParitySides(g)[d] = Spacing(lat, d)
             /\ EoSides(g)[d] \in Nat \ {0}
             /\ g.sides[d] = EoSides(g)[d] * Spacing(lat, d)
  <2>1. Spacing(lat, d) = IF d = lat.parityDir THEN 2 ELSE 1
    BY DEF Spacing, Versor
  <2>2. ParitySides(g)[d] = Spacing(lat, d)
    BY <1>1 DEF ParitySides, Spacing
  <2>3. EoSides(g)[d] = g.sides[d] \div Spacing(lat, d)
    BY <2>2 DEF EoSides
  <2>4. g.sides[d] % Spacing(lat, d) = 0
    <3>1. CASE d = lat.parityDir
      BY <1>1, <2>1, <3>1 DEF Divided
    <3>2. CASE d # lat.parityDir
      BY <1>2, <2>1, <3>2
    <3> QED BY <3>1, <3>2
  <2> DEFINE a == g.sides[d]
  <2>5. a \in Nat \ {0}
    BY <1>2
  <2> HIDE DEF a
  <2>6. /\ \A x \in Nat \ {0} : x % 2 = 0 => x \div 2 \in Nat \ {0} /\ x = (x \div 2) * 2
        /\ \A x \in Nat \ {0} : x \div 1 = x
    OBVIOUS
  <2>7. a % Spacing(lat, d) = 0 /\ EoSides(g)[d] = a \div Spacing(lat, d)
    BY <2>3, <2>4 DEF a
  <2>8. EoSides(g)[d] \in Nat \ {0} /\ a = EoSides(g)[d] * Spacing(lat, d)
    <3>1. CASE d = lat.parityDir
      BY <2>1, <2>5, <2>6, <2>7, <3>1
    <3>2. CASE d # lat.parityDir
      BY <2>1, <2>5, <2>6, <2>7, <3>2
    <3> QED BY <3>1, <3>2
  <2> QED BY <2>1, <2>2, <2>8 DEF a
<1>4. g.sides \in SidesOf /\ EoSides(g) \in SidesOf
  <2>1. g.sides = [d \in Dir |-> g.sides[d]]
    BY <1>1
  <2>2. EoSides(g) = [d \in Dir |-> EoSides(g)[d]]
    BY DEF EoSides
  <2> HIDE DEF g
  <2> QED BY <1>2, <1>3, <2>1, <2>2 DEF SidesOf
<1> QED BY <1>1, <1>2, <1>3, <1>4

\* The sites of a parity in a lane are those of its halved sides.
LEMMA EoSitesAre ==
  ASSUME NEW lat, Divided(lat), NEW rank
  PROVE  EoSites(SimdLocGrid(lat, rank)) = RanksOf(EoSides(SimdLocGrid(lat, rank)))
<1> DEFINE g == SimdLocGrid(lat, rank)
<1>1. /\ g.pdir \in Dir /\ g.sides \in SidesOf /\ EoSides(g) \in SidesOf
      /\ \A d \in Dir : /\ Spacing(lat, d) = IF d = g.pdir THEN 2 ELSE 1
                        /\ g.sides[d] = EoSides(g)[d] * Spacing(lat, d)
  BY SidesDivided DEF Divided
<1> HIDE DEF g
<1>2. \A d \in Dir : g.sides[d] = IF d = g.pdir THEN 2 * EoSides(g)[d] ELSE EoSides(g)[d]
  <2> TAKE d \in Dir
  <2>1. EoSides(g)[d] \in Nat
    BY <1>1 DEF SidesOf
  <2> QED BY <1>1, <2>1
<1>3. Volume(g.sides) = 2 * Volume(EoSides(g)) /\ Volume(EoSides(g)) \in Nat \ {0}
  BY <1>1, <1>2, HalfVolume
<1>4. EoVol(g) = Volume(EoSides(g))
  BY <1>3 DEF EoVol
<1> QED BY <1>4 DEF EoSites, RanksOf, g

\* In one direction: rank i, lane j and place w, on n ranks of m lanes of side l.
Found(n, m, l, i, j, w) ==
  LET glb == l * (n * m)
      origin == (i * glb) \div n
      lane == (j * glb) \div (n * m)
      side == glb \div n
  IN  /\ origin \in Nat /\ lane \in Nat
      /\ (origin + lane + w) \div side = i
      /\ ((origin + lane + w) - origin) \div l = j
      /\ ((origin + lane + w) - origin) % l = w

LEMMA PlaceFound ==
  ASSUME NEW n \in Nat \ {0}, NEW m \in Nat \ {0}, NEW l \in Nat \ {0},
         NEW i \in Nat, NEW j \in 0..(m - 1), NEW w \in 0..(l - 1)
  PROVE  Found(n, m, l, i, j, w)
<1>1. n * m \in Nat \ {0} /\ l * m \in Nat \ {0} /\ i * (l * m) \in Nat /\ j * l \in Nat
  <2>1. \A x, y \in Nat \ {0} : x * y \in Nat \ {0}
    OBVIOUS
  <2>2. \A x, y \in Nat : x * y \in Nat
    OBVIOUS
  <2>3. l * m \in Nat /\ j \in Nat
    OBVIOUS
  <2> QED BY <2>1, <2>2, <2>3
<1>2. /\ i * (l * (n * m)) = (i * (l * m)) * n
      /\ j * (l * (n * m)) = (j * l) * (n * m)
      /\ l * (n * m) = (l * m) * n
  OBVIOUS
<1>3. /\ (i * (l * (n * m))) \div n = i * (l * m)
      /\ (j * (l * (n * m))) \div (n * m) = j * l
      /\ (l * (n * m)) \div n = l * m
  BY <1>1, <1>2, Exact
<1>4. j * l + w \in 0..(l * m - 1)
  <2>1. j * l <= (m - 1) * l
    OBVIOUS
  <2>2. (m - 1) * l = l * m - l
    OBVIOUS
  <2> QED BY <1>1, <2>1, <2>2
<1>5. (i * (l * m) + (j * l + w)) \div (l * m) = i
  BY <1>1, <1>4, QuotientAndRemainder
<1>6. (j * l + w) \div l = j /\ (j * l + w) % l = w
  BY QuotientAndRemainder
<1> DEFINE o == i * (l * m)
           q == j * l
<1>7. o \in Nat /\ q \in Nat /\ o + q + w = o + (q + w) /\ (o + q + w) - o = q + w
  BY <1>1
<1> QED BY <1>3, <1>5, <1>6, <1>7 DEF Found

\* A site is found again, on every rank and lane and for both parities: the global
\* coordinates of (rank, parity, site, lane) lead back there, for any number of
\* directions and any sides that init accepts, odd sides of the others included.
THEOREM SimdSitesInverse ==
  ASSUME NEW lat, Divided(lat), NEW rank \in RanksOf(lat.nRanks), NEW parity \in Parity,
         NEW site \in EoSites(SimdLocGrid(lat, rank)), NEW lane \in RanksOf(lat.nSimdRanks)
  PROVE  SimdEoSiteOfGlbCoords(lat, GlbCoordsOfSimdEoSite(lat, rank, parity, site, lane))
           = <<rank, parity, site, lane>>
<1> DEFINE g == SimdLocGrid(lat, rank)
           R == lat.nRanks
           S == lat.nSimdRanks
           rc == CoordsOfSite(rank, R)
           sc == CoordsOfSite(lane, S)
           eo == CoordsOfSite(site, EoSides(g))
           origin == Origin(rank, R, lat.glbSides)
           laneOrigin == SimdRankLocOrigin(lat, lane)
           unfixed == [d \in Dir |-> origin[d] + laneOrigin[d] + eo[d] * ParitySides(g)[d]]
           needed == (CoordsParity(unfixed) + parity) % 2
           c == [unfixed EXCEPT ![lat.parityDir] = @ + needed]
           w == [d \in Dir |-> IF d = lat.parityDir THEN eo[d] * 2 + needed ELSE eo[d]]
           locSides == [d \in Dir |-> lat.glbSides[d] \div R[d]]
<1>1. /\ R \in SidesOf /\ S \in SidesOf /\ lat.parityDir \in Dir
      /\ g.sides \in SidesOf /\ EoSides(g) \in SidesOf
      /\ \A d \in Dir : /\ ParitySides(g)[d] = IF d = lat.parityDir THEN 2 ELSE 1
                        /\ g.sides[d] = EoSides(g)[d] * (IF d = lat.parityDir THEN 2 ELSE 1)
                        /\ lat.glbSides[d] = g.sides[d] * (R[d] * S[d])
  BY SidesDivided DEF Divided
<1>2. /\ rc \in Box(R) /\ SiteOfCoords(rc, R) = rank
      /\ sc \in Box(S) /\ SiteOfCoords(sc, S) = lane
      /\ eo \in Box(EoSides(g)) /\ SiteOfCoords(eo, EoSides(g)) = site
  BY <1>1, EoSitesAre, CoordsOfSiteInverse
<1>3. GlbCoordsOfSimdEoSite(lat, rank, parity, site, lane) = c
  BY DEF GlbCoordsOfSimdEoSite
<1>4. \A d \in Dir : origin[d] = (rc[d] * lat.glbSides[d]) \div R[d]
                     /\ laneOrigin[d] = (sc[d] * lat.glbSides[d]) \div (R[d] * S[d])
  BY DEF Origin, SimdRankLocOrigin
<1> HIDE DEF g, R, S, rc, sc, eo, origin, laneOrigin
<1>5. ASSUME NEW d \in Dir
      PROVE  /\ R[d] \in Nat \ {0} /\ S[d] \in Nat \ {0} /\ g.sides[d] \in Nat \ {0}
             /\ rc[d] \in Nat /\ sc[d] \in 0..(S[d] - 1) /\ eo[d] \in Nat
             /\ eo[d] <= EoSides(g)[d] - 1 /\ EoSides(g)[d] \in Nat \ {0}
  BY <1>1, <1>2 DEF SidesOf, Box
<1>6. ASSUME NEW d \in Dir
      PROVE  origin[d] \in Nat /\ laneOrigin[d] \in Nat
  <2> DEFINE n == R[d]
             m == S[d]
             l == g.sides[d]
             i == rc[d]
             j == sc[d]
  <2>1. /\ n \in Nat \ {0} /\ m \in Nat \ {0} /\ l \in Nat \ {0} /\ i \in Nat /\ j \in 0..(m - 1)
    BY <1>5
  <2>2. origin[d] = (i * (l * (n * m))) \div n /\ laneOrigin[d] = (j * (l * (n * m))) \div (n * m)
    BY <1>1, <1>4
  <2> HIDE DEF n, m, l, i, j
  <2>3. 0 \in 0..(l - 1)
    BY <2>1
  <2>4. Found(n, m, l, i, j, 0)
    BY <2>1, <2>3, PlaceFound
  <2> QED BY <2>2, <2>4 DEF Found
<1>7. unfixed \in [Dir -> Int]
  <2>1. \A d \in Dir : origin[d] + laneOrigin[d] + eo[d] * ParitySides(g)[d] \in Int
    <3> TAKE d \in Dir
    <3>1. ParitySides(g)[d] \in Int
      BY <1>1
    <3> QED BY <1>5, <1>6, <3>1
  <2> QED BY <2>1
<1>8. needed \in {0, 1} /\ CoordsParity(c) = parity
  <2> HIDE DEF unfixed
  <2>1. CoordsParity(unfixed) \in Parity
    BY <1>1, <1>7, ParityMoved
  <2>2. needed \in {0, 1} /\ (CoordsParity(unfixed) + needed) % 2 = parity
    BY <2>1 DEF Parity
  <2> HIDE DEF needed
  <2>3. needed \in Int /\ lat.parityDir \in Dir
    BY <1>1, <2>2
  <2>4. CoordsParity(c) = (CoordsParity(unfixed) + needed) % 2
    BY <1>7, <2>3, ParityMoved
  <2> QED BY <2>2, <2>4
<1> HIDE DEF needed
<1>9. ASSUME NEW d \in Dir
      PROVE  /\ c[d] = origin[d] + laneOrigin[d] + w[d]
             /\ w[d] \in 0..(g.sides[d] - 1)
             /\ w[d] \div ParitySides(g)[d] = eo[d]
  <2>1. CASE d = lat.parityDir
    <3>1. ParitySides(g)[d] = 2 /\ g.sides[d] = EoSides(g)[d] * 2
      BY <1>1, <2>1
    <3>2. w[d] = eo[d] * 2 + needed /\ c[d] = (origin[d] + laneOrigin[d] + eo[d] * 2) + needed
      BY <1>1, <2>1, <3>1
    <3> HIDE DEF w, c
    <3>3. (eo[d] * 2 + needed) \div 2 = eo[d]
      BY <1>5, <1>8
    <3> QED BY <1>5, <1>6, <1>8, <3>1, <3>2, <3>3
  <2>2. CASE d # lat.parityDir
    <3>1. ParitySides(g)[d] = 1 /\ g.sides[d] = EoSides(g)[d] * 1
      BY <1>1, <2>2
    <3>2. w[d] = eo[d] /\ c[d] = origin[d] + laneOrigin[d] + eo[d] * 1
      BY <1>1, <2>2, <3>1
    <3> HIDE DEF w, c
    <3> QED BY <1>5, <1>6, <3>1, <3>2
  <2> QED BY <2>1, <2>2
<1> HIDE DEF c, w
<1>10. ASSUME NEW d \in Dir
       PROVE  /\ c[d] \div locSides[d] = rc[d]
              /\ (c[d] - origin[d]) \div g.sides[d] = sc[d]
              /\ ((c[d] - origin[d]) % g.sides[d]) \div ParitySides(g)[d] = eo[d]
  <2> DEFINE n == R[d]
             m == S[d]
             l == g.sides[d]
             i == rc[d]
             j == sc[d]
             x == w[d]
  <2>1. /\ n \in Nat \ {0} /\ m \in Nat \ {0} /\ l \in Nat \ {0} /\ i \in Nat /\ j \in 0..(m - 1)
        /\ x \in 0..(l - 1)
    BY <1>5, <1>9
  <2>2. /\ lat.glbSides[d] = l * (n * m) /\ origin[d] = (i * (l * (n * m))) \div n
        /\ laneOrigin[d] = (j * (l * (n * m))) \div (n * m)
        /\ locSides[d] = (l * (n * m)) \div n
    BY <1>1, <1>4
  <2>3. c[d] = origin[d] + laneOrigin[d] + x
    BY <1>9
  <2> HIDE DEF n, m, l, i, j, x, locSides
  <2>4. Found(n, m, l, i, j, x)
    BY <2>1, PlaceFound
  <2> DEFINE o == (i * (l * (n * m))) \div n
             q == (j * (l * (n * m))) \div (n * m)
             side == (l * (n * m)) \div n
  <2>5. (o + q + x) \div side = i /\ ((o + q + x) - o) \div l = j /\ ((o + q + x) - o) % l = x
    BY <2>4 DEF Found
  <2>6. origin[d] = o /\ laneOrigin[d] = q /\ locSides[d] = side
    BY <2>2
  <2> HIDE DEF o, q, side
  <2>7. /\ c[d] \div locSides[d] = i /\ (c[d] - origin[d]) \div l = j
        /\ (c[d] - origin[d]) % l = x
    <3>1. c[d] = o + q + x
      BY <2>3, <2>6
    <3>2. c[d] \div locSides[d] = (o + q + x) \div side
      BY <2>6, <3>1
    <3>3. c[d] - origin[d] = (o + q + x) - o
      BY <2>6, <3>1
    <3> QED BY <2>5, <3>2, <3>3
  <2> QED BY <1>9, <2>7 DEF i, j, l, x
<1>11. [d \in Dir |-> c[d] \div locSides[d]] = rc
  <2>1. rc = [d \in Dir |-> rc[d]]
    BY <1>2 DEF Box
  <2> HIDE DEF locSides
  <2> QED BY <1>10, <2>1
<1>12. [d \in Dir |-> (c[d] - origin[d]) \div g.sides[d]] = sc
  <2>1. sc = [d \in Dir |-> sc[d]]
    BY <1>2 DEF Box
  <2> QED BY <1>10, <2>1
<1>13. [d \in Dir |-> ((c[d] - origin[d]) % g.sides[d]) \div ParitySides(g)[d]] = eo
  <2>1. eo = [d \in Dir |-> eo[d]]
    BY <1>2 DEF Box
  <2> QED BY <1>10, <2>1
<1>14. SimdEoSiteOfGlbCoords(lat, c) = <<rank, parity, site, lane>>
  <2> DEFINE loc == [d \in Dir |-> c[d] - origin[d]]
             eoFound == [d \in Dir |-> (loc[d] % g.sides[d]) \div ParitySides(g)[d]]
             laneFound == [d \in Dir |-> loc[d] \div g.sides[d]]
  <2>1. eoFound = eo /\ laneFound = sc
    BY <1>12, <1>13
  <2>2. SiteOfCoords([d \in Dir |-> c[d] \div locSides[d]], R) = rank
    BY <1>2, <1>11
  <2>3. SimdEoSiteOfGlbCoords(lat, c)
          = <<rank, CoordsParity(c), SiteOfCoords(eoFound, EoSides(g)), SiteOfCoords(laneFound, S)>>
    BY <2>2 DEF SimdEoSiteOfGlbCoords, R, S, g, origin
  <2> QED BY <1>2, <1>8, <2>1, <2>3
<1> QED BY <1>3, <1>14

------------------------------------------------------------------------------
(* The sites of one parity, taken in pairs.                                *)

\* The loop on the directions as a number in a mixed basis: its last digit is the rest.
Digits(L, t, r) == t * L + r

\* The digits of a number are its own.
LEMMA SameDigits ==
  ASSUME NEW L \in Nat \ {0}, NEW t \in Nat, NEW u \in Nat,
         NEW r \in 0..(L - 1), NEW q \in 0..(L - 1), Digits(L, t, r) = Digits(L, u, q)
  PROVE  t = u /\ r = q
<1>1. /\ (t * L + r) \div L = t /\ (t * L + r) % L = r
      /\ (u * L + q) \div L = u /\ (u * L + q) % L = q
  BY QuotientAndRemainder
<1> QED BY <1>1 DEF Digits

\* How a step to the next site moves the digits of its place.
LEMMA NextDigits ==
  ASSUME NEW L \in Nat \ {0}, NEW t \in Nat, NEW u \in Nat,
         NEW r \in 0..(L - 1), NEW q \in 0..(L - 1), Digits(L, u, q) = Digits(L, t, r) + 1
  PROVE  \/ u = t /\ q = r + 1
         \/ u = t + 1 /\ q = 0 /\ r = L - 1
<1>1. CASE r = L - 1
  <2>1. Digits(L, t + 1, 0) = Digits(L, u, q) /\ 0 \in 0..(L - 1) /\ t + 1 \in Nat
    BY <1>1 DEF Digits
  <2>2. t + 1 = u /\ 0 = q
    BY <2>1, SameDigits
  <2> QED BY <1>1, <2>2
<1>2. CASE r # L - 1
  <2>1. r + 1 \in 0..(L - 1) /\ Digits(L, t, r + 1) = Digits(L, u, q)
    BY <1>2 DEF Digits
  <2>2. t = u /\ r + 1 = q
    BY <2>1, SameDigits
  <2> QED BY <2>2
<1> QED BY <1>1, <1>2

\* A product is odd where both factors are.
LEMMA OddProduct ==
  ASSUME NEW a \in Nat, NEW b \in Nat
  PROVE  (a * b) % 2 = 1 <=> a % 2 = 1 /\ b % 2 = 1
<1>1. /\ a % 2 \in {0, 1} /\ a = 2 * (a \div 2) + (a % 2) /\ a \div 2 \in Nat
      /\ b % 2 \in {0, 1} /\ b = 2 * (b \div 2) + (b % 2) /\ b \div 2 \in Nat
  OBVIOUS
<1> DEFINE x == a \div 2
           y == b \div 2
<1>2. \A z \in Nat : (2 * z) % 2 = 0 /\ (2 * z + 1) % 2 = 1
  OBVIOUS
<1> HIDE DEF x, y
<1>3. CASE a % 2 = 0
  <2>1. a * b = 2 * (x * b) /\ x * b \in Nat
    BY <1>1, <1>3 DEF x
  <2> QED BY <1>2, <1>3, <2>1
<1>4. CASE b % 2 = 0
  <2>1. a * b = 2 * (a * y) /\ a * y \in Nat
    BY <1>1, <1>4 DEF y
  <2> QED BY <1>2, <1>4, <2>1
<1>5. CASE a % 2 = 1 /\ b % 2 = 1
  <2>1. a = 2 * x + 1 /\ b = 2 * y + 1 /\ x \in Nat /\ y \in Nat
    BY <1>1, <1>5 DEF x, y
  <2>2. a * b = 2 * ((2 * x) * y + x + y) + 1 /\ (2 * x) * y + x + y \in Nat
    BY <2>1
  <2> QED BY <1>2, <1>5, <2>2
<1> QED BY <1>1, <1>3, <1>4, <1>5

LEMMA EvenAdded == \A a, b \in Int : b % 2 = 0 => (a + b) % 2 = a % 2
OBVIOUS

\* The two sites of a pair have different parities.
LEMMA PairedSites ==
  ASSUME NEW n \in SidesOf, NEW c \in Box(n), NEW e \in Box(n),
         SiteOfCoords(c, n) % 2 = 0, SiteOfCoords(e, n) = SiteOfCoords(c, n) + 1
  PROVE  CoordsParity(c) # CoordsParity(e)
<1>0. NDims \in Nat
  BY NDimsNat
<1>1. PICK below : VolumesUpTo(n, NDims, below)
  BY VolumesThere
<1>2. PICK at : SitesUpTo(c, n, NDims, at) /\ SiteOfCoords(c, n) = at[NDims]
  BY SitesThere
<1>3. PICK next : SitesUpTo(e, n, NDims, next) /\ SiteOfCoords(e, n) = next[NDims]
  BY SitesThere
<1>4. PICK x : SumsUpTo(c, NDims, x) /\ CoordsParity(c) = x[NDims] % 2
  BY SumsThere
<1>5. PICK y : SumsUpTo(e, NDims, y) /\ CoordsParity(e) = y[NDims] % 2
  BY SumsThere
<1>6. \A d \in 0..NDims : at[d] \in Nat /\ next[d] \in Nat
  <2>1. \A d \in 0..NDims : at[d] \in 0..(below[d] - 1) /\ next[d] \in 0..(below[d] - 1)
    BY <1>1, <1>2, <1>3, SitesBounded
  <2>2. \A d \in 0..NDims : below[d] \in Nat
    BY <1>1, VolumesTyped
  <2> QED BY <2>1, <2>2
<1> DEFINE T == {d \in 0..NDims :
                   ~ /\ x[d] \in Int /\ y[d] \in Int
                     /\ at[d] = next[d] => x[d] = y[d]
                     /\ at[d] % 2 = 0 /\ next[d] = at[d] + 1 => x[d] % 2 # y[d] % 2}
<1>7. T = {}
  <2> SUFFICES ASSUME T # {} PROVE FALSE
    OBVIOUS
  <2>1. PICK m \in T : \A z \in T : m <= z
    <3>1. T \in SUBSET Nat
      BY <1>0
    <3> HIDE DEF T
    <3> QED BY <3>1, NatMin
  <2>2. /\ m \in 0..NDims
        /\ x[m] = IF m = 0 THEN 0 ELSE x[m - 1] + c[m - 1]
        /\ y[m] = IF m = 0 THEN 0 ELSE y[m - 1] + e[m - 1]
        /\ at[m] = IF m = 0 THEN 0 ELSE at[m - 1] * n[m - 1] + c[m - 1]
        /\ next[m] = IF m = 0 THEN 0 ELSE next[m - 1] * n[m - 1] + e[m - 1]
    BY <1>2, <1>3, <1>4, <1>5 DEF SitesUpTo, SumsUpTo
  <2>3. m # 0
    <3> SUFFICES ASSUME m = 0 PROVE FALSE
      OBVIOUS
    <3>1. x[m] = 0 /\ y[m] = 0 /\ at[m] = 0 /\ next[m] = 0
      BY <2>2
    <3> QED BY <2>1, <3>1
  <2>4. m - 1 \in 0..NDims /\ m - 1 \in Dir /\ m - 1 \notin T
    BY <1>0, <2>1, <2>2, <2>3 DEF Dir
  <2> DEFINE k == m - 1
             L == n[k]
  <2>5. /\ x[k] \in Int /\ y[k] \in Int
        /\ at[k] = next[k] => x[k] = y[k]
        /\ at[k] % 2 = 0 /\ next[k] = at[k] + 1 => x[k] % 2 # y[k] % 2
    BY <2>4
  <2>6. L \in Nat \ {0} /\ c[k] \in 0..(L - 1) /\ e[k] \in 0..(L - 1)
        /\ at[k] \in Nat /\ next[k] \in Nat
    BY <1>6, <2>4 DEF SidesOf, Box
  <2>7. /\ x[m] = x[k] + c[k] /\ y[m] = y[k] + e[k]
        /\ at[m] = at[k] * L + c[k] /\ next[m] = next[k] * L + e[k]
    BY <2>2, <2>3
  <2> HIDE DEF k, L
  <2>8. /\ at[m] = next[m] => at[k] = next[k] /\ c[k] = e[k]
        /\ next[m] = at[m] + 1 =>
             \/ next[k] = at[k] /\ e[k] = c[k] + 1
             \/ next[k] = at[k] + 1 /\ e[k] = 0 /\ c[k] = L - 1
    <3>1. Digits(L, at[k], c[k]) = Digits(L, next[k], e[k]) => at[k] = next[k] /\ c[k] = e[k]
      BY <2>6, SameDigits
    <3>3. ASSUME Digits(L, next[k], e[k]) = Digits(L, at[k], c[k]) + 1
          PROVE  \/ next[k] = at[k] /\ e[k] = c[k] + 1
                 \/ next[k] = at[k] + 1 /\ e[k] = 0 /\ c[k] = L - 1
      <4> DEFINE t == at[k]
                 u == next[k]
                 r == c[k]
                 q == e[k]
      <4>1. L \in Nat \ {0} /\ t \in Nat /\ u \in Nat
        BY <2>6
      <4>2. r \in 0..(L - 1) /\ q \in 0..(L - 1)
        BY <2>6
      <4>3. Digits(L, u, q) = Digits(L, t, r) + 1
        BY <3>3
      <4> HIDE DEF t, u, r, q
      <4>4. \/ u = t /\ q = r + 1
            \/ u = t + 1 /\ q = 0 /\ r = L - 1
        BY <4>1, <4>2, <4>3, NextDigits
      <4> QED BY <4>4 DEF t, u, r, q
    <3>2. at[m] = Digits(L, at[k], c[k]) /\ next[m] = Digits(L, next[k], e[k])
      BY <2>7 DEF Digits
    <3> QED BY <3>1, <3>2, <3>3
  <2>9. x[m] \in Int /\ y[m] \in Int /\ (at[m] = next[m] => x[m] = y[m])
    BY <2>5, <2>6, <2>7, <2>8
  <2>10. ASSUME at[m] % 2 = 0, next[m] = at[m] + 1
         PROVE  x[m] % 2 # y[m] % 2
    <3>1. CASE next[k] = at[k] /\ e[k] = c[k] + 1
      <4>1. y[m] = x[m] + 1
        BY <2>5, <2>6, <2>7, <3>1
      <4> QED BY <2>9, <4>1
    <3>2. CASE next[k] = at[k] + 1 /\ e[k] = 0 /\ c[k] = L - 1
      <4>1. (at[k] + 1) * L = at[m] + 1 /\ at[k] + 1 \in Nat /\ at[m] \in Nat
        BY <2>6, <2>7, <3>2
      <4>2. ((at[k] + 1) * L) % 2 = 1
        BY <2>10, <4>1
      <4>3. (at[k] + 1) % 2 = 1 /\ L % 2 = 1
        BY <2>6, <4>1, <4>2, OddProduct
      <4>4. at[k] % 2 = 0 /\ c[k] % 2 = 0
        BY <2>6, <3>2, <4>3
      <4>5. x[k] % 2 # y[k] % 2
        BY <2>5, <3>2, <4>4
      <4>6. x[m] % 2 = x[k] % 2 /\ y[m] = y[k]
        <5>1. x[k] \in Int /\ y[k] \in Int /\ c[k] \in Int
          BY <2>5, <2>6
        <5>2. (x[k] + c[k]) % 2 = x[k] % 2
          BY <4>4, <5>1, EvenAdded
        <5> QED BY <2>7, <3>2, <5>1, <5>2
      <4> QED BY <4>5, <4>6
    <3> QED BY <2>8, <2>10, <3>1, <3>2
  <2> QED BY <2>1, <2>9, <2>10
<1>8. at[NDims] % 2 = 0 /\ next[NDims] = at[NDims] + 1 => x[NDims] % 2 # y[NDims] % 2
  BY <1>0, <1>7
<1> QED BY <1>2, <1>3, <1>4, <1>5, <1>8

\* The last site of an odd volume is an even one.
LEMMA LastOfOdd ==
  ASSUME NEW n \in SidesOf, Volume(n) % 2 = 1,
         NEW c \in Box(n), SiteOfCoords(c, n) = Volume(n) - 1
  PROVE  CoordsParity(c) = 0
<1>0. NDims \in Nat
  BY NDimsNat
<1>1. PICK below : VolumesUpTo(n, NDims, below) /\ Volume(n) = below[NDims]
  BY VolumesThere
<1>2. PICK at : SitesUpTo(c, n, NDims, at) /\ SiteOfCoords(c, n) = at[NDims]
  BY SitesThere
<1>3. PICK x : SumsUpTo(c, NDims, x) /\ CoordsParity(c) = x[NDims] % 2
  BY SumsThere
<1>4. \A d \in 0..NDims : below[d] \in Nat \ {0} /\ at[d] \in Nat
  <2>1. \A d \in 0..NDims : at[d] \in 0..(below[d] - 1)
    BY <1>1, <1>2, SitesBounded
  <2>2. \A d \in 0..NDims : below[d] \in Nat \ {0}
    BY <1>1, VolumesTyped
  <2> QED BY <2>1, <2>2
<1> DEFINE T == {d \in 0..NDims :
                   ~ /\ x[d] \in Int
                     /\ below[d] % 2 = 1 /\ at[d] = below[d] - 1 => x[d] % 2 = 0}
<1>5. T = {}
  <2> SUFFICES ASSUME T # {} PROVE FALSE
    OBVIOUS
  <2>1. PICK m \in T : \A z \in T : m <= z
    <3>1. T \in SUBSET Nat
      BY <1>0
    <3> HIDE DEF T
    <3> QED BY <3>1, NatMin
  <2>2. /\ m \in 0..NDims
        /\ x[m] = IF m = 0 THEN 0 ELSE x[m - 1] + c[m - 1]
        /\ at[m] = IF m = 0 THEN 0 ELSE at[m - 1] * n[m - 1] + c[m - 1]
        /\ below[m] = IF m = 0 THEN 1 ELSE below[m - 1] * n[m - 1]
    BY <1>1, <1>2, <1>3 DEF SitesUpTo, SumsUpTo, VolumesUpTo
  <2>3. m # 0
    <3> SUFFICES ASSUME m = 0 PROVE FALSE
      OBVIOUS
    <3>1. x[m] = 0
      BY <2>2
    <3> QED BY <2>1, <3>1
  <2>4. m - 1 \in 0..NDims /\ m - 1 \in Dir /\ m - 1 \notin T
    BY <1>0, <2>1, <2>2, <2>3 DEF Dir
  <2> DEFINE k == m - 1
             L == n[k]
  <2>5. /\ x[k] \in Int
        /\ below[k] % 2 = 1 /\ at[k] = below[k] - 1 => x[k] % 2 = 0
    BY <2>4
  <2>6. L \in Nat \ {0} /\ c[k] \in 0..(L - 1) /\ at[k] \in Nat /\ below[k] \in Nat \ {0}
    BY <1>4, <2>4 DEF SidesOf, Box
  <2>7. x[m] = x[k] + c[k] /\ at[m] = at[k] * L + c[k] /\ below[m] = below[k] * L
    BY <2>2, <2>3
  <2> HIDE DEF k, L
  <2>8. ASSUME below[m] % 2 = 1, at[m] = below[m] - 1
        PROVE  x[m] % 2 = 0
    <3>1. below[k] % 2 = 1 /\ L % 2 = 1
      BY <2>6, <2>7, <2>8, OddProduct
    <3>2. at[k] * L + c[k] = (below[k] - 1) * L + (L - 1)
      BY <2>6, <2>7, <2>8
    <3>3. at[k] = below[k] - 1 /\ c[k] = L - 1
      <4>1. below[k] - 1 \in Nat /\ L - 1 \in 0..(L - 1)
        BY <2>6
      <4>2. Digits(L, at[k], c[k]) = Digits(L, below[k] - 1, L - 1)
              => at[k] = below[k] - 1 /\ c[k] = L - 1
        BY <2>6, <4>1, SameDigits
      <4> QED BY <3>2, <4>2 DEF Digits
    <3>4. x[k] % 2 = 0 /\ c[k] % 2 = 0
      BY <2>5, <2>6, <3>1, <3>3
    <3>5. x[k] \in Int /\ c[k] \in Int
      BY <2>5, <2>6
    <3>6. (x[k] + c[k]) % 2 = x[k] % 2
      BY <3>4, <3>5, EvenAdded
    <3> QED BY <2>7, <3>4, <3>6
  <2> QED BY <2>1, <2>5, <2>6, <2>7, <2>8
<1>6. below[NDims] % 2 = 1 /\ at[NDims] = below[NDims] - 1 => x[NDims] % 2 = 0
  BY <1>0, <1>5
<1> QED BY <1>1, <1>2, <1>3, <1>6

\* The sites of a face, or of any layer behind it.
FaceSides(g, dir) == [g.sides EXCEPT ![dir] = 1]

\* A grid whose sides parity halves.
GoodGrid(g) == /\ g.sides \in SidesOf /\ g.n \in SidesOf
               /\ g.pdir \in Dir /\ g.origin \in Parity
               /\ g.sides[g.pdir] % 2 = 0

\* Parity halves the sides of its direction, and the volume with it.
LEMMA GridHalved ==
  ASSUME NEW g, GoodGrid(g)
  PROVE  /\ EoSides(g) \in SidesOf
         /\ \A d \in Dir : /\ ParitySides(g)[d] = IF d = g.pdir THEN 2 ELSE 1
                           /\ g.sides[d] = IF d = g.pdir THEN 2 * EoSides(g)[d]
                                                         ELSE EoSides(g)[d]
         /\ EoVol(g) = Volume(EoSides(g)) /\ EoVol(g) \in Nat \ {0}
         /\ Volume(g.sides) = 2 * EoVol(g)
         /\ EoSites(g) = RanksOf(EoSides(g))
<1>1. \A d \in Dir : ParitySides(g)[d] = IF d = g.pdir THEN 2 ELSE 1
  BY DEF GoodGrid, ParitySides, Versor
<1>2. \A d \in Dir : /\ EoSides(g)[d] = g.sides[d] \div ParitySides(g)[d]
                     /\ g.sides[d] \in Nat \ {0}
  BY DEF EoSides, GoodGrid, SidesOf
<1>3. \A d \in Dir : /\ EoSides(g)[d] \in Nat \ {0}
                     /\ g.sides[d] = IF d = g.pdir THEN 2 * EoSides(g)[d] ELSE EoSides(g)[d]
  <2> TAKE d \in Dir
  <2>1. g.sides[d] \div 1 = g.sides[d]
    BY <1>2
  <2>2. CASE d = g.pdir
    <3>1. g.sides[d] % 2 = 0 /\ EoSides(g)[d] = g.sides[d] \div 2
      BY <1>1, <1>2, <2>2 DEF GoodGrid
    <3> QED BY <1>2, <2>2, <3>1
  <2>3. CASE d # g.pdir
    BY <1>1, <1>2, <2>1, <2>3
  <2> QED BY <2>2, <2>3
<1>4. EoSides(g) \in SidesOf
  BY <1>3 DEF EoSides, SidesOf
<1>5. Volume(g.sides) = 2 * Volume(EoSides(g)) /\ Volume(EoSides(g)) \in Nat \ {0}
  <2>1. \A d \in Dir :
          g.sides[d] = IF d = g.pdir THEN 2 * EoSides(g)[d] ELSE EoSides(g)[d]
    BY <1>3
  <2>2. g.sides \in SidesOf /\ g.pdir \in Dir
    BY DEF GoodGrid
  <2> QED BY <1>4, <2>1, <2>2, HalfVolume
<1>6. EoVol(g) = Volume(EoSides(g))
  BY <1>5 DEF EoVol
<1> QED BY <1>1, <1>3, <1>4, <1>5, <1>6 DEF EoSites, RanksOf

\* The parity of local coordinates.
ParityAt(g, c) == (CoordsParity(c) + g.origin) % 2

\* The e/o site of local coordinates.
EoSiteOf(g, c) == SiteOfCoords([d \in Dir |-> c[d] \div ParitySides(g)[d]], EoSides(g))

\* A site of a parity is found again at its coordinates, that have that parity.
LEMMA EoCoordsThere ==
  ASSUME NEW g, GoodGrid(g), NEW p \in Parity, NEW s \in EoSites(g)
  PROVE  /\ CoordsOfEoSite(g, p, s) \in Box(g.sides)
         /\ ParityAt(g, CoordsOfEoSite(g, p, s)) = p
         /\ EoSiteOf(g, CoordsOfEoSite(g, p, s)) = s
<1> DEFINE eo == CoordsOfSite(s, EoSides(g))
           unfixed == [d \in Dir |-> eo[d] * ParitySides(g)[d]]
           needed == (CoordsParity(unfixed) + g.origin + p) % 2
           c == CoordsOfEoSite(g, p, s)
<1>1. c = [unfixed EXCEPT ![g.pdir] = @ + needed]
  BY DEF CoordsOfEoSite
<1>2. eo \in Box(EoSides(g)) /\ SiteOfCoords(eo, EoSides(g)) = s
  BY GridHalved, CoordsOfSiteInverse
<1>3. \A d \in Dir : eo[d] \in Nat /\ eo[d] < EoSides(g)[d] /\ EoSides(g)[d] \in Nat
  BY <1>2, GridHalved DEF Box, SidesOf
<1>4. \A d \in Dir : unfixed[d] = IF d = g.pdir THEN 2 * eo[d] ELSE eo[d]
  BY <1>3, GridHalved
<1>5. eo = [d \in Dir |-> eo[d]]
  BY <1>2 DEF Box
<1> HIDE DEF eo
<1>6. unfixed \in [Dir -> Int]
  BY <1>3, <1>4
<1>7. CoordsParity(unfixed) \in Parity
  BY <1>6, ParityMoved DEF GoodGrid
<1>8. needed \in Parity /\ g.origin \in Parity
  BY <1>7 DEF Parity, GoodGrid
<1>9. CoordsParity(c) = (CoordsParity(unfixed) + needed) % 2
  <2>1. g.pdir \in Dir /\ needed \in Int
    BY <1>8 DEF GoodGrid, Parity
  <2> HIDE DEF needed, unfixed, c
  <2> QED BY <1>1, <1>6, <2>1, ParityMoved
<1>10. ParityAt(g, c) = p
  <2> DEFINE a == CoordsParity(unfixed)
  <2>1. ParityAt(g, c) = (((a + needed) % 2) + g.origin) % 2
        /\ needed = (a + g.origin + p) % 2
    BY <1>9 DEF ParityAt
  <2>2. a \in Parity
    BY <1>7
  <2> HIDE DEF a, unfixed, needed, c
  <2> QED BY <1>8, <2>1, <2>2 DEF Parity
<1> HIDE DEF needed
<1>11. \A d \in Dir : /\ c[d] = IF d = g.pdir THEN 2 * eo[d] + needed ELSE eo[d]
                      /\ c[d] \in Nat /\ c[d] < g.sides[d]
                      /\ c[d] \div ParitySides(g)[d] = eo[d]
  <2> TAKE d \in Dir
  <2>1. g.sides[d] = IF d = g.pdir THEN 2 * EoSides(g)[d] ELSE EoSides(g)[d]
    BY GridHalved
  <2>2. ParitySides(g)[d] = IF d = g.pdir THEN 2 ELSE 1
    BY GridHalved
  <2>3. c[d] = IF d = g.pdir THEN 2 * eo[d] + needed ELSE eo[d]
    BY <1>1, <1>4
  <2>4. CASE d = g.pdir
    BY <1>3, <1>8, <2>1, <2>2, <2>3, <2>4 DEF Parity
  <2>5. CASE d # g.pdir
    BY <1>3, <2>1, <2>2, <2>3, <2>5
  <2> QED BY <2>4, <2>5
<1>12. c \in Box(g.sides)
  <2>1. c = [d \in Dir |-> c[d]]
    BY <1>1
  <2> HIDE DEF c
  <2> QED BY <1>11, <2>1 DEF Box
<1>13. EoSiteOf(g, c) = s
  <2>1. [d \in Dir |-> c[d] \div ParitySides(g)[d]] = [d \in Dir |-> eo[d]]
    BY <1>11
  <2> QED BY <1>2, <1>5, <2>1 DEF EoSiteOf
<1> QED BY <1>10, <1>12, <1>13

\* Coordinates of a parity are those of a site of that parity.
LEMMA EoCoordsBack ==
  ASSUME NEW g, GoodGrid(g), NEW c \in Box(g.sides)
  PROVE  /\ EoSiteOf(g, c) \in EoSites(g) /\ ParityAt(g, c) \in Parity
         /\ CoordsOfEoSite(g, ParityAt(g, c), EoSiteOf(g, c)) = c
<1> DEFINE w == [d \in Dir |-> c[d] \div ParitySides(g)[d]]
           s == EoSiteOf(g, c)
           p == ParityAt(g, c)
           unfixed == [d \in Dir |-> w[d] * ParitySides(g)[d]]
           needed == (CoordsParity(unfixed) + g.origin + p) % 2
           r == c[g.pdir] % 2
<1>1. \A d \in Dir : /\ c[d] \in Nat /\ c[d] < g.sides[d] /\ EoSides(g)[d] \in Nat
                     /\ ParitySides(g)[d] = IF d = g.pdir THEN 2 ELSE 1
                     /\ g.sides[d] = IF d = g.pdir THEN 2 * EoSides(g)[d] ELSE EoSides(g)[d]
  BY GridHalved DEF Box, SidesOf
<1>2. \A d \in Dir : /\ w[d] \in Nat /\ w[d] < EoSides(g)[d]
                     /\ unfixed[d] \in Int
                     /\ c[d] = IF d = g.pdir THEN unfixed[d] + r ELSE unfixed[d]
  <2> TAKE d \in Dir
  <2>1. w[d] = c[d] \div ParitySides(g)[d] /\ unfixed[d] = w[d] * ParitySides(g)[d]
    OBVIOUS
  <2>2. CASE d = g.pdir
    <3>1. w[d] = c[d] \div 2 /\ unfixed[d] = w[d] * 2 /\ r = c[d] % 2
      BY <1>1, <2>1, <2>2
    <3> HIDE DEF w, unfixed, r
    <3>2. /\ w[d] \in Nat /\ w[d] < EoSides(g)[d]
          /\ unfixed[d] \in Int /\ c[d] = unfixed[d] + r
      BY <1>1, <2>2, <3>1
    <3> QED BY <2>2, <3>2
  <2>3. CASE d # g.pdir
    <3>1. w[d] = c[d] \div 1 /\ unfixed[d] = w[d] * 1
      BY <1>1, <2>1, <2>3
    <3> HIDE DEF w, unfixed, r
    <3>2. /\ w[d] \in Nat /\ w[d] < EoSides(g)[d]
          /\ unfixed[d] \in Int /\ c[d] = unfixed[d]
      BY <1>1, <2>3, <3>1
    <3> QED BY <2>3, <3>2
  <2> QED BY <2>2, <2>3
<1>3. w \in Box(EoSides(g))
  BY <1>2 DEF Box
<1>4. s \in EoSites(g) /\ CoordsOfSite(s, EoSides(g)) = w
  <2>1. s = SiteOfCoords(w, EoSides(g))
    BY DEF EoSiteOf
  <2> HIDE DEF w, s
  <2> QED BY <1>3, <2>1, GridHalved, SiteOfCoordsInverse
<1>5. r \in Parity /\ g.origin \in Parity /\ g.pdir \in Dir
  BY <1>1 DEF GoodGrid, Parity
<1>6. c = [unfixed EXCEPT ![g.pdir] = @ + r]
  <2>1. c = [d \in Dir |-> c[d]]
    BY DEF Box
  <2> HIDE DEF r, w
  <2> QED BY <1>2, <2>1
<1>7. unfixed \in [Dir -> Int]
  BY <1>2
<1>8. CoordsParity(unfixed) \in Parity /\ CoordsParity(c) = (CoordsParity(unfixed) + r) % 2
  <2>1. r \in Int
    BY <1>5 DEF Parity
  <2> HIDE DEF r, w, unfixed
  <2> QED BY <1>5, <1>6, <1>7, <2>1, ParityMoved
<1>9. p \in Parity /\ needed = r
  <2> DEFINE a == CoordsParity(unfixed)
  <2>1. p = (((a + r) % 2) + g.origin) % 2 /\ needed = (a + g.origin + p) % 2
    BY <1>8 DEF ParityAt
  <2>2. a \in Parity
    BY <1>8
  <2> HIDE DEF a, unfixed, needed, p, r
  <2> QED BY <1>5, <2>1, <2>2 DEF Parity
<1>10. CoordsOfEoSite(g, p, s) = [unfixed EXCEPT ![g.pdir] = @ + needed]
  BY <1>4 DEF CoordsOfEoSite
<1> QED BY <1>4, <1>6, <1>9, <1>10

\* How many of the pairs of sites of a box hold a site of parity q.
Slots(n, q) == Volume(n) \div 2 + (IF Volume(n) % 2 = 1 /\ q = 0 THEN 1 ELSE 0)

\* Sites of one parity, numbered by pairs, have a number each, and all are used.
LEMMA OnePerPair ==
  ASSUME NEW n \in SidesOf, NEW q \in Parity
  PROVE  /\ Slots(n, q) \in Nat
         /\ \A f \in Box(n) : CoordsParity(f) = q =>
               SiteOfCoords(f, n) \div 2 \in 0..(Slots(n, q) - 1)
         /\ \A f, h \in Box(n) :
               /\ CoordsParity(f) = q /\ CoordsParity(h) = q
               /\ SiteOfCoords(f, n) \div 2 = SiteOfCoords(h, n) \div 2
               => f = h
         /\ \A i \in 0..(Slots(n, q) - 1) :
               \E f \in Box(n) : CoordsParity(f) = q /\ SiteOfCoords(f, n) \div 2 = i
<1> DEFINE V == Volume(n)
           v == V \div 2
           S == Slots(n, q)
<1>1. V \in Nat \ {0}
  <2>1. PICK below : VolumesUpTo(n, NDims, below) /\ Volume(n) = below[NDims]
    BY VolumesThere
  <2> QED BY <2>1, VolumesTyped, NDimsNat
<1>2. /\ v \in Nat /\ q \in {0, 1}
      /\ \/ V = 2 * v /\ S = v
         \/ V = 2 * v + 1 /\ S = v + (IF q = 0 THEN 1 ELSE 0)
  <2>1. S = v + (IF V % 2 = 1 /\ q = 0 THEN 1 ELSE 0)
    BY DEF Slots
  <2> HIDE DEF S, V
  <2> QED BY <1>1, <2>1 DEF Parity
<1>3. S \in Nat
  <2> HIDE DEF S, v
  <2> QED BY <1>2
<1>4. V % 2 = 1 <=> V = 2 * v + 1
  <2> HIDE DEF V
  <2> QED BY <1>1
<1>5. \A f \in Box(n) : SiteOfCoords(f, n) \in 0..(V - 1)
                        /\ CoordsOfSite(SiteOfCoords(f, n), n) = f
  BY SiteOfCoordsInverse DEF RanksOf
<1>6. \A s \in 0..(V - 1) : CoordsOfSite(s, n) \in Box(n)
                            /\ SiteOfCoords(CoordsOfSite(s, n), n) = s
  BY CoordsOfSiteInverse DEF RanksOf
<1>7. \A f \in Box(n) : CoordsParity(f) \in Parity
  <2> TAKE f \in Box(n)
  <2>1. f \in [Dir -> Int] /\ 0 \in Dir
    BY NDimsNat DEF Box, Dir
  <2> QED BY <2>1, ParityMoved
<1>8. ASSUME NEW f \in Box(n), CoordsParity(f) = q
      PROVE  SiteOfCoords(f, n) \div 2 \in 0..(S - 1)
  <2> DEFINE s == SiteOfCoords(f, n)
  <2>1. s \in 0..(V - 1)
    BY <1>5
  <2>2. V = 2 * v + 1 /\ s = V - 1 => q = 0
    BY <1>4, <1>8, LastOfOdd
  <2> HIDE DEF s, S, V, v
  <2>3. s \div 2 \in 0..(S - 1)
    BY <1>1, <1>2, <2>1, <2>2
  <2> QED BY <2>3 DEF s
<1>9. ASSUME NEW f \in Box(n), NEW h \in Box(n), CoordsParity(f) = q, CoordsParity(h) = q,
             SiteOfCoords(f, n) \div 2 = SiteOfCoords(h, n) \div 2
      PROVE  f = h
  <2> DEFINE s == SiteOfCoords(f, n)
             t == SiteOfCoords(h, n)
  <2>1. s \in Nat /\ t \in Nat
    BY <1>1, <1>5
  <2>2. ~(s % 2 = 0 /\ t = s + 1) /\ ~(t % 2 = 0 /\ s = t + 1)
    BY <1>9, PairedSites
  <2>3. s \div 2 = t \div 2
    BY <1>9
  <2> HIDE DEF s, t
  <2>4. s = t
    BY <2>1, <2>2, <2>3
  <2> QED BY <1>5, <2>4 DEF s, t
<1>10. ASSUME NEW i \in 0..(S - 1)
       PROVE  \E f \in Box(n) : CoordsParity(f) = q /\ SiteOfCoords(f, n) \div 2 = i
  <2> HIDE DEF S, V, v
  <2>1. i \in Nat /\ (2 * i) \div 2 = i /\ (2 * i + 1) \div 2 = i /\ (2 * i) % 2 = 0
    BY <1>3
  <2>2. CASE 2 * i + 1 < V
    <3> DEFINE f == CoordsOfSite(2 * i, n)
               h == CoordsOfSite(2 * i + 1, n)
    <3>1. 2 * i \in 0..(V - 1) /\ 2 * i + 1 \in 0..(V - 1)
      BY <1>1, <2>1, <2>2
    <3>2. /\ f \in Box(n) /\ SiteOfCoords(f, n) = 2 * i
          /\ h \in Box(n) /\ SiteOfCoords(h, n) = 2 * i + 1
      BY <1>6, <3>1
    <3> HIDE DEF f, h
    <3>3. CoordsParity(f) # CoordsParity(h)
      BY <2>1, <3>2, PairedSites
    <3>4. CoordsParity(f) = q \/ CoordsParity(h) = q
      BY <1>7, <3>2, <3>3 DEF Parity
    <3> QED BY <2>1, <3>2, <3>4
  <2>3. CASE ~(2 * i + 1 < V)
    <3>1. V = 2 * v + 1 /\ q = 0 /\ i = v /\ 2 * i = V - 1 /\ 2 * i \in 0..(V - 1)
      BY <1>1, <1>2, <2>1, <2>3
    <3> DEFINE f == CoordsOfSite(2 * i, n)
    <3>2. f \in Box(n) /\ SiteOfCoords(f, n) = 2 * i
      BY <1>6, <3>1
    <3> HIDE DEF f
    <3>3. CoordsParity(f) = 0
      BY <1>4, <3>1, <3>2, LastOfOdd DEF V
    <3> QED BY <2>1, <3>1, <3>2, <3>3
  <2> QED BY <2>2, <2>3
<1> QED BY <1>3, <1>8, <1>9, <1>10

\* A face has the volume over its side; odd faces are those across the parity direction.
LEMMA FaceVolume ==
  ASSUME NEW g, GoodGrid(g), NEW dir \in Dir
  PROVE  /\ FaceSides(g, dir) \in SidesOf
         /\ Volume(FaceSides(g, dir)) \in Nat \ {0}
         /\ Volume(g.sides) \div g.sides[dir] = Volume(FaceSides(g, dir))
         /\ Volume(FaceSides(g, dir)) % 2 = 1 => dir = g.pdir
<1> DEFINE F == FaceSides(g, dir)
           k == g.sides[dir]
<1>1. F \in SidesOf /\ k \in Nat \ {0}
      /\ \A d \in Dir : F[d] = IF d = dir THEN 1 ELSE g.sides[d]
  BY DEF FaceSides, GoodGrid, SidesOf
<1>2. \A d \in Dir : g.sides[d] = IF d = dir THEN k * F[d] ELSE F[d]
  BY <1>1
<1> HIDE DEF F
<1>3. Volume(g.sides) = k * Volume(F) /\ Volume(F) \in Nat \ {0}
  <2> HIDE DEF k
  <2>1. g.sides \in SidesOf
    BY DEF GoodGrid
  <2>2. k \in Nat \ {0} /\ F \in SidesOf
    BY <1>1
  <2> QED BY <1>2, <2>1, <2>2, ScaledVolume
<1>4. (k * Volume(F)) \div k = Volume(F)
  <2>1. k * Volume(F) = Volume(F) * k
    BY <1>1, <1>3
  <2> QED BY <1>1, <1>3, <2>1, Exact
<1>5. ASSUME dir # g.pdir PROVE Volume(F) % 2 = 0
  <2> DEFINE half == [F EXCEPT ![g.pdir] = EoSides(g)[g.pdir]]
  <2>1. /\ g.pdir \in Dir /\ EoSides(g)[g.pdir] \in Nat \ {0}
        /\ F[g.pdir] = 2 * EoSides(g)[g.pdir]
    BY <1>1, <1>5, GridHalved DEF GoodGrid, SidesOf
  <2>2. half \in SidesOf
        /\ \A d \in Dir : F[d] = IF d = g.pdir THEN 2 * half[d] ELSE half[d]
    BY <1>1, <2>1 DEF SidesOf
  <2> HIDE DEF half
  <2>3. Volume(F) = 2 * Volume(half) /\ Volume(half) \in Nat
    BY <1>1, <2>1, <2>2, HalfVolume
  <2> QED BY <2>3
<1> QED BY <1>1, <1>3, <1>4, <1>5 DEF F

\* Where the sites of a face are, in its direction.
Edge(g, ori, dir) == IF ori = BW THEN 0 ELSE g.sides[dir] - 1

\* The parity, as sites of the face, of the sites of parity p on a face.
FaceParity(g, p, ori, dir) == (p + g.origin + Edge(g, ori, dir)) % 2

\* The sizes of a face and of the halo behind it are the numbers of pairs.
LEMMA FaceSizes ==
  ASSUME NEW g, GoodGrid(g), NEW p \in Parity, NEW ori \in Ori, NEW dir \in Dir
  PROVE  /\ FaceParity(g, p, ori, dir) \in Parity
         /\ g.n[dir] > 1 =>
              /\ EoHaloPerDir(g, OppositeParity(p), ori, dir)
                   = Slots(FaceSides(g, dir), FaceParity(g, p, ori, dir))
              /\ EoSurfPerDir(g, p, ori, dir)
                   = Slots(FaceSides(g, dir), FaceParity(g, p, ori, dir))
              /\ HaloPerDir(g)[dir] = Volume(FaceSides(g, dir))
         /\ ~(g.n[dir] > 1) =>
              /\ EoHaloPerDir(g, OppositeParity(p), ori, dir) = 0
              /\ EoSurfPerDir(g, p, ori, dir) = 0
              /\ HaloPerDir(g)[dir] = 0
<1> DEFINE q == FaceParity(g, p, ori, dir)
           V == Volume(FaceSides(g, dir))
           e == Edge(g, ori, dir)
           h == HaloPerDir(g)[dir]
<1>1. /\ g.sides[dir] \in Nat \ {0} /\ g.n[dir] \in Nat \ {0}
      /\ g.origin \in {0, 1} /\ p \in {0, 1} /\ ori \in {0, 1}
  BY DEF GoodGrid, SidesOf, Parity, Ori, BW, FW
<1>2. e \in Nat /\ q \in {0, 1}
  BY <1>1 DEF Edge, FaceParity
<1>3. V \in Nat \ {0} /\ (V % 2 = 1 => dir = g.pdir)
      /\ Volume(g.sides) \div g.sides[dir] = V
  BY FaceVolume
<1>4. SurfPerDir(g)[dir] = (IF g.n[dir] > 1 THEN V ELSE 0)
  BY <1>3 DEF SurfPerDir
<1>5. h = (IF g.n[dir] > 1 THEN V ELSE 0)
  BY <1>1, <1>4 DEF HaloPerDir
<1>6. V % 2 = 1 => (q = 0 <=> (ori = FW) = (OppositeParity(p) = g.origin))
                   /\ (q = 0 <=> (ori = BW) = (p = g.origin))
  <2> SUFFICES ASSUME V % 2 = 1
               PROVE  /\ (q = 0 <=> (ori = FW) = (OppositeParity(p) = g.origin))
                      /\ (q = 0 <=> (ori = BW) = (p = g.origin))
    OBVIOUS
  <2>1. g.sides[dir] % 2 = 0
    BY <1>3 DEF GoodGrid
  <2>2. e % 2 = ori
    BY <1>1, <2>1 DEF Edge, BW
  <2>3. q = (p + g.origin + e) % 2 /\ OppositeParity(p) = 1 - p
    BY DEF FaceParity, OppositeParity
  <2>4. q = (p + g.origin + ori) % 2
    <3> HIDE DEF q, e
    <3> QED BY <1>1, <1>2, <2>2, <2>3
  <2> HIDE DEF q, V, e
  <2>5. q = 0 <=> (p + g.origin + ori) % 2 = 0
    BY <2>4
  <2>6. (p + g.origin + ori) % 2 = 0 <=> (ori = 1 <=> 1 - p = g.origin)
    BY <1>1
  <2>7. (p + g.origin + ori) % 2 = 0 <=> (ori = 0 <=> p = g.origin)
    BY <1>1
  <2> QED BY <2>3, <2>5, <2>6, <2>7, Zenon DEF BW, FW
<1>7. CASE g.n[dir] > 1
  <2>1. /\ EoHaloPerDir(g, OppositeParity(p), ori, dir)
             = V \div 2 + (IF dir = g.pdir /\ V % 2 = 1
                              /\ (ori = FW) = (OppositeParity(p) = g.origin) THEN 1 ELSE 0)
        /\ EoSurfPerDir(g, p, ori, dir)
             = V \div 2 + (IF dir = g.pdir /\ V % 2 = 1
                              /\ (ori = BW) = (p = g.origin) THEN 1 ELSE 0)
    BY <1>4, <1>5, <1>7 DEF EoHaloPerDir, EoSurfPerDir
  <2>2. Slots(FaceSides(g, dir), q) = V \div 2 + (IF V % 2 = 1 /\ q = 0 THEN 1 ELSE 0)
    BY DEF Slots
  <2> HIDE DEF q, V, h
  <2> QED BY <1>2, <1>3, <1>5, <1>6, <1>7, <2>1, <2>2 DEF q, V, h, Parity
<1>8. CASE ~(g.n[dir] > 1)
  <2>1. SurfPerDir(g)[dir] = 0 /\ HaloPerDir(g)[dir] = 0
    BY <1>4, <1>5, <1>8
  <2>2. 0 \div 2 = 0 /\ 0 % 2 # 1
    OBVIOUS
  <2> QED BY <1>2, <1>8, <2>1, <2>2 DEF EoHaloPerDir, EoSurfPerDir, Parity
<1> QED BY <1>7, <1>8

\* A step leads to the other parity: the wrap around an odd side does not.
Alternates(g, dir) == g.n[dir] > 1 \/ g.sides[dir] % 2 = 0

\* One step away from a site: on the same rank, or beyond a face.
LEMMA OneStepAway ==
  ASSUME NEW g, GoodGrid(g), NEW p \in Parity, NEW x \in EoSites(g),
         NEW ori \in Ori, NEW dir \in Dir
  PROVE  LET c == CoordsOfEoSite(g, p, x)
             t == TriviallyShifted(g, p, x, ori, dir)
         IN  /\ OnFace(g, p, x, ori, dir) <=> g.n[dir] > 1 /\ c[dir] = Edge(g, ori, dir)
             /\ t = [d \in Dir |-> t[d]] /\ \A d \in Dir \ {dir} : t[d] = c[d]
             /\ ~OnFace(g, p, x, ori, dir) => t \in Box(g.sides)
             /\ Alternates(g, dir) => ParityAt(g, t) = OppositeParity(p)
<1> DEFINE c == CoordsOfEoSite(g, p, x)
           t == TriviallyShifted(g, p, x, ori, dir)
           L == g.sides[dir]
           m == MoveOffset(ori)
<1>1. c \in Box(g.sides) /\ ParityAt(g, c) = p
  BY EoCoordsThere
<1>2. /\ L \in Nat \ {0} /\ g.n[dir] \in Nat \ {0} /\ c[dir] \in 0..(L - 1)
      /\ g.origin \in {0, 1} /\ p \in {0, 1}
  BY <1>1 DEF GoodGrid, SidesOf, Box, Parity
<1>3. m \in {-1, 1} /\ (ori = BW <=> m = -1)
  BY DEF MoveOffset, Ori, BW, FW
<1>4. t = [c EXCEPT ![dir] = IF g.n[dir] = 1 THEN (@ + m) % L ELSE @ + m]
  <2>1. Shifted(c, ori, dir) = [c EXCEPT ![dir] = @ + m]
    BY DEF Shifted
  <2>2. [[c EXCEPT ![dir] = @ + m] EXCEPT ![dir] = @ % L] = [c EXCEPT ![dir] = (@ + m) % L]
    BY <1>1 DEF Box
  <2> HIDE DEF c, m, L
  <2> QED BY <2>1, <2>2 DEF TriviallyShifted, c, L
<1> HIDE DEF c, m
<1>5. t[dir] = (IF g.n[dir] = 1 THEN (c[dir] + m) % L ELSE c[dir] + m)
      /\ \A d \in Dir \ {dir} : t[d] = c[d]
  BY <1>1, <1>4 DEF Box
<1>6. t = [d \in Dir |-> t[d]] /\ c = [d \in Dir |-> c[d]]
  BY <1>1, <1>4 DEF Box
<1>7. OnFace(g, p, x, ori, dir) <=> t[dir] < 0 \/ t[dir] >= L
  BY DEF OnFace, Exceeds
<1>8. Edge(g, ori, dir) = IF m = -1 THEN 0 ELSE L - 1
  BY <1>3 DEF Edge
<1> HIDE DEF t, L
<1>9. OnFace(g, p, x, ori, dir) <=> g.n[dir] > 1 /\ c[dir] = Edge(g, ori, dir)
  <2>1. CASE g.n[dir] = 1
    <3>1. (c[dir] + m) % L \in 0..(L - 1)
      BY <1>2, <1>3
    <3> QED BY <1>2, <1>5, <1>7, <2>1, <3>1
  <2>2. CASE g.n[dir] # 1
    BY <1>2, <1>3, <1>5, <1>7, <1>8, <2>2
  <2> QED BY <2>1, <2>2
<1>10. t = [d \in Dir |-> t[d]] /\ \A d \in Dir \ {dir} : t[d] = c[d]
  BY <1>5, <1>6
<1>11. t[dir] \in Int
  BY <1>2, <1>3, <1>5
<1>12. ASSUME ~OnFace(g, p, x, ori, dir) PROVE t \in Box(g.sides)
  <2>1. t[dir] \in Nat /\ t[dir] < g.sides[dir]
    BY <1>7, <1>11, <1>12, <1>2 DEF L
  <2>2. \A d \in Dir : t[d] \in Nat /\ t[d] < g.sides[d]
    BY <1>1, <1>5, <2>1 DEF Box
  <2> QED BY <1>6, <2>2 DEF Box
<1>13. ASSUME Alternates(g, dir)
       PROVE  ParityAt(g, t) = OppositeParity(p)
  <2> DEFINE move == t[dir] - c[dir]
  <2>1. move \in Int /\ move % 2 = 1
    <3>1. CASE g.n[dir] > 1
      BY <1>2, <1>3, <1>5, <3>1
    <3>2. CASE ~(g.n[dir] > 1)
      <4>1. g.n[dir] = 1 /\ L % 2 = 0
        BY <1>2, <1>13, <3>2 DEF Alternates, L
      <4>2. CASE c[dir] + m \in 0..(L - 1)
        <5>1. (c[dir] + m) % L = c[dir] + m
          BY <1>2, <4>2
        <5> QED BY <1>2, <1>3, <1>5, <4>1, <5>1
      <4>3. CASE c[dir] + m = -1
        <5>1. L - 1 \in 0..(L - 1)
          BY <1>2
        <5>2. (-1) % L = L - 1
          BY <1>2
        <5> QED BY <1>2, <1>3, <1>5, <4>1, <4>3, <5>2
      <4>4. CASE c[dir] + m = L
        <5>1. L % L = 0
          BY <1>2
        <5> QED BY <1>2, <1>3, <1>5, <4>1, <4>4, <5>1
      <4> QED BY <1>2, <1>3, <4>2, <4>3, <4>4
    <3> QED BY <3>1, <3>2
  <2>2. t = [c EXCEPT ![dir] = @ + move]
    BY <1>2, <1>5, <1>6, <1>11
  <2>3. c \in [Dir -> Int]
    BY <1>1 DEF Box
  <2> HIDE DEF move
  <2>4. CoordsParity(c) \in {0, 1} /\ CoordsParity(t) = (CoordsParity(c) + move) % 2
    BY <2>1, <2>2, <2>3, ParityMoved DEF Parity
  <2>5. (CoordsParity(c) + g.origin) % 2 = p
    BY <1>1 DEF ParityAt
  <2>6. CoordsParity(t) = 1 - CoordsParity(c)
    BY <2>1, <2>4
  <2>7. (CoordsParity(t) + g.origin) % 2 = 1 - p
    BY <1>2, <2>4, <2>5, <2>6
  <2> QED BY <2>7 DEF ParityAt, OppositeParity
<1> QED BY <1>9, <1>10, <1>12, <1>13 DEF c, t

\* The sites that look beyond a face, and where in the halo.
Lookers(g, p, ori, dir) == {x \in EoSites(g) : OnFace(g, p, x, ori, dir)}

Pos(g, p, x, ori, dir) == PosInEoHalo(g, TriviallyShifted(g, p, x, ori, dir), dir)

\* A site on a face, as a site of the face.
LEMMA PosOnFace ==
  ASSUME NEW g, GoodGrid(g), NEW p \in Parity, NEW ori \in Ori, NEW dir \in Dir,
         NEW c \in Box(g.sides), c[dir] = Edge(g, ori, dir), ParityAt(g, c) = p
  PROVE  LET f == [c EXCEPT ![dir] = 0]
         IN  /\ f \in Box(FaceSides(g, dir))
             /\ CoordsParity(f) = FaceParity(g, p, ori, dir)
             /\ c = [f EXCEPT ![dir] = Edge(g, ori, dir)]
<1> DEFINE f == [c EXCEPT ![dir] = 0]
           e == Edge(g, ori, dir)
<1>1. c \in [Dir -> Nat] /\ \A d \in Dir : c[d] < g.sides[d]
  BY DEF Box
<1>2. f \in Box(FaceSides(g, dir))
  <2>1. \A d \in Dir : f[d] \in Nat /\ f[d] < FaceSides(g, dir)[d]
    BY <1>1 DEF FaceSides, GoodGrid, SidesOf
  <2>2. f = [d \in Dir |-> f[d]]
    BY <1>1
  <2> HIDE DEF f
  <2> QED BY <2>1, <2>2 DEF Box
<1>3. e \in Nat /\ c = [f EXCEPT ![dir] = @ + e] /\ c = [f EXCEPT ![dir] = e]
  <2>1. e = c[dir] /\ e \in Nat
    BY <1>1
  <2>2. c = [f EXCEPT ![dir] = e]
    BY <1>1, <2>1
  <2>3. f[dir] = 0 /\ f[dir] + e = e
    BY <1>1, <2>1
  <2> QED BY <2>1, <2>2, <2>3
<1>4. f \in [Dir -> Int]
  BY <1>2 DEF Box
<1> HIDE DEF f, e
<1>5. CoordsParity(f) \in {0, 1} /\ CoordsParity(c) = (CoordsParity(f) + e) % 2
  <2>1. e \in Int /\ c = [f EXCEPT ![dir] = @ + e]
    BY <1>3
  <2> QED BY <1>4, <2>1, ParityMoved DEF Parity
<1>6. CoordsParity(f) = (p + g.origin + e) % 2
  <2>1. p = (CoordsParity(c) + g.origin) % 2 /\ p \in {0, 1} /\ g.origin \in {0, 1}
    BY DEF ParityAt, Parity, GoodGrid
  <2>2. e % 2 \in {0, 1} /\ e = 2 * (e \div 2) + (e % 2)
    BY <1>3
  <2> QED BY <1>3, <1>5, <2>1, <2>2
<1> QED BY <1>2, <1>3, <1>6 DEF f, e, FaceParity

\* Behind a face each looker has a slot of its own, and no slot is left over.
LEMMA SlotsBehindFace ==
  ASSUME NEW g, GoodGrid(g), NEW p \in Parity, NEW ori \in Ori, NEW dir \in Dir
  PROVE  LET size == EoHaloPerDir(g, OppositeParity(p), ori, dir)
             face == Lookers(g, p, ori, dir)
         IN  /\ size \in Nat
             /\ \A x \in face : Pos(g, p, x, ori, dir) \in 0..(size - 1)
             /\ \A x, y \in face : Pos(g, p, x, ori, dir) = Pos(g, p, y, ori, dir) => x = y
             /\ \A i \in 0..(size - 1) : \E x \in face : Pos(g, p, x, ori, dir) = i
<1> DEFINE size == EoHaloPerDir(g, OppositeParity(p), ori, dir)
           face == Lookers(g, p, ori, dir)
           F == FaceSides(g, dir)
           q == FaceParity(g, p, ori, dir)
           at(x) == CoordsOfEoSite(g, p, x)
           on(x) == [at(x) EXCEPT ![dir] = 0]
           e == Edge(g, ori, dir)
<1>1. q \in Parity /\ F \in SidesOf
  BY FaceSizes, FaceVolume
<1>2. CASE ~(g.n[dir] > 1)
  <2>1. size = 0
    BY <1>2, FaceSizes
  <2>2. face = {}
    BY <1>2, OneStepAway DEF Lookers
  <2> QED BY <2>1, <2>2
<1>3. CASE g.n[dir] > 1
  <2>1. size = Slots(F, q)
    BY <1>3, FaceSizes
  <2>2. \A x \in face : /\ x \in EoSites(g) /\ at(x) \in Box(g.sides)
                        /\ EoSiteOf(g, at(x)) = x
                        /\ on(x) \in Box(F) /\ CoordsParity(on(x)) = q
                        /\ at(x) = [on(x) EXCEPT ![dir] = e]
                        /\ Pos(g, p, x, ori, dir) = SiteOfCoords(on(x), F) \div 2
    <3> TAKE x \in face
    <3>1. x \in EoSites(g) /\ OnFace(g, p, x, ori, dir)
      BY DEF Lookers
    <3>2. /\ at(x) \in Box(g.sides) /\ ParityAt(g, at(x)) = p /\ EoSiteOf(g, at(x)) = x
      BY <3>1, EoCoordsThere
    <3>3. /\ at(x)[dir] = e
          /\ [TriviallyShifted(g, p, x, ori, dir) EXCEPT ![dir] = 0] = on(x)
      <4> DEFINE t == TriviallyShifted(g, p, x, ori, dir)
      <4>1. /\ at(x)[dir] = e /\ t = [d \in Dir |-> t[d]]
            /\ \A d \in Dir \ {dir} : t[d] = at(x)[d]
        BY <3>1, OneStepAway
      <4>2. at(x) = [d \in Dir |-> at(x)[d]]
        BY <3>2 DEF Box
      <4> HIDE DEF t, at
      <4>3. [t EXCEPT ![dir] = 0] = [at(x) EXCEPT ![dir] = 0]
        BY <4>1, <4>2
      <4> QED BY <4>1, <4>3 DEF t
    <3>4. /\ on(x) \in Box(F) /\ CoordsParity(on(x)) = q /\ at(x) = [on(x) EXCEPT ![dir] = e]
      BY <3>2, <3>3, PosOnFace
    <3>5. Pos(g, p, x, ori, dir) = SiteOfCoords(on(x), F) \div 2
      BY <3>3 DEF Pos, PosInEoHalo, FaceSides
    <3> QED BY <3>1, <3>2, <3>4, <3>5
  <2>3. \A i \in 0..(size - 1) : \E x \in face : Pos(g, p, x, ori, dir) = i
    <3> TAKE i \in 0..(size - 1)
    <3>1. PICK f \in Box(F) : CoordsParity(f) = q /\ SiteOfCoords(f, F) \div 2 = i
      BY <1>1, <2>1, OnePerPair
    <3> DEFINE c == [f EXCEPT ![dir] = e]
               x == EoSiteOf(g, c)
    <3>2. e \in Nat /\ e < g.sides[dir]
      BY DEF Edge, GoodGrid, SidesOf
    <3>3. f \in [Dir -> Nat] /\ f[dir] = 0 /\ \A d \in Dir \ {dir} : f[d] < g.sides[d]
      BY DEF Box, FaceSides, GoodGrid, SidesOf
    <3>4. c \in Box(g.sides) /\ c[dir] = e /\ [c EXCEPT ![dir] = 0] = f
      BY <3>2, <3>3 DEF Box
    <3>5. ParityAt(g, c) = p
      <4>1. f \in [Dir -> Int] /\ e \in Int /\ c = [f EXCEPT ![dir] = @ + e]
        <5>1. f[dir] + e = e
          BY <3>2, <3>3
        <5>2. c = [f EXCEPT ![dir] = @ + e]
          BY <5>1
        <5>3. f \in [Dir -> Int] /\ e \in Int
          BY <3>2, <3>3
        <5> QED BY <5>2, <5>3
      <4> HIDE DEF c, e
      <4>2. CoordsParity(f) \in {0, 1} /\ CoordsParity(c) = (CoordsParity(f) + e) % 2
        BY <4>1, ParityMoved DEF Parity
      <4>3. CoordsParity(f) = (p + g.origin + e) % 2 /\ p \in {0, 1} /\ g.origin \in {0, 1}
        BY <3>1 DEF FaceParity, Parity, GoodGrid, e
      <4>4. (CoordsParity(c) + g.origin) % 2 = p
        BY <4>1, <4>2, <4>3
      <4> QED BY <4>4 DEF ParityAt
    <3> HIDE DEF c
    <3>6. x \in EoSites(g) /\ at(x) = c
      BY <3>4, <3>5, EoCoordsBack
    <3>7. x \in face
      BY <1>3, <3>4, <3>6, OneStepAway DEF Lookers
    <3>8. Pos(g, p, x, ori, dir) = i
      BY <2>2, <3>1, <3>4, <3>6, <3>7
    <3> QED BY <3>7, <3>8
  <2>4. size \in Nat
    BY <1>1, <2>1, OnePerPair
  <2>5. \A x \in face : Pos(g, p, x, ori, dir) \in 0..(size - 1)
    <3> HIDE DEF size, F, q, at, on, e, face
    <3>1. \A f \in Box(F) : CoordsParity(f) = q =>
             SiteOfCoords(f, F) \div 2 \in 0..(Slots(F, q) - 1)
      BY <1>1, OnePerPair
    <3> QED BY <2>1, <2>2, <3>1
  <2>6. \A x, y \in face : Pos(g, p, x, ori, dir) = Pos(g, p, y, ori, dir) => x = y
    <3> TAKE x, y \in face
    <3> HAVE Pos(g, p, x, ori, dir) = Pos(g, p, y, ori, dir)
    <3> HIDE DEF size, F, q, at, on, e, face
    <3>1. on(x) = on(y)
      <4>1. \A f, h \in Box(F) : /\ CoordsParity(f) = q /\ CoordsParity(h) = q
                                 /\ SiteOfCoords(f, F) \div 2 = SiteOfCoords(h, F) \div 2
                                 => f = h
        BY <1>1, OnePerPair
      <4> QED BY <2>2, <4>1
    <3> QED BY <2>2, <3>1
  <2> QED BY <2>3, <2>4, <2>5, <2>6
<1> QED BY <1>2, <1>3

------------------------------------------------------------------------------
(* The sections of the halo, one after the other.                          *)

\* The faces, by their number in a loop on the orientations, then on the directions.
AllFaces == Ori \X Dir

NFaces == 2 * NDims

FaceNumber(f) == f[1] * NDims + f[2]

OffsetsUpTo(sizes, m, offset) ==
  offset = [k \in 0..m |-> IF k = 0 THEN 0 ELSE offset[k - 1] + sizes[FaceAt(k - 1)]]

\* The number of a face and the face with a number are inverse.
LEMMA FacesNumbered ==
  /\ NFaces \in Nat \ {0} /\ NDims \in Nat \ {0} /\ NFaces = NDims + NDims
  /\ \A f \in AllFaces : FaceNumber(f) \in 0..(NFaces - 1) /\ FaceAt(FaceNumber(f)) = f
  /\ \A k \in 0..(NFaces - 1) : FaceAt(k) \in AllFaces /\ FaceNumber(FaceAt(k)) = k
<1>1. NFaces \in Nat \ {0} /\ NDims \in Nat \ {0} /\ NFaces = NDims + NDims
  BY NDimsNat DEF NFaces
<1>2. ASSUME NEW o \in Ori, NEW d \in Dir
      PROVE  FaceNumber(<<o, d>>) \in 0..(NFaces - 1) /\ FaceAt(FaceNumber(<<o, d>>)) = <<o, d>>
  <2>1. o \in {0, 1} /\ d \in 0..(NDims - 1) /\ o \in Nat
    BY DEF Ori, BW, FW, Dir
  <2>2. (o * NDims + d) \div NDims = o /\ (o * NDims + d) % NDims = d
    BY <1>1, <2>1, QuotientAndRemainder
  <2>3. o * NDims + d \in 0..(NFaces - 1)
    <3>1. o * NDims = IF o = 0 THEN 0 ELSE NDims
      BY <1>1, <2>1
    <3> QED BY <1>1, <2>1, <3>1
  <2> QED BY <2>2, <2>3 DEF FaceNumber, FaceAt
<1>3. ASSUME NEW k \in 0..(NFaces - 1)
      PROVE  FaceAt(k) \in AllFaces /\ FaceNumber(FaceAt(k)) = k
  <2>1. k \div NDims \in Nat /\ k % NDims \in 0..(NDims - 1)
        /\ k = (k \div NDims) * NDims + (k % NDims)
    <3>1. k \in Nat /\ NDims \in Nat \ {0}
      BY <1>1
    <3> QED BY <3>1, DivideAndRest
  <2>2. k \in 0..(2 * NDims - 1)
    BY DEF NFaces
  <2>3. k \div NDims \in 0..(2 - 1)
    BY <1>1, <2>2, QuotientBounded
  <2>4. k \div NDims \in Ori /\ k % NDims \in Dir
    BY <2>1, <2>3 DEF Ori, BW, FW, Dir
  <2> QED BY <2>1, <2>4 DEF FaceAt, FaceNumber, AllFaces
<1> QED BY <1>1, <1>2, <1>3 DEF AllFaces

\* The running offset is what its loop finds.
LEMMA OffsetsThere ==
  ASSUME NEW sizes
  PROVE  \E offset : /\ OffsetsUpTo(sizes, NFaces, offset)
                     /\ \A k : FirstFaces(sizes, k) = offset[k]
<1> DEFINE T == {m \in Nat : ~ \E offset : OffsetsUpTo(sizes, m, offset)}
<1>1. T = {}
  <2> SUFFICES ASSUME T # {} PROVE FALSE
    OBVIOUS
  <2>1. PICK m \in T : \A y \in T : m <= y
    <3>1. T \in SUBSET Nat
      OBVIOUS
    <3> HIDE DEF T
    <3> QED BY <3>1, NatMin
  <2>2. CASE m = 0
    <3>1. OffsetsUpTo(sizes, m, [k \in 0..m |-> 0])
      BY <2>2 DEF OffsetsUpTo
    <3> QED BY <3>1
  <2>3. CASE m # 0
    <3>1. m - 1 \in Nat /\ m - 1 \notin T
      BY <2>1, <2>3
    <3>2. PICK b : OffsetsUpTo(sizes, m - 1, b)
      BY <3>1
    <3> DEFINE B == [k \in 0..m |-> IF k = m THEN b[m - 1] + sizes[FaceAt(m - 1)] ELSE b[k]]
    <3>3. \A k \in 0..(m - 1) : B[k] = b[k]
      BY <3>1
    <3>4. \A k \in 0..(m - 1) : b[k] = IF k = 0 THEN 0 ELSE b[k - 1] + sizes[FaceAt(k - 1)]
      BY <3>2 DEF OffsetsUpTo
    <3>5. \A k \in 0..m : B[k] = IF k = 0 THEN 0 ELSE B[k - 1] + sizes[FaceAt(k - 1)]
      <4> TAKE k \in 0..m
      <4>1. CASE k = m
        BY <4>1, <2>3, <3>1, <3>3
      <4>2. CASE k # m
        <5>1. k \in 0..(m - 1) /\ (k # 0 => k - 1 \in 0..(m - 1))
          BY <4>2
        <5> QED BY <5>1, <3>3, <3>4
      <4> QED BY <4>1, <4>2
    <3>6. B = [k \in 0..m |-> B[k]]
      OBVIOUS
    <3> HIDE DEF B
    <3>7. OffsetsUpTo(sizes, m, B)
      BY <3>5, <3>6 DEF OffsetsUpTo
    <3> QED BY <3>7
  <2> QED BY <2>2, <2>3
<1> DEFINE G == CHOOSE offset : OffsetsUpTo(sizes, NFaces, offset)
<1>2. OffsetsUpTo(sizes, NFaces, G)
  BY <1>1, FacesNumbered
<1>3. \A k : FirstFaces(sizes, k) = G[k]
  BY DEF FirstFaces, OffsetsUpTo, NFaces
<1> QED BY <1>2, <1>3

\* The running offset of the sections of the faces.
LEMMA OffsetsStep ==
  ASSUME NEW sizes \in [AllFaces -> Nat]
  PROVE  \E offset :
           /\ \A k : FirstFaces(sizes, k) = offset[k]
           /\ offset[0] = 0 /\ \A k \in 0..NFaces : offset[k] \in Nat
           /\ \A k \in 0..(NFaces - 1) :
                /\ FaceAt(k) \in AllFaces /\ sizes[FaceAt(k)] \in Nat
                /\ offset[k + 1] = offset[k] + sizes[FaceAt(k)]
<1> DEFINE N == NFaces
<1>0. N \in Nat \ {0}
  BY FacesNumbered
<1>1. PICK offset : /\ OffsetsUpTo(sizes, N, offset)
                    /\ \A k : FirstFaces(sizes, k) = offset[k]
  BY OffsetsThere
<1>2. /\ offset[0] = 0
      /\ \A k \in 0..(N - 1) : offset[k + 1] = offset[k] + sizes[FaceAt(k)]
  <2>1. \A k \in 0..N : offset[k] = IF k = 0 THEN 0 ELSE offset[k - 1] + sizes[FaceAt(k - 1)]
    BY <1>1 DEF OffsetsUpTo
  <2>2. ASSUME NEW k \in 0..(N - 1) PROVE offset[k + 1] = offset[k] + sizes[FaceAt(k)]
    <3>1. k + 1 \in 0..N /\ k + 1 # 0 /\ (k + 1) - 1 = k
      BY <1>0
    <3> QED BY <2>1, <3>1
  <2> QED BY <1>0, <2>1, <2>2
<1>3. \A k \in 0..(N - 1) : FaceAt(k) \in AllFaces /\ sizes[FaceAt(k)] \in Nat
  BY FacesNumbered
<1> HIDE DEF N
<1>4. \A k \in 0..N : offset[k] \in Nat
  <2> DEFINE T == {k \in 0..N : offset[k] \notin Nat}
  <2> SUFFICES ASSUME T # {} PROVE FALSE
    OBVIOUS
  <2>1. PICK k \in T : \A z \in T : k <= z
    <3>1. T \in SUBSET Nat
      BY <1>0
    <3> HIDE DEF T
    <3> QED BY <3>1, NatMin
  <2>2. k # 0
    BY <1>2, <2>1
  <2>3. k - 1 \in 0..(N - 1) /\ k - 1 \notin T /\ (k - 1) + 1 = k
    BY <1>0, <2>1, <2>2
  <2>4. offset[k] = offset[k - 1] + sizes[FaceAt(k - 1)]
    BY <1>2, <2>3
  <2> QED BY <1>0, <1>3, <2>3, <2>4
<1> QED BY <1>1, <1>2, <1>3, <1>4 DEF N

\* The sections of the faces follow one another and fill the whole.
LEMMA SectionsFill ==
  ASSUME NEW sizes \in [AllFaces -> Nat]
  PROVE  LET start(f) == FirstFaces(sizes, FaceNumber(f))
             total == FirstFaces(sizes, NFaces)
         IN  /\ total \in Nat
             /\ \A f \in AllFaces : start(f) \in Nat /\ start(f) + sizes[f] <= total
             /\ \A f, h \in AllFaces : FaceNumber(f) < FaceNumber(h)
                                      => start(f) + sizes[f] <= start(h)
             /\ \A t \in 0..(total - 1) :
                   \E f \in AllFaces : \E i \in 0..(sizes[f] - 1) : t = start(f) + i
<1> DEFINE N == NFaces
<1>0. N \in Nat \ {0}
  BY FacesNumbered
<1>1. PICK offset :
        /\ \A k : FirstFaces(sizes, k) = offset[k]
        /\ offset[0] = 0 /\ \A k \in 0..N : offset[k] \in Nat
        /\ \A k \in 0..(N - 1) : /\ FaceAt(k) \in AllFaces /\ sizes[FaceAt(k)] \in Nat
                                 /\ offset[k + 1] = offset[k] + sizes[FaceAt(k)]
  BY OffsetsStep
<1> HIDE DEF N
<1>2. offset[0] = 0 /\ \A k \in 0..(N - 1) : offset[k + 1] = offset[k] + sizes[FaceAt(k)]
  BY <1>1
<1>3. \A k \in 0..(N - 1) : FaceAt(k) \in AllFaces /\ sizes[FaceAt(k)] \in Nat
  BY <1>1
<1>4. \A k \in 0..N : offset[k] \in Nat
  BY <1>1
<1>5. \A j \in 0..N, k \in 0..N : j <= k => offset[j] <= offset[k]
  <2> TAKE j \in 0..N
  <2> DEFINE T == {k \in 0..N : j <= k /\ ~(offset[j] <= offset[k])}
  <2> SUFFICES ASSUME T # {} PROVE FALSE
    OBVIOUS
  <2>1. PICK k \in T : \A z \in T : k <= z
    <3>1. T \in SUBSET Nat
      BY <1>0
    <3> HIDE DEF T
    <3> QED BY <3>1, NatMin
  <2>2. k # j
    BY <1>4, <2>1
  <2>3. k - 1 \in 0..(N - 1) /\ k - 1 \in 0..N /\ k - 1 \notin T /\ (k - 1) + 1 = k /\ j <= k - 1
    BY <1>0, <2>1, <2>2
  <2>4. offset[k] = offset[k - 1] + sizes[FaceAt(k - 1)]
    BY <1>2, <2>3
  <2>5. offset[j] <= offset[k - 1] /\ offset[j] \in Nat /\ offset[k - 1] \in Nat
        /\ sizes[FaceAt(k - 1)] \in Nat
    BY <1>3, <1>4, <2>3
  <2> QED BY <2>1, <2>4, <2>5
<1>6. \A f \in AllFaces : /\ FaceNumber(f) \in 0..(N - 1) /\ sizes[f] \in Nat
                       /\ FaceNumber(f) + 1 \in 0..N
                       /\ offset[FaceNumber(f) + 1] = offset[FaceNumber(f)] + sizes[f]
  <2> TAKE f \in AllFaces
  <2>1. FaceNumber(f) \in 0..(N - 1) /\ FaceAt(FaceNumber(f)) = f
    BY FacesNumbered DEF N
  <2> QED BY <1>0, <1>2, <2>1
<1>7. ASSUME NEW t \in 0..(offset[N] - 1)
      PROVE  \E f \in AllFaces : \E i \in 0..(sizes[f] - 1) : t = offset[FaceNumber(f)] + i
  <2> DEFINE T == {k \in 0..N : t < offset[k]}
  <2>0. offset[N] \in Nat /\ N \in T /\ t \in Nat
    BY <1>0, <1>4
  <2>1. PICK k \in T : \A z \in T : k <= z
    <3>1. T \in SUBSET Nat /\ T # {}
      BY <1>0, <2>0
    <3> HIDE DEF T
    <3> QED BY <3>1, NatMin
  <2>2. k # 0
    BY <1>2, <2>0, <2>1
  <2>3. k - 1 \in 0..(N - 1) /\ k - 1 \notin T /\ (k - 1) + 1 = k
    BY <1>0, <2>1, <2>2
  <2>4. offset[k] = offset[k - 1] + sizes[FaceAt(k - 1)] /\ t < offset[k]
        /\ offset[k - 1] \in Nat /\ offset[k - 1] <= t
    BY <1>0, <1>2, <1>4, <2>0, <2>1, <2>3
  <2> DEFINE f == FaceAt(k - 1)
             i == t - offset[k - 1]
  <2>5. f \in AllFaces /\ FaceNumber(f) = k - 1 /\ sizes[f] \in Nat
    BY <2>3, FacesNumbered DEF N
  <2>6. i \in 0..(sizes[f] - 1) /\ t = offset[FaceNumber(f)] + i
    BY <2>0, <2>4, <2>5
  <2> QED BY <2>5, <2>6
<1>8. \A f \in AllFaces : offset[FaceNumber(f)] \in Nat
                       /\ offset[FaceNumber(f)] + sizes[f] <= offset[N]
  BY <1>0, <1>4, <1>5, <1>6
<1>9. ASSUME NEW f \in AllFaces, NEW h \in AllFaces, FaceNumber(f) < FaceNumber(h)
      PROVE  offset[FaceNumber(f)] + sizes[f] <= offset[FaceNumber(h)]
  <2>1. FaceNumber(f) + 1 \in 0..N /\ FaceNumber(h) \in 0..N
        /\ FaceNumber(f) + 1 <= FaceNumber(h)
    BY <1>0, <1>6, <1>9
  <2> QED BY <1>5, <1>6, <2>1
<1>10. offset[N] \in Nat
  BY <1>0, <1>4
<1> QED BY <1>1, <1>7, <1>8, <1>9, <1>10 DEF N

\* The loops end where the last section does.
LEMMA LastSection ==
  ASSUME NEW sizes \in [AllFaces -> Nat]
  PROVE  FirstFaces(sizes, NFaces)
           = FirstFaces(sizes, FW * NDims + (NDims - 1)) + sizes[<<FW, NDims - 1>>]
<1>1. PICK offset :
        /\ \A k : FirstFaces(sizes, k) = offset[k]
        /\ \A k \in 0..(NFaces - 1) : offset[k + 1] = offset[k] + sizes[FaceAt(k)]
  BY OffsetsStep
<1> DEFINE f == <<FW, NDims - 1>>
<1>2. NDims \in Nat \ {0} /\ NFaces = NDims + NDims
  BY FacesNumbered
<1>3. f \in AllFaces
  BY <1>2 DEF AllFaces, Ori, Dir, FW
<1>4. FaceNumber(f) \in 0..(NFaces - 1) /\ FaceAt(FaceNumber(f)) = f
  BY <1>3, FacesNumbered
<1>5. FaceNumber(f) = FW * NDims + (NDims - 1) /\ FaceNumber(f) + 1 = NFaces
  BY <1>2 DEF FaceNumber, FW
<1>6. offset[FaceNumber(f) + 1] = offset[FaceNumber(f)] + sizes[f]
  BY <1>1, <1>4
<1> QED BY <1>1, <1>5, <1>6

\* Two sections per direction, that together have m times its size.
LEMMA TotalIs ==
  ASSUME NEW sizes \in [AllFaces -> Nat], NEW w \in [Dir -> Nat], NEW m \in {1, 2},
         \A d \in Dir : sizes[<<BW, d>>] + sizes[<<FW, d>>] = m * w[d]
  PROVE  SumOnDirs(w) \in Nat /\ FirstFaces(sizes, NFaces) = m * SumOnDirs(w)
<1> DEFINE D == NDims
<1>0. D \in Nat \ {0} /\ NFaces = D + D /\ NFaces \in Nat
  BY FacesNumbered
<1>1. PICK offset :
        /\ \A k : FirstFaces(sizes, k) = offset[k]
        /\ offset[0] = 0 /\ \A k \in 0..NFaces : offset[k] \in Nat
        /\ \A k \in 0..(NFaces - 1) : offset[k + 1] = offset[k] + sizes[FaceAt(k)]
  BY OffsetsStep
<1>2. PICK sum : SumsUpTo(w, D, sum) /\ SumOnDirs(w) = sum[D]
  BY DirSumsThere
<1>3. sum[0] = 0 /\ \A d \in 0..(D - 1) : sum[d + 1] = sum[d] + w[d]
  <2>1. \A d \in 0..D : sum[d] = IF d = 0 THEN 0 ELSE sum[d - 1] + w[d - 1]
    BY <1>2 DEF SumsUpTo
  <2>2. ASSUME NEW d \in 0..(D - 1) PROVE sum[d + 1] = sum[d] + w[d]
    <3>1. d + 1 \in 0..D /\ d + 1 # 0 /\ (d + 1) - 1 = d
      BY <1>0
    <3> QED BY <2>1, <3>1
  <2> QED BY <1>0, <2>1, <2>2
<1>4. ASSUME NEW d \in 0..(D - 1)
      PROVE  /\ w[d] \in Nat /\ sizes[<<BW, d>>] \in Nat /\ sizes[<<FW, d>>] \in Nat
             /\ sizes[<<BW, d>>] + sizes[<<FW, d>>] = m * w[d]
             /\ offset[d + 1] = offset[d] + sizes[<<BW, d>>]
             /\ offset[(D + d) + 1] = offset[D + d] + sizes[<<FW, d>>]
  <2>1. d \in Dir /\ <<BW, d>> \in AllFaces /\ <<FW, d>> \in AllFaces
    BY DEF Dir, AllFaces, Ori
  <2>2. FaceNumber(<<BW, d>>) = d /\ FaceNumber(<<FW, d>>) = D + d
    BY <1>0 DEF FaceNumber, BW, FW
  <2>3. FaceAt(d) = <<BW, d>> /\ FaceAt(D + d) = <<FW, d>>
    BY <2>1, <2>2, FacesNumbered
  <2>4. d \in 0..(NFaces - 1) /\ D + d \in 0..(NFaces - 1)
    BY <1>0
  <2> QED BY <1>1, <2>1, <2>3, <2>4
<1>5. \A d \in 0..D : offset[d] \in Nat /\ offset[D + d] \in Nat
  BY <1>0, <1>1
<1> HIDE DEF D
<1> DEFINE Even(d) == sum[d] \in Nat /\ (offset[D + d] - offset[D]) + offset[d] = m * sum[d]
           T == {d \in 0..D : ~Even(d)}
<1>6. T = {}
  <2> SUFFICES ASSUME T # {} PROVE FALSE
    OBVIOUS
  <2>1. PICK k \in T : \A z \in T : k <= z
    <3>1. T \in SUBSET Nat
      BY <1>0
    <3> HIDE DEF T
    <3> QED BY <3>1, NatMin
  <2>2. k # 0
    <3>1. D + 0 = D /\ offset[D] \in Nat /\ offset[0] = 0 /\ sum[0] = 0
      BY <1>0, <1>1, <1>3, <1>5
    <3>2. (offset[D + 0] - offset[D]) + offset[0] = m * sum[0] /\ sum[0] \in Nat
      BY <3>1
    <3> QED BY <2>1, <3>2
  <2> DEFINE d == k - 1
  <2>3. d \in 0..(D - 1) /\ d \notin T /\ d + 1 = k /\ (D + d) + 1 = D + k /\ d \in 0..D
    BY <1>0, <2>1, <2>2
  <2>4. Even(d)
    BY <2>3
  <2>5. sum[k] = sum[d] + w[d]
    BY <1>3, <2>3
  <2>6. /\ w[d] \in Nat /\ sizes[<<BW, d>>] \in Nat /\ sizes[<<FW, d>>] \in Nat
        /\ sizes[<<BW, d>>] + sizes[<<FW, d>>] = m * w[d]
        /\ offset[k] = offset[d] + sizes[<<BW, d>>]
        /\ offset[D + k] = offset[D + d] + sizes[<<FW, d>>]
    BY <1>4, <2>3
  <2>7. offset[D] \in Nat /\ offset[d] \in Nat /\ offset[D + d] \in Nat /\ sum[d] \in Nat
        /\ (offset[D + d] - offset[D]) + offset[d] = m * sum[d]
    BY <1>0, <1>5, <2>3, <2>4
  <2> HIDE DEF d
  <2>8. sum[k] \in Nat /\ (offset[D + k] - offset[D]) + offset[k] = m * sum[k]
    <3>1. m * sum[k] = m * sum[d] + m * w[d] /\ sum[k] \in Nat
      BY <2>5, <2>6, <2>7
    <3> QED BY <2>6, <2>7, <3>1
  <2> QED BY <2>1, <2>8
<1>7. D \in 0..D /\ offset[D] \in Nat /\ offset[D + D] \in Nat
  BY <1>0, <1>5
<1>8. Even(D)
  BY <1>6, <1>7
<1>9. sum[D] \in Nat /\ offset[D + D] = m * sum[D]
  BY <1>7, <1>8
<1> QED BY <1>0, <1>1, <1>2, <1>9

\* As many as the numbers they stand for.
LEMMA Counted ==
  ASSUME NEW S, NEW n \in Nat, NEW f \in [S -> 0..(n - 1)],
         \A x, y \in S : f[x] = f[y] => x = y,
         \A i \in 0..(n - 1) : \E x \in S : f[x] = i
  PROVE  Cardinality(S) = n
<1>1. f \in Injection(S, 0..(n - 1))
  BY DEF Injection, IsInjective
<1>2. f \in Surjection(S, 0..(n - 1))
  BY DEF Surjection
<1>3. IsFiniteSet(0..(n - 1)) /\ Cardinality(0..(n - 1)) = n
  BY FS_Interval
<1> QED BY <1>1, <1>2, <1>3, FS_Injection

\* The offsets of the halo end at its size, that the code checks.
LEMMA HaloAddsUp ==
  ASSUME NEW g, HaloPerDir(g) \in [Dir -> Nat]
  PROVE  HaloOffset(g, FW, NDims - 1) + HaloPerDir(g)[NDims - 1] = Halo(g)
<1> DEFINE w == HaloPerDir(g)
           sizes == [f \in Ori \X Dir |-> w[f[2]]]
<1>1. sizes \in [AllFaces -> Nat]
  BY DEF AllFaces
<1>2. \A d \in Dir : w[d] \in Nat /\ sizes[<<BW, d>>] = w[d] /\ sizes[<<FW, d>>] = w[d]
  BY DEF Ori
<1>3. NDims - 1 \in Dir
  BY NDimsNat DEF Dir
<1>4. HaloOffset(g, FW, NDims - 1) = FirstFaces(sizes, FW * NDims + (NDims - 1))
  BY DEF HaloOffset
<1> HIDE DEF sizes, w
<1>5. \A d \in Dir : sizes[<<BW, d>>] + sizes[<<FW, d>>] = 2 * w[d]
  <2>1. \A z \in Nat : z + z = 2 * z
    OBVIOUS
  <2> QED BY <1>2, <2>1
<1>6. FirstFaces(sizes, NFaces) = 2 * SumOnDirs(w)
  <2>1. w \in [Dir -> Nat] /\ 2 \in {1, 2}
    BY DEF w
  <2> QED BY <1>1, <1>5, <2>1, TotalIs
<1> QED BY <1>1, <1>2, <1>3, <1>4, <1>6, LastSection DEF Halo, w

\* The sizes of the sections of an e/o halo, each as large as half of a face, or
\* one more; and what they add up to.
EoSizes(g, p) == [f \in AllFaces |-> EoHaloPerDir(g, p, f[1], f[2])]

\* The halo of either parity is half of the halo, the last section ends with it.
LEMMA EoHaloAddsUp ==
  ASSUME NEW g, GoodGrid(g), NEW p \in Parity
  PROVE  /\ EoSizes(g, p) \in [AllFaces -> Nat]
         /\ HaloPerDir(g) \in [Dir -> Nat]
         /\ EoHalo(g) \in Nat /\ EoHalo(g) = FirstFaces(EoSizes(g, p), NFaces)
         /\ Halo(g) = 2 * EoHalo(g)
         /\ EoHaloOffset(g, p, FW, NDims - 1) + EoHaloPerDir(g, p, FW, NDims - 1) = EoHalo(g)
<1> DEFINE w == HaloPerDir(g)
           sizes == EoSizes(g, p)
<1>0. p \in {0, 1} /\ OppositeParity(p) \in Parity /\ OppositeParity(OppositeParity(p)) = p
  BY DEF OppositeParity, Parity
<1>1. ASSUME NEW d \in Dir PROVE w[d] \in Nat /\ (w[d] % 2 = 1 => d = g.pdir)
  <2>1. BW \in Ori
    BY DEF Ori
  <2>2. g.n[d] > 1 => w[d] = Volume(FaceSides(g, d))
    BY <1>0, <2>1, FaceSizes
  <2>3. ~(g.n[d] > 1) => w[d] = 0
    BY <1>0, <2>1, FaceSizes
  <2>4. Volume(FaceSides(g, d)) \in Nat /\ (Volume(FaceSides(g, d)) % 2 = 1 => d = g.pdir)
    BY FaceVolume
  <2> HIDE DEF w
  <2>5. 0 \in Nat /\ 0 % 2 # 1
    OBVIOUS
  <2> QED BY <2>2, <2>3, <2>4, <2>5
<1>2. w \in [Dir -> Nat]
  BY <1>1 DEF HaloPerDir
<1>3. \A d \in Dir, o \in Ori :
         /\ <<o, d>> \in AllFaces /\ sizes[<<o, d>>] = EoHaloPerDir(g, p, o, d)
         /\ EoHaloPerDir(g, p, o, d)
              = w[d] \div 2 + IF /\ d = g.pdir /\ w[d] % 2 = 1
                                 /\ (o = FW) = (p = g.origin)
                              THEN 1 ELSE 0
  BY DEF EoSizes, EoHaloPerDir, AllFaces
<1> HIDE DEF w
<1>4. ASSUME NEW d \in Dir
      PROVE  /\ sizes[<<BW, d>>] \in Nat /\ sizes[<<FW, d>>] \in Nat
             /\ sizes[<<BW, d>>] + sizes[<<FW, d>>] = 1 * w[d]
  <2> DEFINE b == (BW = FW) = (p = g.origin)
             f == (FW = FW) = (p = g.origin)
  <2>1. b <=> ~f
    BY DEF BW, FW
  <2>2. /\ sizes[<<BW, d>>] = w[d] \div 2 + (IF d = g.pdir /\ w[d] % 2 = 1 /\ b THEN 1 ELSE 0)
        /\ sizes[<<FW, d>>] = w[d] \div 2 + (IF d = g.pdir /\ w[d] % 2 = 1 /\ f THEN 1 ELSE 0)
    BY <1>3 DEF Ori
  <2>3. w[d] \in Nat /\ (w[d] % 2 = 1 => d = g.pdir)
    BY <1>1
  <2>4. LET v == w[d] \div 2
            x == sizes[<<BW, d>>]
            y == sizes[<<FW, d>>]
        IN  IF w[d] % 2 = 1 THEN \/ x = v + 1 /\ y = v + 0
                                 \/ x = v + 0 /\ y = v + 1
                            ELSE x = v + 0 /\ y = v + 0
    <3> HIDE DEF b, f, sizes
    <3>1. CASE w[d] % 2 = 1 /\ b
      BY <2>1, <2>2, <2>3, <3>1
    <3>2. CASE w[d] % 2 = 1 /\ ~b
      BY <2>1, <2>2, <2>3, <3>2
    <3>3. CASE w[d] % 2 # 1
      BY <2>2, <3>3
    <3> QED BY <3>1, <3>2, <3>3
  <2> HIDE DEF sizes
  <2>5. w[d] \div 2 \in Nat /\ w[d] % 2 \in {0, 1} /\ w[d] = 2 * (w[d] \div 2) + (w[d] % 2)
    BY <2>3
  <2> DEFINE v == w[d] \div 2
  <2>6. /\ v \in Nat
        /\ \/ w[d] = v + v + 1 /\ sizes[<<BW, d>>] = v + 1 /\ sizes[<<FW, d>>] = v
           \/ w[d] = v + v + 1 /\ sizes[<<BW, d>>] = v /\ sizes[<<FW, d>>] = v + 1
           \/ w[d] = v + v /\ sizes[<<BW, d>>] = v /\ sizes[<<FW, d>>] = v
    BY <2>4, <2>5
  <2> HIDE DEF v
  <2> QED BY <2>6
<1>5. sizes \in [AllFaces -> Nat]
  BY <1>3, <1>4 DEF EoSizes, AllFaces, Ori
<1>6. SumOnDirs(w) \in Nat /\ FirstFaces(sizes, NFaces) = 1 * SumOnDirs(w)
  <2>1. 1 \in {1, 2}
    OBVIOUS
  <2>2. \A d \in Dir : sizes[<<BW, d>>] + sizes[<<FW, d>>] = 1 * w[d]
    BY <1>4
  <2> QED BY <1>2, <1>5, <2>1, <2>2, TotalIs
<1>7. EoHalo(g) = SumOnDirs(w) /\ Halo(g) = 2 * EoHalo(g)
  <2>1. Halo(g) = 2 * SumOnDirs(w)
    BY DEF Halo, w
  <2> QED BY <1>6, <2>1 DEF EoHalo
<1>8. EoHaloOffset(g, p, FW, NDims - 1) = FirstFaces(sizes, FW * NDims + (NDims - 1))
  BY DEF EoHaloOffset, EoSizes, AllFaces
<1>9. sizes[<<FW, NDims - 1>>] = EoHaloPerDir(g, p, FW, NDims - 1)
  <2>1. NDims - 1 \in Dir /\ FW \in Ori
    BY NDimsNat DEF Dir, Ori
  <2> QED BY <1>3, <2>1
<1> QED BY <1>2, <1>5, <1>6, <1>7, <1>8, <1>9, LastSection DEF w

\* Where the halo section behind a face begins, and its size.
LEMMA HaloSection ==
  ASSUME NEW g, GoodGrid(g), NEW p \in Parity, NEW ori \in Ori, NEW dir \in Dir
  PROVE  LET f == <<ori, dir>>
             sizes == EoSizes(g, p)
         IN  /\ f \in AllFaces /\ sizes \in [AllFaces -> Nat]
             /\ sizes[f] = EoHaloPerDir(g, p, ori, dir)
             /\ FirstFaces(sizes, FaceNumber(f)) = EoHaloOffset(g, p, ori, dir)
             /\ EoHaloOffset(g, p, ori, dir) \in Nat
             /\ EoHaloPerDir(g, p, ori, dir) \in Nat
             /\ EoHaloOffset(g, p, ori, dir) + EoHaloPerDir(g, p, ori, dir) <= EoHalo(g)
<1> DEFINE f == <<ori, dir>>
           sizes == EoSizes(g, p)
<1>1. f \in AllFaces /\ sizes[f] = EoHaloPerDir(g, p, ori, dir)
  BY DEF AllFaces, EoSizes
<1>2. FirstFaces(sizes, FaceNumber(f)) = EoHaloOffset(g, p, ori, dir)
  BY DEF EoHaloOffset, EoSizes, AllFaces, FaceNumber
<1>3. sizes \in [AllFaces -> Nat] /\ EoHalo(g) = FirstFaces(sizes, NFaces)
  BY EoHaloAddsUp
<1> HIDE DEF sizes, f
<1>4. sizes[f] \in Nat /\ FirstFaces(sizes, FaceNumber(f)) \in Nat
      /\ FirstFaces(sizes, FaceNumber(f)) + sizes[f] <= FirstFaces(sizes, NFaces)
  BY <1>1, <1>3, SectionsFill
<1> QED BY <1>1, <1>2, <1>3, <1>4 DEF f, sizes

\* A site whose neighbour is on the same rank finds it, one step away; else it
\* finds the slot of the halo that its place on the face says, and is never refused.
LEMMA NeighbourPlace ==
  ASSUME NEW g, GoodGrid(g), NEW p \in Parity, NEW x \in EoSites(g),
         NEW ori \in Ori, NEW dir \in Dir
  PROVE  LET n == EoNeighbour(g, p, x, ori, dir)
             q == OppositeParity(p)
         IN  /\ EoVol(g) \in Nat /\ n \in Nat
             /\ n >= EoVol(g) <=> OnFace(g, p, x, ori, dir)
             /\ OnFace(g, p, x, ori, dir) =>
                  /\ n = EoVol(g) + (EoHaloOffset(g, q, ori, dir) + Pos(g, p, x, ori, dir))
                  /\ Pos(g, p, x, ori, dir) \in 0..(EoHaloPerDir(g, q, ori, dir) - 1)
             /\ ~OnFace(g, p, x, ori, dir) =>
                  /\ n \in EoSites(g)
                  /\ Alternates(g, dir) =>
                       CoordsOfEoSite(g, q, n) = TriviallyShifted(g, p, x, ori, dir)
             /\ ~NeighbourRefused(g, p, x, ori, dir)
<1> DEFINE n == EoNeighbour(g, p, x, ori, dir)
           q == OppositeParity(p)
           t == TriviallyShifted(g, p, x, ori, dir)
           on == OnFace(g, p, x, ori, dir)
           pos == Pos(g, p, x, ori, dir)
<1>0. q \in Parity /\ EoVol(g) \in Nat
  BY GridHalved DEF OppositeParity, Parity
<1>1. n = IF on THEN (EoVol(g) + EoHaloOffset(g, q, ori, dir)) + pos ELSE EoSiteOf(g, t)
  BY DEF EoNeighbour, EoSiteOf, OnFace, Pos
<1>2. on => pos \in 0..(EoHaloPerDir(g, q, ori, dir) - 1)
  BY SlotsBehindFace DEF Lookers
<1>3. EoHaloOffset(g, q, ori, dir) \in Nat /\ EoHaloPerDir(g, q, ori, dir) \in Nat
  BY <1>0, HaloSection
<1>4. ~on => t \in Box(g.sides)
  BY OneStepAway
<1>5. Alternates(g, dir) => ParityAt(g, t) = q
  BY OneStepAway
<1>6. ~NeighbourRefused(g, p, x, ori, dir)
  BY <1>2, <1>3 DEF NeighbourRefused, Pos
<1> HIDE DEF n, q, t, on, pos
<1>7. ~on => n \in EoSites(g) /\ (ParityAt(g, t) = q => CoordsOfEoSite(g, q, n) = t)
  BY <1>1, <1>4, EoCoordsBack
<1>8. on => n = EoVol(g) + (EoHaloOffset(g, q, ori, dir) + pos) /\ n >= EoVol(g) /\ n \in Nat
  BY <1>0, <1>1, <1>2, <1>3
<1>9. ~on => n < EoVol(g) /\ n \in Nat
  BY <1>0, <1>7 DEF EoSites
<1> QED BY <1>0, <1>2, <1>5, <1>6, <1>7, <1>8, <1>9 DEF n, q, t, on, pos

\* HaloSlotsExact for a grid.
LEMMA SlotsExact ==
  ASSUME NEW g, GoodGrid(g), NEW p \in Parity, NEW ori \in Ori, NEW dir \in Dir
  PROVE  LET lookers == {x \in EoSites(g) : EoNeighbour(g, p, x, ori, dir) >= EoVol(g)}
             q == OppositeParity(p)
             size == EoHaloPerDir(g, q, ori, dir)
         IN  /\ {EoNeighbour(g, p, x, ori, dir) : x \in lookers}
                  = {(EoVol(g) + EoHaloOffset(g, q, ori, dir)) + i : i \in 0..(size - 1)}
             /\ Cardinality(lookers) = size
             /\ Cardinality(lookers) = EoSurfPerDir(g, p, ori, dir)
<1> DEFINE lookers == {x \in EoSites(g) : EoNeighbour(g, p, x, ori, dir) >= EoVol(g)}
           q == OppositeParity(p)
           size == EoHaloPerDir(g, q, ori, dir)
           start == EoHaloOffset(g, q, ori, dir)
           pos(x) == Pos(g, p, x, ori, dir)
           n(x) == EoNeighbour(g, p, x, ori, dir)
<1>1. lookers = Lookers(g, p, ori, dir)
  BY NeighbourPlace DEF Lookers
<1>2. /\ size \in Nat
      /\ \A x \in lookers : pos(x) \in 0..(size - 1)
      /\ \A x, y \in lookers : pos(x) = pos(y) => x = y
      /\ \A i \in 0..(size - 1) : \E x \in lookers : pos(x) = i
  BY <1>1, SlotsBehindFace
<1>3. start \in Nat /\ EoVol(g) \in Nat
  <2>1. q \in Parity
    BY DEF OppositeParity, Parity
  <2> QED BY <2>1, HaloSection, GridHalved
<1>4. \A x \in lookers : n(x) = EoVol(g) + (start + pos(x))
  BY <1>1, NeighbourPlace DEF Lookers
<1>5. size = EoSurfPerDir(g, p, ori, dir)
  BY FaceSizes
<1> HIDE DEF lookers, q, size, start, pos, n
<1>6. \A x \in lookers : pos(x) \in Nat /\ n(x) = (EoVol(g) + start) + pos(x)
  BY <1>2, <1>3, <1>4
<1>7. {n(x) : x \in lookers} = {(EoVol(g) + start) + i : i \in 0..(size - 1)}
  BY <1>2, <1>6
<1>8. Cardinality(lookers) = size
  <2> DEFINE F == [x \in lookers |-> pos(x)]
  <2>1. F \in [lookers -> 0..(size - 1)] /\ \A x \in lookers : F[x] = pos(x)
    BY <1>2
  <2> HIDE DEF F
  <2>2. /\ \A x, y \in lookers : F[x] = F[y] => x = y
        /\ \A i \in 0..(size - 1) : \E x \in lookers : F[x] = i
    BY <1>2, <2>1
  <2> QED BY <1>2, <2>1, <2>2, Counted
<1> QED BY <1>5, <1>7, <1>8 DEF lookers, q, size, start, pos, n

\* The sites that leave, each with the face it leaves by, and the slot of the halo
\* behind that face.
Leaving(g, p) == {y \in EoSites(g) \X Ori \X Dir : OnFace(g, p, y[1], y[2], y[3])}

Behind(g, p, y) ==
  EoHaloOffset(g, OppositeParity(p), y[2], y[3]) + Pos(g, p, y[1], y[2], y[3])

\* The table of neighbours sends each site that leaves to a slot of its own of the halo
\* of the other parity, and every slot is taken: setEoHalo counts what setEoNeighbours fills.
THEOREM HaloTaken ==
  ASSUME NEW g, GoodGrid(g), NEW p \in Parity
  PROVE  /\ \A y \in Leaving(g, p) : Behind(g, p, y) \in 0..(EoHalo(g) - 1)
         /\ \A y, z \in Leaving(g, p) : Behind(g, p, y) = Behind(g, p, z) => y = z
         /\ \A i \in 0..(EoHalo(g) - 1) : \E y \in Leaving(g, p) : Behind(g, p, y) = i
<1> DEFINE q == OppositeParity(p)
           sizes == EoSizes(g, q)
           start(f) == FirstFaces(sizes, FaceNumber(f))
           total == FirstFaces(sizes, NFaces)
           face(y) == <<y[2], y[3]>>
           pos(y) == Pos(g, p, y[1], y[2], y[3])
<1>0. q \in Parity
  BY DEF OppositeParity, Parity
<1>1. sizes \in [AllFaces -> Nat] /\ EoHalo(g) = total /\ total \in Nat
  BY <1>0, EoHaloAddsUp
<1>2. /\ \A f \in AllFaces : start(f) \in Nat /\ start(f) + sizes[f] <= total
      /\ \A f, h \in AllFaces : FaceNumber(f) < FaceNumber(h) => start(f) + sizes[f] <= start(h)
      /\ \A t \in 0..(total - 1) : \E f \in AllFaces : \E i \in 0..(sizes[f] - 1) : t = start(f) + i
  <2> HIDE DEF sizes
  <2> QED BY <1>1, SectionsFill
<1>3. ASSUME NEW o \in Ori, NEW d \in Dir
      PROVE  /\ <<o, d>> \in AllFaces /\ start(<<o, d>>) = EoHaloOffset(g, q, o, d)
             /\ sizes[<<o, d>>] = EoHaloPerDir(g, q, o, d)
  <2> HIDE DEF q
  <2> QED BY <1>0, HaloSection
<1>4. \A y \in Leaving(g, p) :
         /\ y = <<y[1], y[2], y[3]>> /\ y[1] \in Lookers(g, p, y[2], y[3])
         /\ y[2] \in Ori /\ y[3] \in Dir
  BY DEF Leaving, Lookers
<1>5. ASSUME NEW y \in Leaving(g, p)
      PROVE  /\ face(y) \in AllFaces /\ Behind(g, p, y) = start(face(y)) + pos(y)
             /\ pos(y) \in 0..(sizes[face(y)] - 1) /\ sizes[face(y)] \in Nat
  <2>1. y[2] \in Ori /\ y[3] \in Dir /\ y[1] \in Lookers(g, p, y[2], y[3])
    BY <1>4
  <2>2. pos(y) \in 0..(EoHaloPerDir(g, q, y[2], y[3]) - 1)
    BY <2>1, SlotsBehindFace
  <2>3. face(y) \in AllFaces /\ start(face(y)) = EoHaloOffset(g, q, y[2], y[3])
        /\ sizes[face(y)] = EoHaloPerDir(g, q, y[2], y[3])
    BY <1>3, <2>1
  <2> HIDE DEF sizes, start
  <2> QED BY <1>1, <2>2, <2>3 DEF Behind
<1>6. \A f \in AllFaces : FaceNumber(f) \in Int
  BY FacesNumbered
<1> HIDE DEF q, sizes, start, total, face, pos
<1>7. ASSUME NEW y \in Leaving(g, p) PROVE Behind(g, p, y) \in 0..(EoHalo(g) - 1)
  <2>1. face(y) \in AllFaces /\ Behind(g, p, y) = start(face(y)) + pos(y)
        /\ pos(y) \in 0..(sizes[face(y)] - 1) /\ sizes[face(y)] \in Nat
    BY <1>5
  <2>2. start(face(y)) \in Nat /\ start(face(y)) + sizes[face(y)] <= total
    BY <1>2, <2>1
  <2> QED BY <1>1, <2>1, <2>2
<1>8. ASSUME NEW y \in Leaving(g, p), NEW z \in Leaving(g, p), Behind(g, p, y) = Behind(g, p, z)
      PROVE  y = z
  <2>1. /\ face(y) \in AllFaces /\ Behind(g, p, y) = start(face(y)) + pos(y)
        /\ pos(y) \in 0..(sizes[face(y)] - 1) /\ sizes[face(y)] \in Nat
        /\ face(z) \in AllFaces /\ Behind(g, p, z) = start(face(z)) + pos(z)
        /\ pos(z) \in 0..(sizes[face(z)] - 1) /\ sizes[face(z)] \in Nat
    BY <1>5
  <2>2. /\ start(face(y)) \in Nat /\ start(face(z)) \in Nat
        /\ FaceNumber(face(y)) \in Int /\ FaceNumber(face(z)) \in Int
        /\ FaceNumber(face(y)) < FaceNumber(face(z))
             => start(face(y)) + sizes[face(y)] <= start(face(z))
        /\ FaceNumber(face(z)) < FaceNumber(face(y))
             => start(face(z)) + sizes[face(z)] <= start(face(y))
    BY <1>2, <1>6, <2>1
  <2>3. FaceNumber(face(y)) = FaceNumber(face(z))
    <3> DEFINE a == FaceNumber(face(y))
               b == FaceNumber(face(z))
               v == start(face(y))
               w == start(face(z))
               k == sizes[face(y)]
               l == sizes[face(z)]
    <3>1. /\ v \in Nat /\ w \in Nat /\ a \in Int /\ b \in Int /\ k \in Nat /\ l \in Nat
          /\ pos(y) \in 0..(k - 1) /\ pos(z) \in 0..(l - 1)
          /\ v + pos(y) = w + pos(z)
          /\ (a < b => v + k <= w) /\ (b < a => w + l <= v)
      BY <1>8, <2>1, <2>2
    <3> HIDE DEF a, b, v, w, k, l
    <3>2. a = b
      BY <3>1
    <3> QED BY <3>2 DEF a, b
  <2>4. face(y) = face(z)
    BY <2>1, <2>3, FacesNumbered
  <2>5. pos(y) = pos(z)
    <3>1. start(face(y)) + pos(y) = start(face(y)) + pos(z)
      BY <1>8, <2>1, <2>4
    <3>2. start(face(y)) \in Nat /\ pos(y) \in Int /\ pos(z) \in Int
      BY <2>1, <2>2
    <3> QED BY <3>1, <3>2
  <2>6. y[2] = z[2] /\ y[3] = z[3]
    BY <2>4 DEF face
  <2>7. /\ y[1] \in Lookers(g, p, y[2], y[3]) /\ z[1] \in Lookers(g, p, y[2], y[3])
        /\ y[2] \in Ori /\ y[3] \in Dir
        /\ Pos(g, p, y[1], y[2], y[3]) = Pos(g, p, z[1], y[2], y[3])
    BY <1>4, <2>5, <2>6 DEF pos
  <2>8. y[1] = z[1]
    BY <2>7, SlotsBehindFace
  <2> QED BY <1>4, <2>6, <2>8
<1>9. ASSUME NEW i \in 0..(EoHalo(g) - 1)
      PROVE  \E y \in Leaving(g, p) : Behind(g, p, y) = i
  <2>1. i \in 0..(total - 1)
    BY <1>1
  <2>2. PICK f \in AllFaces : \E j \in 0..(sizes[f] - 1) : i = start(f) + j
    BY <1>2, <2>1
  <2>3. PICK j \in 0..(sizes[f] - 1) : i = start(f) + j
    BY <2>2
  <2>4. f = <<f[1], f[2]>> /\ f[1] \in Ori /\ f[2] \in Dir
    BY DEF AllFaces
  <2>5. sizes[f] = EoHaloPerDir(g, OppositeParity(p), f[1], f[2])
    BY <1>3, <2>4 DEF q
  <2>6. PICK x \in Lookers(g, p, f[1], f[2]) : Pos(g, p, x, f[1], f[2]) = j
    BY <2>3, <2>4, <2>5, SlotsBehindFace
  <2> DEFINE y == <<x, f[1], f[2]>>
  <2>7. y \in Leaving(g, p)
    BY <2>4, <2>6 DEF Leaving, Lookers
  <2>8. y[1] = x /\ y[2] = f[1] /\ y[3] = f[2]
    OBVIOUS
  <2> HIDE DEF y
  <2>9. face(y) = f /\ pos(y) = j
    BY <2>4, <2>6, <2>8 DEF face, pos
  <2>10. Behind(g, p, y) = i
    BY <1>5, <2>3, <2>7, <2>9
  <2> QED BY <2>7, <2>10
<1> QED BY <1>7, <1>8, <1>9

\* The slot a leaving site is sent to: that of the face behind, moved as the offsets
\* of its own parity say.
Sent(g, p, y) ==
  Behind(g, p, y) + (EoHaloOffset(g, p, OppositeOri(y[2]), y[3]) - EoHaloOffset(g, p, y[2], y[3]))

\* The filler lists what leaves and where it is sent.
LEMMA FillerIs ==
  ASSUME NEW g, GoodGrid(g), NEW p \in Parity
  PROVE  HaloFiller(g, p) = {<<y[1], Sent(g, p, y), y[2], y[3]>> : y \in Leaving(g, p)}
<1> DEFINE out == {y \in EoSites(g) \X Ori \X Dir :
                     EoNeighbour(g, p, y[1], y[2], y[3]) >= EoVol(g)}
           slot(y) == (EoNeighbour(g, p, y[1], y[2], y[3]) - EoVol(g))
                      + (EoHaloOffset(g, p, OppositeOri(y[2]), y[3])
                         - EoHaloOffset(g, p, y[2], y[3]))
<1>1. HaloFiller(g, p) = {<<y[1], slot(y), y[2], y[3]>> : y \in out}
  BY DEF HaloFiller
<1>2. out = Leaving(g, p)
  <2>1. \A y \in EoSites(g) \X Ori \X Dir :
           EoNeighbour(g, p, y[1], y[2], y[3]) >= EoVol(g) <=> OnFace(g, p, y[1], y[2], y[3])
    BY NeighbourPlace
  <2> QED BY <2>1 DEF Leaving
<1>3. ASSUME NEW y \in Leaving(g, p) PROVE slot(y) = Sent(g, p, y)
  <2>1. y[1] \in EoSites(g) /\ y[2] \in Ori /\ y[3] \in Dir /\ OnFace(g, p, y[1], y[2], y[3])
    BY DEF Leaving
  <2>2. /\ EoVol(g) \in Nat
        /\ EoNeighbour(g, p, y[1], y[2], y[3]) = EoVol(g) + Behind(g, p, y)
    BY <2>1, NeighbourPlace DEF Behind
  <2>3. Behind(g, p, y) \in Int
    BY HaloTaken
  <2>4. EoNeighbour(g, p, y[1], y[2], y[3]) - EoVol(g) = Behind(g, p, y)
    BY <2>2, <2>3
  <2> QED BY <2>4 DEF Sent
<1> HIDE DEF out, slot
<1> QED BY <1>1, <1>2, <1>3

\* The filler is as large as the halo, that the code checks.
LEMMA FillerFits ==
  ASSUME NEW g, GoodGrid(g), NEW p \in Parity
  PROVE  Cardinality(HaloFiller(g, p)) = EoHalo(g)
<1> DEFINE S == HaloFiller(g, p)
           at(z) == <<z[1], z[3], z[4]>>
           F == [z \in S |-> Behind(g, p, at(z))]
<1>1. \A z \in S : at(z) \in Leaving(g, p)
                   /\ z = <<at(z)[1], Sent(g, p, at(z)), at(z)[2], at(z)[3]>>
  <2> TAKE z \in S
  <2>1. PICK y \in Leaving(g, p) : z = <<y[1], Sent(g, p, y), y[2], y[3]>>
    BY FillerIs
  <2>2. y = <<y[1], y[2], y[3]>>
    BY DEF Leaving
  <2>3. at(z) = y
    BY <2>1, <2>2
  <2> QED BY <2>1, <2>3
<1>2. \A y \in Leaving(g, p) : \E z \in S : at(z) = y
  <2> TAKE y \in Leaving(g, p)
  <2> DEFINE z == <<y[1], Sent(g, p, y), y[2], y[3]>>
  <2>1. z \in S
    BY FillerIs
  <2>2. at(z) = y
    BY DEF Leaving
  <2> QED BY <2>1, <2>2
<1>3. EoHalo(g) \in Nat
  BY EoHaloAddsUp
<1> HIDE DEF S, at
<1>4. F \in [S -> 0..(EoHalo(g) - 1)] /\ \A z \in S : F[z] = Behind(g, p, at(z))
  BY <1>1, HaloTaken
<1> HIDE DEF F
<1>5. \A y, z \in S : F[y] = F[z] => y = z
  <2> TAKE y, z \in S
  <2> HAVE F[y] = F[z]
  <2>1. at(y) = at(z)
    BY <1>1, <1>4, HaloTaken
  <2> QED BY <1>1, <2>1
<1>6. \A i \in 0..(EoHalo(g) - 1) : \E z \in S : F[z] = i
  <2> TAKE i \in 0..(EoHalo(g) - 1)
  <2>1. PICK y \in Leaving(g, p) : Behind(g, p, y) = i
    BY HaloTaken
  <2>2. PICK z \in S : at(z) = y
    BY <1>2
  <2> QED BY <1>4, <2>1, <2>2
<1>7. Cardinality(S) = EoHalo(g)
  BY <1>3, <1>4, <1>5, <1>6, Counted
<1> QED BY <1>7 DEF S

\* AllFaces of an even size are halved, so nothing tells the two parities apart.
LEMMA HalvesAlike ==
  ASSUME NEW g, GoodGrid(g), \A d \in Dir : HaloPerDir(g)[d] % 2 = 0,
         NEW p \in Parity, NEW q \in Parity
  PROVE  /\ \A o \in Ori, d \in Dir :
              EoHaloPerDir(g, p, o, d) = EoHaloPerDir(g, q, OppositeOri(o), d)
         /\ \A o \in Ori, d \in Dir : EoHaloOffset(g, p, o, d) = EoHaloOffset(g, q, o, d)
<1>1. \A d \in Dir : HaloPerDir(g)[d] % 2 # 1
  BY SMT
<1>2. \A d \in Dir : HaloPerDir(g)[d] \div 2 \in Nat
  <2>1. \A d \in Dir : HaloPerDir(g)[d] \in Nat
    BY EoHaloAddsUp
  <2> QED BY <2>1
<1>3. ASSUME NEW r \in Parity, NEW o, NEW d \in Dir
      PROVE  EoHaloPerDir(g, r, o, d) = HaloPerDir(g)[d] \div 2
  <2>1. EoHaloPerDir(g, r, o, d) = HaloPerDir(g)[d] \div 2 + 0
    BY <1>1 DEF EoHaloPerDir
  <2> QED BY <1>2, <2>1
<1>4. EoSizes(g, p) = EoSizes(g, q)
  BY <1>3 DEF EoSizes, AllFaces
<1>5. \A r \in Parity : \A o, d :
       EoHaloOffset(g, r, o, d) = FirstFaces(EoSizes(g, r), o * NDims + d)
  BY DEF EoHaloOffset, EoSizes, AllFaces
<1> QED BY <1>3, <1>4, <1>5

\* FillerRight for a grid.
LEMMA FillerRightThere ==
  ASSUME NEW g, GoodGrid(g), \A d \in Dir : HaloPerDir(g)[d] % 2 = 0, NEW p \in Parity
  PROVE  /\ {z[2] : z \in HaloFiller(g, p)} = 0..(EoHalo(g) - 1)
         /\ \A z \in HaloFiller(g, p) :
              LET o == OppositeOri(z[3])
              IN  /\ o \in Ori /\ z[4] \in Dir
                  /\ z[2] \in EoHaloOffset(g, p, o, z[4])
                              ..(EoHaloOffset(g, p, o, z[4]) + EoHaloPerDir(g, p, o, z[4]) - 1)
<1> DEFINE q == OppositeParity(p)
           S == HaloFiller(g, p)
<1>1. q \in Parity /\ \A o \in Ori : OppositeOri(o) \in Ori /\ OppositeOri(OppositeOri(o)) = o
  BY DEF OppositeParity, Parity, OppositeOri, Ori, BW, FW
<1>2. ASSUME NEW y \in Leaving(g, p)
      PROVE  /\ y[2] \in Ori /\ y[3] \in Dir /\ y[1] \in Lookers(g, p, y[2], y[3])
             /\ Pos(g, p, y[1], y[2], y[3]) \in
                  0..(EoHaloPerDir(g, p, OppositeOri(y[2]), y[3]) - 1)
             /\ EoHaloOffset(g, p, OppositeOri(y[2]), y[3]) \in Nat
             /\ Sent(g, p, y) = EoHaloOffset(g, p, OppositeOri(y[2]), y[3])
                                + Pos(g, p, y[1], y[2], y[3])
  <2> DEFINE o == OppositeOri(y[2])
             k == Pos(g, p, y[1], y[2], y[3])
             a == EoHaloOffset(g, q, y[2], y[3])
             b == EoHaloOffset(g, p, o, y[3])
             c == EoHaloOffset(g, p, y[2], y[3])
  <2>1. y[2] \in Ori /\ y[3] \in Dir /\ y[1] \in Lookers(g, p, y[2], y[3]) /\ o \in Ori
    BY <1>1 DEF Leaving, Lookers
  <2>2. EoHaloPerDir(g, q, y[2], y[3]) = EoHaloPerDir(g, p, o, y[3]) /\ a = c
    BY <1>1, <2>1, HalvesAlike
  <2>3. k \in 0..(EoHaloPerDir(g, q, y[2], y[3]) - 1)
    BY <2>1, SlotsBehindFace
  <2>4. b \in Nat /\ c \in Nat
    BY <2>1, HaloSection
  <2>5. Sent(g, p, y) = (a + k) + (b - c)
    BY DEF Sent, Behind
  <2>6. k \in Int
    BY <2>3
  <2> HIDE DEF a, b, c, k, o
  <2>7. (a + k) + (b - c) = b + k
    BY <2>2, <2>4, <2>6
  <2> QED BY <2>1, <2>2, <2>3, <2>4, <2>5, <2>7 DEF b, k, o
<1>3. \A z \in S : \E y \in Leaving(g, p) :
         z[2] = Sent(g, p, y) /\ z[3] = y[2] /\ z[4] = y[3]
  BY FillerIs
<1>4. \A y \in Leaving(g, p) : \E z \in S : z[2] = Sent(g, p, y)
  <2> TAKE y \in Leaving(g, p)
  <2>1. <<y[1], Sent(g, p, y), y[2], y[3]>> \in S
    BY FillerIs
  <2> QED BY <2>1
<1>5. ASSUME NEW z \in S
      PROVE  LET o == OppositeOri(z[3])
             IN  /\ o \in Ori /\ z[4] \in Dir
                 /\ z[2] \in Nat /\ z[2] < EoHalo(g)
                 /\ z[2] \in EoHaloOffset(g, p, o, z[4])
                             ..(EoHaloOffset(g, p, o, z[4]) + EoHaloPerDir(g, p, o, z[4]) - 1)
  <2>1. PICK y \in Leaving(g, p) : z[2] = Sent(g, p, y) /\ z[3] = y[2] /\ z[4] = y[3]
    BY <1>3
  <2> DEFINE o == OppositeOri(z[3])
             b == EoHaloOffset(g, p, o, z[4])
             size == EoHaloPerDir(g, p, o, z[4])
             k == Pos(g, p, y[1], y[2], y[3])
  <2>2. o \in Ori /\ z[4] \in Dir /\ k \in 0..(size - 1) /\ z[2] = b + k
    BY <1>1, <1>2, <2>1
  <2>3. b \in Nat /\ size \in Nat /\ b + size <= EoHalo(g) /\ EoHalo(g) \in Nat
    BY <2>2, HaloSection, EoHaloAddsUp
  <2> HIDE DEF b, size, k, o
  <2>4. z[2] \in Nat /\ z[2] < EoHalo(g) /\ z[2] \in b..(b + size - 1)
    BY <2>2, <2>3
  <2> QED BY <2>2, <2>4 DEF b, size, o
<1>6. ASSUME NEW i \in 0..(EoHalo(g) - 1)
      PROVE  \E z \in S : z[2] = i
  <2>1. PICK w \in Leaving(g, q) : Behind(g, q, w) = i
    BY <1>1, HaloTaken
  <2>2. w[2] \in Ori /\ w[3] \in Dir /\ w[1] \in Lookers(g, q, w[2], w[3])
    BY DEF Leaving, Lookers
  <2> DEFINE o == OppositeOri(w[2])
             j == Pos(g, q, w[1], w[2], w[3])
  <2>3. OppositeParity(q) = p
    BY DEF OppositeParity, Parity
  <2>4. j \in 0..(EoHaloPerDir(g, p, w[2], w[3]) - 1)
        /\ i = EoHaloOffset(g, p, w[2], w[3]) + j
    BY <1>1, <2>1, <2>2, <2>3, SlotsBehindFace DEF Behind
  <2>5. o \in Ori /\ OppositeOri(o) = w[2]
    BY <1>1, <2>2
  <2> HIDE DEF q, o, j
  <2>6. EoHaloPerDir(g, p, w[2], w[3]) = EoHaloPerDir(g, OppositeParity(p), o, w[3])
    BY <1>1, <2>2, HalvesAlike DEF q, o
  <2>7. PICK x \in Lookers(g, p, o, w[3]) : Pos(g, p, x, o, w[3]) = j
    BY <2>2, <2>4, <2>5, <2>6, SlotsBehindFace
  <2> DEFINE y == <<x, o, w[3]>>
  <2>8. y \in Leaving(g, p) /\ y[1] = x /\ y[2] = o /\ y[3] = w[3]
    BY <2>2, <2>5, <2>7 DEF Leaving, Lookers
  <2> HIDE DEF y
  <2>9. Sent(g, p, y) = i
    BY <1>2, <2>4, <2>5, <2>7, <2>8
  <2> QED BY <1>4, <2>8, <2>9
<1> HIDE DEF S
<1>7. EoHalo(g) \in Nat
  BY EoHaloAddsUp
<1>8. {z[2] : z \in S} = 0..(EoHalo(g) - 1)
  BY <1>5, <1>6, <1>7
<1> QED BY <1>5, <1>8 DEF S

------------------------------------------------------------------------------
(* The SIMD ranks that face another rank.                                  *)

\* A box whose sides are products has the product of the volumes.
LEMMA ProductVolume ==
  ASSUME NEW a \in SidesOf, NEW b \in SidesOf, NEW c \in SidesOf,
         \A d \in Dir : a[d] = b[d] * c[d]
  PROVE  Volume(a) = Volume(b) * Volume(c) /\ Volume(b) \in Nat \ {0} /\ Volume(c) \in Nat \ {0}
<1>0. NDims \in Nat
  BY NDimsNat
<1>1. PICK A : VolumesUpTo(a, NDims, A) /\ Volume(a) = A[NDims]
  BY VolumesThere
<1>2. PICK B : VolumesUpTo(b, NDims, B) /\ Volume(b) = B[NDims]
  BY VolumesThere
<1>3. PICK C : VolumesUpTo(c, NDims, C) /\ Volume(c) = C[NDims]
  BY VolumesThere
<1>4. \A d \in 0..NDims : B[d] \in Nat \ {0} /\ C[d] \in Nat \ {0}
  BY <1>2, <1>3, VolumesTyped
<1> DEFINE T == {d \in 0..NDims : A[d] # B[d] * C[d]}
<1>5. T = {}
  <2> SUFFICES ASSUME T # {} PROVE FALSE
    OBVIOUS
  <2>1. PICK m \in T : \A y \in T : m <= y
    <3>1. T \in SUBSET Nat
      BY <1>0
    <3> HIDE DEF T
    <3> QED BY <3>1, NatMin
  <2>2. /\ m \in 0..NDims /\ A[m] # B[m] * C[m]
        /\ A[m] = IF m = 0 THEN 1 ELSE A[m - 1] * a[m - 1]
        /\ B[m] = IF m = 0 THEN 1 ELSE B[m - 1] * b[m - 1]
        /\ C[m] = IF m = 0 THEN 1 ELSE C[m - 1] * c[m - 1]
    BY <1>1, <1>2, <1>3 DEF VolumesUpTo
  <2>3. m # 0
    BY <2>2
  <2>4. m - 1 \in 0..NDims /\ m - 1 \in Dir /\ m - 1 \notin T
    BY <1>0, <2>1, <2>2, <2>3 DEF Dir
  <2>5. A[m - 1] = B[m - 1] * C[m - 1] /\ a[m - 1] = b[m - 1] * c[m - 1]
    BY <2>4
  <2>6. B[m - 1] \in Nat /\ C[m - 1] \in Nat /\ b[m - 1] \in Nat /\ c[m - 1] \in Nat
    BY <1>4, <2>4 DEF SidesOf
  <2>7. \A x, y, u, v \in Nat : (x * y) * (u * v) = (x * u) * (y * v)
    OBVIOUS
  <2> QED BY <2>2, <2>3, <2>5, <2>6, <2>7
<1> QED BY <1>0, <1>1, <1>2, <1>3, <1>4, <1>5

\* The ranks that the loop on the SIMD ranks has found.
FoundUpTo(lat, ori, dir, m, found) ==
  found = [s \in 0..m |->
             IF s = 0 THEN << >>
             ELSE IF IsNonLocSimdRank(lat, s - 1, ori, dir) THEN Append(found[s - 1], s - 1)
             ELSE found[s - 1]]

LEMMA FoundThere ==
  ASSUME NEW lat, NEW ori, NEW dir, Volume(lat.nSimdRanks) \in Nat
  PROVE  \E found : /\ FoundUpTo(lat, ori, dir, Volume(lat.nSimdRanks), found)
                    /\ NonLocSimdRanks(lat, ori, dir) = found[Volume(lat.nSimdRanks)]
<1> DEFINE T == {m \in Nat : ~ \E found : FoundUpTo(lat, ori, dir, m, found)}
<1>1. T = {}
  <2> SUFFICES ASSUME T # {} PROVE FALSE
    OBVIOUS
  <2>1. PICK m \in T : \A y \in T : m <= y
    <3>1. T \in SUBSET Nat
      OBVIOUS
    <3> HIDE DEF T
    <3> QED BY <3>1, NatMin
  <2>2. CASE m = 0
    <3>1. FoundUpTo(lat, ori, dir, m, [s \in 0..m |-> << >>])
      BY <2>2 DEF FoundUpTo
    <3> QED BY <3>1
  <2>3. CASE m # 0
    <3>1. m - 1 \in Nat /\ m - 1 \notin T
      BY <2>1, <2>3
    <3>2. PICK b : FoundUpTo(lat, ori, dir, m - 1, b)
      BY <3>1
    <3> DEFINE In(s) == IsNonLocSimdRank(lat, s, ori, dir)
               last == IF In(m - 1) THEN Append(b[m - 1], m - 1) ELSE b[m - 1]
               B == [s \in 0..m |-> IF s = m THEN last ELSE b[s]]
    <3>3. \A s \in 0..(m - 1) : B[s] = b[s]
      BY <3>1
    <3>4. \A s \in 0..(m - 1) :
             b[s] = IF s = 0 THEN << >>
                    ELSE IF In(s - 1) THEN Append(b[s - 1], s - 1) ELSE b[s - 1]
      BY <3>2 DEF FoundUpTo
    <3>5. B[m] = last
      BY <2>1
    <3>6. B = [s \in 0..m |-> B[s]]
      OBVIOUS
    <3> HIDE DEF B, In
    <3>7. \A s \in 0..m : B[s] = IF s = 0 THEN << >>
                                 ELSE IF In(s - 1) THEN Append(B[s - 1], s - 1) ELSE B[s - 1]
      <4> TAKE s \in 0..m
      <4>1. CASE s = m
        BY <4>1, <2>3, <3>1, <3>3, <3>5
      <4>2. CASE s # m
        <5>1. s \in 0..(m - 1) /\ (s # 0 => s - 1 \in 0..(m - 1))
          BY <4>2
        <5> QED BY <5>1, <3>3, <3>4
      <4> QED BY <4>1, <4>2
    <3>8. FoundUpTo(lat, ori, dir, m, B)
      BY <3>6, <3>7 DEF FoundUpTo, In
    <3> QED BY <3>8
  <2> QED BY <2>2, <2>3
<1> DEFINE n == Volume(lat.nSimdRanks)
           H == CHOOSE found : FoundUpTo(lat, ori, dir, n, found)
<1>2. FoundUpTo(lat, ori, dir, n, H)
  BY <1>1
<1>3. NonLocSimdRanks(lat, ori, dir) = H[n]
  BY DEF NonLocSimdRanks, FoundUpTo
<1> QED BY <1>2, <1>3

\* How many ranks the loop finds.
LEMMA FoundLength ==
  ASSUME NEW lat, NEW ori, NEW dir, Volume(lat.nSimdRanks) \in Nat
  PROVE  Len(NonLocSimdRanks(lat, ori, dir))
           = Cardinality({s \in RanksOf(lat.nSimdRanks) : IsNonLocSimdRank(lat, s, ori, dir)})
<1> DEFINE n == Volume(lat.nSimdRanks)
           In(s) == IsNonLocSimdRank(lat, s, ori, dir)
           Some(m) == {s \in 0..(m - 1) : In(s)}
<1>1. PICK found : FoundUpTo(lat, ori, dir, n, found) /\ NonLocSimdRanks(lat, ori, dir) = found[n]
  BY FoundThere
<1> DEFINE T == {m \in 0..n : ~ (found[m] \in Seq(Nat) /\ Len(found[m]) = Cardinality(Some(m)))}
<1>2. T = {}
  <2> SUFFICES ASSUME T # {} PROVE FALSE
    OBVIOUS
  <2>1. PICK m \in T : \A y \in T : m <= y
    <3>1. T \in SUBSET Nat
      OBVIOUS
    <3> HIDE DEF T
    <3> QED BY <3>1, NatMin
  <2>2. m \in 0..n /\ ~ (found[m] \in Seq(Nat) /\ Len(found[m]) = Cardinality(Some(m)))
    OBVIOUS
  <2>3. found[m] = IF m = 0 THEN << >>
                   ELSE IF In(m - 1) THEN Append(found[m - 1], m - 1) ELSE found[m - 1]
    BY <1>1, <2>2 DEF FoundUpTo
  <2>4. CASE m = 0
    <3>1. found[m] = << >> /\ << >> \in Seq(Nat) /\ Len(<< >>) = 0
      BY <2>3, <2>4
    <3>2. Some(m) = {}
      BY <2>4
    <3>3. Cardinality({}) = 0
      BY FS_EmptySet
    <3> QED BY <2>2, <3>1, <3>2, <3>3
  <2>5. CASE m # 0
    <3> DEFINE k == m - 1
    <3>1. k \in 0..n /\ k \in Nat
      BY <2>2, <2>5
    <3>2. k \notin T
      <4>1. ~(m <= k)
        BY <2>2
      <4> HIDE DEF T, k
      <4> QED BY <2>1, <4>1
    <3>3. found[k] \in Seq(Nat) /\ Len(found[k]) = Cardinality(Some(k))
      BY <3>1, <3>2
    <3>4. IsFiniteSet(Some(k)) /\ Cardinality(Some(k)) \in Nat
      <4>1. IsFiniteSet(0..(k - 1))
        BY <3>1, FS_Interval
      <4>2. Some(k) \subseteq 0..(k - 1)
        OBVIOUS
      <4> HIDE DEF Some, k
      <4> QED BY <4>1, <4>2, FS_Subset, FS_CardinalityType
    <3>5. Some(m) = IF In(k) THEN Some(k) \cup {k} ELSE Some(k)
      <4>1. 0..(m - 1) = (0..(k - 1)) \cup {k}
        BY <3>1
      <4> HIDE DEF In, k
      <4> QED BY <4>1
    <3>6. k \notin Some(k)
      BY <3>1
    <3>7. found[m] = IF In(k) THEN Append(found[k], k) ELSE found[k]
      BY <2>3, <2>5
    <3> HIDE DEF Some, In, k
    <3>8. CASE In(k)
      <4>1. found[m] = Append(found[k], k) /\ Some(m) = Some(k) \cup {k}
        BY <3>5, <3>7, <3>8
      <4>2. found[m] \in Seq(Nat) /\ Len(found[m]) = Len(found[k]) + 1
        BY <3>1, <3>3, <4>1
      <4>3. Cardinality(Some(m)) = Cardinality(Some(k)) + 1
        BY <3>4, <3>6, <4>1, FS_AddElement
      <4> QED BY <2>2, <3>3, <4>2, <4>3
    <3>9. CASE ~In(k)
      BY <2>2, <3>3, <3>5, <3>7, <3>9
    <3> QED BY <3>8, <3>9
  <2> QED BY <2>4, <2>5
<1>3. n \in 0..n
  OBVIOUS
<1>4. Len(found[n]) = Cardinality(Some(n))
  BY <1>2, <1>3
<1>5. Some(n) = {s \in RanksOf(lat.nSimdRanks) : In(s)}
  BY DEF RanksOf
<1> QED BY <1>1, <1>4, <1>5

\* The ranks found are as many as the ranks of a face of the box of SIMD ranks.
LEMMA EdgeRanks ==
  ASSUME NEW lat, lat.nSimdRanks \in SidesOf, NEW ori \in Ori, NEW dir \in Dir,
         lat.nRanks[dir] > 1, NEW F \in SidesOf,
         \A d \in Dir : F[d] = IF d = dir THEN 1 ELSE lat.nSimdRanks[d]
  PROVE  Len(NonLocSimdRanks(lat, ori, dir)) = Volume(F)
<1> DEFINE S == lat.nSimdRanks
           edge == IF ori = BW THEN 0 ELSE S[dir] - 1
           at(s) == CoordsOfSite(s, S)
           flat(c) == [d \in Dir |-> IF d = dir THEN 0 ELSE c[d]]
           E == {s \in RanksOf(S) : IsNonLocSimdRank(lat, s, ori, dir)}
           f == [s \in E |-> SiteOfCoords(flat(at(s)), F)]
<1>1. S \in SidesOf /\ S[dir] \in Nat \ {0} /\ edge \in 0..(S[dir] - 1)
  BY DEF SidesOf
<1>2. Volume(S) \in Nat \ {0} /\ Volume(F) \in Nat \ {0}
  <2>1. PICK below : VolumesUpTo(S, NDims, below) /\ Volume(S) = below[NDims]
    BY VolumesThere
  <2>2. PICK belowF : VolumesUpTo(F, NDims, belowF) /\ Volume(F) = belowF[NDims]
    BY VolumesThere
  <2>3. NDims \in 0..NDims
    BY NDimsNat
  <2>4. Volume(S) \in Nat \ {0}
    BY <1>1, <2>1, <2>3, VolumesTyped
  <2>5. Volume(F) \in Nat \ {0}
    BY <2>2, <2>3, VolumesTyped
  <2> QED BY <2>4, <2>5
<1>3. \A s \in RanksOf(S) : at(s) \in Box(S) /\ SiteOfCoords(at(s), S) = s
  BY <1>1, CoordsOfSiteInverse
<1>4. ASSUME NEW s \in RanksOf(S)
      PROVE  IsNonLocSimdRank(lat, s, ori, dir) <=> at(s)[dir] = edge
  <2> DEFINE x == at(s)[dir]
  <2>1. x \in 0..(S[dir] - 1) /\ at(s) \in [Dir -> Nat]
    BY <1>1, <1>3 DEF Box
  <2>2. Shifted(at(s), ori, dir)[dir] = x + MoveOffset(ori)
    BY <2>1 DEF Shifted
  <2>3. IsNonLocSimdRank(lat, s, ori, dir) <=> x + MoveOffset(ori) \notin 0..(S[dir] - 1)
    BY <2>2 DEF IsNonLocSimdRank
  <2> HIDE DEF x, at
  <2>4. MoveOffset(ori) = IF ori = BW THEN -1 ELSE 1
    BY DEF MoveOffset, Ori, BW, FW
  <2> DEFINE L == S[dir]
  <2>5. L \in Nat \ {0} /\ x \in 0..(L - 1) /\ edge = IF ori = BW THEN 0 ELSE L - 1
    BY <1>1, <2>1
  <2> HIDE DEF L, edge
  <2>6. x + MoveOffset(ori) \notin 0..(L - 1) <=> x = edge
    BY <2>4, <2>5
  <2> QED BY <2>3, <2>6 DEF L, x
<1>5. \A s \in E : s \in RanksOf(S) /\ at(s) \in Box(S) /\ at(s)[dir] = edge
  BY <1>3, <1>4
<1>6. \A s \in RanksOf(S) : at(s)[dir] = edge => s \in E
  BY <1>4
<1>7. Len(NonLocSimdRanks(lat, ori, dir)) = Cardinality(E)
  BY <1>2, FoundLength
<1> HIDE DEF E
<1>8. \A c \in Box(S) : flat(c) \in Box(F)
  BY DEF Box, SidesOf
<1>9. \A s \in E : f[s] \in RanksOf(F) /\ CoordsOfSite(f[s], F) = flat(at(s))
  BY <1>5, <1>8, SiteOfCoordsInverse
<1>10. f \in [E -> 0..(Volume(F) - 1)]
  BY <1>9 DEF RanksOf
<1>11. ASSUME NEW x \in E, NEW y \in E, f[x] = f[y] PROVE x = y
  <2>1. flat(at(x)) = flat(at(y))
    BY <1>9, <1>11
  <2>2. \A d \in Dir : at(x)[d] = at(y)[d]
    <3> TAKE d \in Dir
    <3>1. CASE d = dir
      BY <1>5, <3>1
    <3>2. CASE d # dir
      <4>1. flat(at(x))[d] = at(x)[d] /\ flat(at(y))[d] = at(y)[d]
        BY <3>2
      <4> QED BY <2>1, <4>1
    <3> QED BY <3>1, <3>2
  <2>3. at(x) \in [Dir -> Nat] /\ at(y) \in [Dir -> Nat]
    BY <1>5 DEF Box
  <2>4. at(x) = at(y)
    <3> HIDE DEF at
    <3> QED BY <2>2, <2>3
  <2> QED BY <1>3, <1>5, <2>4
<1>12. ASSUME NEW i \in 0..(Volume(F) - 1) PROVE \E x \in E : f[x] = i
  <2> DEFINE e == CoordsOfSite(i, F)
             c == [d \in Dir |-> IF d = dir THEN edge ELSE e[d]]
             x == SiteOfCoords(c, S)
  <2>1. e \in Box(F) /\ SiteOfCoords(e, F) = i
    BY CoordsOfSiteInverse DEF RanksOf
  <2>2. c \in Box(S)
    <3> HIDE DEF e, edge
    <3> QED BY <1>1, <2>1 DEF Box, SidesOf
  <2>3. x \in RanksOf(S) /\ at(x) = c
    BY <1>1, <2>2, SiteOfCoordsInverse
  <2>4. x \in E
    BY <1>6, <2>3
  <2>5. flat(c) = e
    <3>1. e \in [Dir -> Nat] /\ e[dir] < 1
      BY <2>1 DEF Box
    <3>2. e[dir] = 0
      BY <3>1
    <3>3. \A d \in Dir : flat(c)[d] = e[d]
      BY <3>2
    <3>4. flat(c) = [d \in Dir |-> flat(c)[d]] /\ e = [d \in Dir |-> e[d]]
      BY <3>1
    <3> HIDE DEF flat, c, e
    <3> QED BY <3>3, <3>4
  <2>6. f[x] = SiteOfCoords(flat(at(x)), F)
    BY <2>4
  <2> QED BY <2>1, <2>3, <2>4, <2>5, <2>6
<1> HIDE DEF f
<1> QED BY <1>2, <1>7, <1>10, <1>11, <1>12, Counted

------------------------------------------------------------------------------
(* Where a site of a lane is in the global lattice.                        *)

\* The parity of a sum.
LEMMA ParityAdds ==
  ASSUME NEW c \in [Dir -> Int], NEW e \in [Dir -> Int]
  PROVE  LET s == [d \in Dir |-> c[d] + e[d]]
         IN  /\ CoordsParity(c) \in Parity /\ CoordsParity(e) \in Parity
             /\ CoordsParity(s) \in Parity
             /\ CoordsParity(s) = (CoordsParity(c) + CoordsParity(e)) % 2
<1> DEFINE s == [d \in Dir |-> c[d] + e[d]]
<1>0. NDims \in Nat
  BY NDimsNat
<1>1. PICK sc : SumsUpTo(c, NDims, sc) /\ CoordsParity(c) = sc[NDims] % 2
  BY SumsThere
<1>2. PICK se : SumsUpTo(e, NDims, se) /\ CoordsParity(e) = se[NDims] % 2
  BY SumsThere
<1>3. PICK ss : SumsUpTo(s, NDims, ss) /\ CoordsParity(s) = ss[NDims] % 2
  BY SumsThere
<1> DEFINE T == {d \in 0..NDims : ~(sc[d] \in Int /\ se[d] \in Int /\ ss[d] = sc[d] + se[d])}
<1>4. T = {}
  <2> SUFFICES ASSUME T # {} PROVE FALSE
    OBVIOUS
  <2>1. PICK m \in T : \A y \in T : m <= y
    <3>1. T \in SUBSET Nat
      BY <1>0
    <3> HIDE DEF T
    <3> QED BY <3>1, NatMin
  <2>2. /\ m \in 0..NDims
        /\ ~(sc[m] \in Int /\ se[m] \in Int /\ ss[m] = sc[m] + se[m])
        /\ sc[m] = IF m = 0 THEN 0 ELSE sc[m - 1] + c[m - 1]
        /\ se[m] = IF m = 0 THEN 0 ELSE se[m - 1] + e[m - 1]
        /\ ss[m] = IF m = 0 THEN 0 ELSE ss[m - 1] + s[m - 1]
    BY <1>1, <1>2, <1>3 DEF SumsUpTo
  <2>3. m # 0
    BY <2>2
  <2>4. m - 1 \in 0..NDims /\ m - 1 \in Dir /\ m - 1 \notin T
    BY <1>0, <2>1, <2>2, <2>3 DEF Dir
  <2>5. sc[m - 1] \in Int /\ se[m - 1] \in Int /\ ss[m - 1] = sc[m - 1] + se[m - 1]
    BY <2>4
  <2>6. c[m - 1] \in Int /\ e[m - 1] \in Int /\ s[m - 1] = c[m - 1] + e[m - 1]
    BY <2>4
  <2> QED BY <2>2, <2>3, <2>5, <2>6
<1>5. sc[NDims] \in Int /\ se[NDims] \in Int /\ ss[NDims] = sc[NDims] + se[NDims]
  BY <1>0, <1>4
<1>6. \A a, b \in Int : /\ a % 2 \in Parity /\ b % 2 \in Parity /\ (a + b) % 2 \in Parity
                        /\ (a + b) % 2 = ((a % 2) + (b % 2)) % 2
  BY DEF Parity
<1> QED BY <1>1, <1>2, <1>3, <1>5, <1>6

\* The rank, the lane and the side of a lane, in one direction.
LaneSide(lat, d) == lat.glbSides[d] \div (lat.nRanks[d] * lat.nSimdRanks[d])

\* Where ranks and lanes begin.
LEMMA OriginsAre ==
  ASSUME NEW lat, Divided(lat), NEW rank \in RanksOf(lat.nRanks),
         NEW lane \in RanksOf(lat.nSimdRanks), NEW d \in Dir
  PROVE  LET n == lat.nRanks[d]
             m == lat.nSimdRanks[d]
             l == LaneSide(lat, d)
             i == CoordsOfSite(rank, lat.nRanks)[d]
             j == CoordsOfSite(lane, lat.nSimdRanks)[d]
         IN  /\ n \in Nat \ {0} /\ m \in Nat \ {0} /\ l \in Nat \ {0}
             /\ n * m \in Nat \ {0}
             /\ i \in 0..(n - 1) /\ j \in 0..(m - 1)
             /\ SimdLocGrid(lat, rank).sides[d] = l
             /\ lat.glbSides[d] = (n * m) * l
             /\ Origin(rank, lat.nRanks, lat.glbSides)[d] = (i * m) * l
             /\ SimdRankLocOrigin(lat, lane)[d] = j * l
<1> DEFINE n == lat.nRanks[d]
           m == lat.nSimdRanks[d]
           l == LaneSide(lat, d)
           i == CoordsOfSite(rank, lat.nRanks)[d]
           j == CoordsOfSite(lane, lat.nSimdRanks)[d]
           G == lat.glbSides[d]
<1>1. lat.nRanks \in SidesOf /\ lat.nSimdRanks \in SidesOf
  BY DEF Divided
<1>2. CoordsOfSite(rank, lat.nRanks) \in Box(lat.nRanks)
      /\ CoordsOfSite(lane, lat.nSimdRanks) \in Box(lat.nSimdRanks)
  BY <1>1, CoordsOfSiteInverse
<1>3. n \in Nat \ {0} /\ m \in Nat \ {0} /\ i \in 0..(n - 1) /\ j \in 0..(m - 1)
  BY <1>1, <1>2 DEF SidesOf, Box
<1>4. SimdLocGrid(lat, rank).sides[d] = l
  BY DEF SimdLocGrid, Grid, Times, LaneSide
<1>5. l \in Nat \ {0} /\ G = l * (n * m)
  BY <1>4, SidesDivided DEF SidesOf
<1>6. Origin(rank, lat.nRanks, lat.glbSides)[d] = (i * G) \div n
  BY DEF Origin
<1>7. SimdRankLocOrigin(lat, lane)[d] = (j * G) \div (n * m)
  BY DEF SimdRankLocOrigin
<1> HIDE DEF n, m, l, i, j, G
<1>8. n * m \in Nat \ {0}
  BY <1>3
<1>9. i \in Nat /\ j \in Nat /\ (i * m) * l \in Nat /\ j * l \in Nat
  BY <1>3, <1>5
<1>10. i * (l * (n * m)) = ((i * m) * l) * n /\ j * (l * (n * m)) = (j * l) * (n * m)
       /\ l * (n * m) = (n * m) * l
  BY <1>3, <1>5, <1>9
<1>11. (((i * m) * l) * n) \div n = (i * m) * l
       /\ ((j * l) * (n * m)) \div (n * m) = j * l
  BY <1>3, <1>8, <1>9, Exact
<1>12. /\ Origin(rank, lat.nRanks, lat.glbSides)[d] = (i * m) * l
       /\ SimdRankLocOrigin(lat, lane)[d] = j * l /\ G = (n * m) * l
  BY <1>5, <1>6, <1>7, <1>10, <1>11
<1> QED BY <1>3, <1>4, <1>5, <1>8, <1>12 DEF n, m, l, i, j, G

\* The grid of a lane is one that the lemmas on grids are about.
LEMMA LaneGridGood ==
  ASSUME NEW lat, Divided(lat), NEW rank \in RanksOf(lat.nRanks)
  PROVE  GoodGrid(SimdLocGrid(lat, rank))
<1> DEFINE g == SimdLocGrid(lat, rank)
           o == Origin(rank, lat.nRanks, lat.glbSides)
<1>1. g.pdir = lat.parityDir /\ g.sides \in SidesOf
  BY SidesDivided
<1>2. g.n = Times(lat.nRanks, lat.nSimdRanks) /\ g.origin = CoordsParity(o)
      /\ g.sides[lat.parityDir] % 2 = 0
  BY DEF SimdLocGrid, Grid, Divided
<1>3. lat.nRanks \in SidesOf /\ lat.nSimdRanks \in SidesOf /\ lat.parityDir \in Dir
  BY DEF Divided
<1>4. g.n \in SidesOf
  <2>1. \A x, y \in Nat \ {0} : x * y \in Nat \ {0}
    OBVIOUS
  <2> HIDE DEF g
  <2> QED BY <1>2, <1>3, <2>1 DEF Times, SidesOf
<1>5. o \in [Dir -> Int]
  <2>1. 0 \in RanksOf(lat.nSimdRanks)
    <3>1. PICK below : VolumesUpTo(lat.nSimdRanks, NDims, below)
                       /\ Volume(lat.nSimdRanks) = below[NDims]
      BY VolumesThere
    <3>2. NDims \in 0..NDims
      BY NDimsNat
    <3>3. Volume(lat.nSimdRanks) \in Nat \ {0}
      BY <1>3, <3>1, <3>2, VolumesTyped
    <3> QED BY <3>3 DEF RanksOf
  <2>2. \A d \in Dir : o[d] \in Int
    <3> TAKE d \in Dir
    <3> DEFINE i == CoordsOfSite(rank, lat.nRanks)[d]
    <3>1. /\ lat.nSimdRanks[d] \in Nat \ {0} /\ LaneSide(lat, d) \in Nat \ {0}
          /\ lat.nRanks[d] \in Nat \ {0} /\ i \in 0..(lat.nRanks[d] - 1)
          /\ o[d] = (i * lat.nSimdRanks[d]) * LaneSide(lat, d)
      BY <2>1, OriginsAre
    <3> HIDE DEF o, i
    <3> QED BY <3>1
  <2>3. o = [d \in Dir |-> o[d]]
    BY DEF Origin
  <2> HIDE DEF o
  <2> QED BY <2>2, <2>3
<1>6. g.origin \in Parity
  <2> HIDE DEF o
  <2> QED BY <1>2, <1>3, <1>5, ParityMoved
<1> QED BY <1>1, <1>2, <1>3, <1>4, <1>6 DEF GoodGrid

\* Global coordinates of local ones.
GlbAt(lat, rank, lane, c) ==
  [d \in Dir |-> (Origin(rank, lat.nRanks, lat.glbSides)[d] + SimdRankLocOrigin(lat, lane)[d])
                 + c[d]]

\* A place in a lane of a rank, in one direction.
LEMMA PlaceInLane ==
  ASSUME NEW n \in Nat \ {0}, NEW m \in Nat \ {0}, NEW l \in Nat \ {0},
         NEW i \in 0..(n - 1), NEW j \in 0..(m - 1), NEW w \in 0..(l - 1)
  PROVE  /\ i * m + j \in 0..(n * m - 1)
         /\ (i * m) * l + j * l + w = (i * m + j) * l + w
         /\ (i * m + j) * l + w \in 0..((n * m) * l - 1)
<1>1. ASSUME NEW a \in Nat \ {0}, NEW b \in Nat \ {0}, NEW x \in 0..(a - 1), NEW y \in 0..(b - 1)
      PROVE  x * b + y \in 0..(a * b - 1)
  <2>1. x * b <= (a - 1) * b
    OBVIOUS
  <2>2. x * b + y \in Nat /\ a * b \in Nat /\ (a - 1) * b = a * b - b
    OBVIOUS
  <2>3. x * b \in Int
    OBVIOUS
  <2> QED BY <2>1, <2>2, <2>3
<1>2. i * m + j \in 0..(n * m - 1)
  BY <1>1
<1>3. n * m \in Nat \ {0}
  OBVIOUS
<1> DEFINE k == i * m + j
           a == n * m
<1>4. k \in 0..(a - 1) /\ a \in Nat \ {0}
  BY <1>2, <1>3
<1>5. (i * m) * l + j * l = k * l
  <2>1. i * m \in Int /\ j \in Int /\ l \in Int
    OBVIOUS
  <2>2. \A x, y \in Int : x * l + y * l = (x + y) * l
    OBVIOUS
  <2> QED BY <2>1, <2>2
<1> HIDE DEF k, a
<1>6. k * l + w \in 0..(a * l - 1)
  BY <1>1, <1>4
<1> QED BY <1>2, <1>5, <1>6 DEF k, a

\* Local coordinates inside of a lane have global ones inside of the lattice, and the
\* parity of the local ones.
LEMMA GlbAtIs ==
  ASSUME NEW lat, Divided(lat), LanesEven(lat), NEW rank \in RanksOf(lat.nRanks),
         NEW lane \in RanksOf(lat.nSimdRanks),
         NEW c \in Box(SimdLocGrid(lat, rank).sides)
  PROVE  LET x == GlbAt(lat, rank, lane, c)
         IN  /\ x \in Box(lat.glbSides)
             /\ CoordsParity(x) = ParityAt(SimdLocGrid(lat, rank), c)
             /\ \A d \in Dir :
                  x[d] = (CoordsOfSite(rank, lat.nRanks)[d] * lat.nSimdRanks[d]
                          + CoordsOfSite(lane, lat.nSimdRanks)[d]) * LaneSide(lat, d) + c[d]
<1> DEFINE x == GlbAt(lat, rank, lane, c)
           g == SimdLocGrid(lat, rank)
           o == Origin(rank, lat.nRanks, lat.glbSides)
           q == SimdRankLocOrigin(lat, lane)
<1>1. ASSUME NEW d \in Dir
      PROVE  /\ x[d] \in Nat /\ x[d] < lat.glbSides[d] /\ o[d] \in Int /\ q[d] \in Int
             /\ x[d] = (CoordsOfSite(rank, lat.nRanks)[d] * lat.nSimdRanks[d]
                        + CoordsOfSite(lane, lat.nSimdRanks)[d]) * LaneSide(lat, d) + c[d]
  <2> DEFINE n == lat.nRanks[d]
             m == lat.nSimdRanks[d]
             l == LaneSide(lat, d)
             i == CoordsOfSite(rank, lat.nRanks)[d]
             j == CoordsOfSite(lane, lat.nSimdRanks)[d]
             w == c[d]
  <2>1. /\ n \in Nat \ {0} /\ m \in Nat \ {0} /\ l \in Nat \ {0}
        /\ i \in 0..(n - 1) /\ j \in 0..(m - 1)
        /\ g.sides[d] = l /\ lat.glbSides[d] = (n * m) * l
        /\ o[d] = (i * m) * l /\ q[d] = j * l
    BY OriginsAre
  <2>2. w \in 0..(l - 1)
    BY <2>1 DEF Box
  <2>3. x[d] = (o[d] + q[d]) + w
    BY DEF GlbAt
  <2> HIDE DEF n, m, l, i, j, w, x, o, q, g
  <2>4. /\ (i * m) * l + j * l + w = (i * m + j) * l + w
        /\ (i * m + j) * l + w \in 0..((n * m) * l - 1)
    BY <2>1, <2>2, PlaceInLane
  <2>5. x[d] = (i * m + j) * l + w
    BY <2>1, <2>3, <2>4
  <2>6. (n * m) * l \in Nat /\ (i * m) * l \in Int /\ j * l \in Int
    BY <2>1
  <2>7. x[d] \in Nat /\ x[d] < lat.glbSides[d]
    <3> DEFINE a == (i * m + j) * l + w
               b == (n * m) * l
    <3>1. a \in 0..(b - 1) /\ b \in Nat /\ x[d] = a /\ lat.glbSides[d] = b
      BY <2>1, <2>4, <2>5, <2>6
    <3> HIDE DEF a, b
    <3> QED BY <3>1
  <2> QED BY <2>1, <2>5, <2>6, <2>7 DEF n, m, l, i, j, w
<1>2. x \in Box(lat.glbSides)
  <2>1. x = [d \in Dir |-> x[d]]
    BY DEF GlbAt
  <2> HIDE DEF x
  <2> QED BY <1>1, <2>1 DEF Box
<1>3. CoordsParity(x) = ParityAt(g, c)
  <2> DEFINE s == [d \in Dir |-> o[d] + q[d]]
  <2>1. o \in [Dir -> Int] /\ q \in [Dir -> Int]
    <3>1. o = [d \in Dir |-> o[d]] /\ q = [d \in Dir |-> q[d]]
      BY DEF Origin, SimdRankLocOrigin
    <3> HIDE DEF o, q, x
    <3> QED BY <1>1, <3>1
  <2>2. c \in [Dir -> Int]
    BY DEF Box
  <2>3. x = [d \in Dir |-> s[d] + c[d]]
    BY DEF GlbAt
  <2>4. g.origin = CoordsParity(o) /\ CoordsParity(q) = 0
    BY DEF SimdLocGrid, Grid, LanesEven
  <2> HIDE DEF o, q, x, g
  <2>5. CoordsParity(o) \in Parity
        /\ CoordsParity(s) = (CoordsParity(o) + CoordsParity(q)) % 2
    BY <2>1, ParityAdds
  <2>6. s \in [Dir -> Int]
    BY <2>1
  <2> HIDE DEF s
  <2>7. CoordsParity(c) \in Parity
        /\ CoordsParity(x) = (CoordsParity(s) + CoordsParity(c)) % 2
    BY <2>2, <2>3, <2>6, ParityAdds
  <2>8. CoordsParity(s) = g.origin
    BY <2>4, <2>5 DEF Parity
  <2> QED BY <2>4, <2>5, <2>7, <2>8 DEF ParityAt, Parity
<1> QED BY <1>1, <1>2, <1>3

\* The site of a lane is in the lattice where its local coordinates say.
LEMMA GlbCoordsAre ==
  ASSUME NEW lat, Divided(lat), LanesEven(lat), NEW rank \in RanksOf(lat.nRanks),
         NEW lane \in RanksOf(lat.nSimdRanks), NEW p \in Parity,
         NEW site \in EoSites(SimdLocGrid(lat, rank))
  PROVE  GlbCoordsOfSimdEoSite(lat, rank, p, site, lane)
           = GlbAt(lat, rank, lane, CoordsOfEoSite(SimdLocGrid(lat, rank), p, site))
<1> DEFINE g == SimdLocGrid(lat, rank)
           o == Origin(rank, lat.nRanks, lat.glbSides)
           q == SimdRankLocOrigin(lat, lane)
           eo == CoordsOfSite(site, EoSides(g))
           part == [d \in Dir |-> eo[d] * ParitySides(g)[d]]
           whole == [d \in Dir |-> o[d] + q[d] + eo[d] * ParitySides(g)[d]]
           a == (CoordsParity(part) + g.origin + p) % 2
           b == (CoordsParity(whole) + p) % 2
<1>1. CoordsOfEoSite(g, p, site) = [part EXCEPT ![g.pdir] = @ + a]
  BY DEF CoordsOfEoSite
<1>2. GlbCoordsOfSimdEoSite(lat, rank, p, site, lane) = [whole EXCEPT ![lat.parityDir] = @ + b]
  BY DEF GlbCoordsOfSimdEoSite
<1>3. g.pdir = lat.parityDir /\ lat.parityDir \in Dir /\ GoodGrid(g)
  BY LaneGridGood DEF SimdLocGrid, Grid, Divided
<1>4. \A d \in Dir : part[d] \in Nat /\ part[d] < g.sides[d]
  <2> TAKE d \in Dir
  <2>1. eo \in Box(EoSides(g))
    BY <1>3, GridHalved, CoordsOfSiteInverse
  <2>2. eo[d] \in Nat /\ eo[d] < EoSides(g)[d] /\ EoSides(g)[d] \in Nat
    BY <1>3, <2>1, GridHalved DEF Box, SidesOf
  <2>3. /\ ParitySides(g)[d] = IF d = g.pdir THEN 2 ELSE 1
        /\ g.sides[d] = IF d = g.pdir THEN 2 * EoSides(g)[d] ELSE EoSides(g)[d]
    BY <1>3, GridHalved
  <2>4. part[d] = eo[d] * ParitySides(g)[d]
    OBVIOUS
  <2> HIDE DEF part, eo, g
  <2> QED BY <2>2, <2>3, <2>4
<1>5. part \in Box(g.sides)
  <2>1. part = [d \in Dir |-> part[d]]
    OBVIOUS
  <2> HIDE DEF part, g
  <2> QED BY <1>4, <2>1 DEF Box
<1>6. ASSUME NEW d \in Dir PROVE o[d] \in Int /\ q[d] \in Int
  <2> DEFINE i == CoordsOfSite(rank, lat.nRanks)[d]
             j == CoordsOfSite(lane, lat.nSimdRanks)[d]
  <2>1. /\ lat.nRanks[d] \in Nat \ {0} /\ lat.nSimdRanks[d] \in Nat \ {0}
        /\ LaneSide(lat, d) \in Nat \ {0} /\ i \in 0..(lat.nRanks[d] - 1)
        /\ j \in 0..(lat.nSimdRanks[d] - 1)
        /\ o[d] = (i * lat.nSimdRanks[d]) * LaneSide(lat, d) /\ q[d] = j * LaneSide(lat, d)
    BY OriginsAre
  <2> HIDE DEF o, q, i, j
  <2> QED BY <2>1
<1>7. whole = GlbAt(lat, rank, lane, part)
  <2>1. \A d \in Dir : whole[d] = (o[d] + q[d]) + part[d]
    OBVIOUS
  <2> HIDE DEF part
  <2> QED BY <2>1 DEF GlbAt
<1> HIDE DEF part, whole, g
<1>8. CoordsParity(whole) = ParityAt(g, part)
  BY <1>5, <1>7, GlbAtIs DEF g
<1>9. a = b
  <2>1. CoordsParity(part) \in Parity /\ g.origin \in Parity
    <3>1. part \in [Dir -> Int]
      BY <1>5 DEF Box
    <3> QED BY <1>3, <3>1, ParityMoved DEF GoodGrid
  <2> QED BY <1>8, <2>1 DEF ParityAt, Parity
<1>10. a \in Int /\ part \in [Dir -> Int]
  <2>1. part \in [Dir -> Int]
    BY <1>5 DEF Box
  <2>2. CoordsParity(part) \in Parity /\ g.origin \in Parity
    BY <1>3, <2>1, ParityMoved DEF GoodGrid
  <2> QED BY <2>1, <2>2 DEF Parity
<1> HIDE DEF a, b, o, q
<1>11. [whole EXCEPT ![lat.parityDir] = @ + b]
         = GlbAt(lat, rank, lane, [part EXCEPT ![g.pdir] = @ + a])
  <2> DEFINE moved == [part EXCEPT ![g.pdir] = @ + a]
  <2>1. \A d \in Dir : moved[d] = IF d = g.pdir THEN part[d] + a ELSE part[d]
    BY <1>10
  <2>2. \A d \in Dir : whole[d] = (o[d] + q[d]) + part[d]
    BY <1>7 DEF GlbAt, o, q
  <2>3. whole = [d \in Dir |-> whole[d]]
    BY <1>7 DEF GlbAt
  <2> HIDE DEF moved
  <2>4. GlbAt(lat, rank, lane, moved) = [d \in Dir |-> (o[d] + q[d]) + moved[d]]
    BY DEF GlbAt, o, q
  <2>5. \A d \in Dir : o[d] \in Int /\ q[d] \in Int /\ part[d] \in Int
    BY <1>6, <1>10
  <2>6. \A d \in Dir : [whole EXCEPT ![lat.parityDir] = @ + b][d] = (o[d] + q[d]) + moved[d]
    <3> TAKE d \in Dir
    <3>1. [whole EXCEPT ![lat.parityDir] = @ + b][d]
            = IF d = lat.parityDir THEN whole[d] + b ELSE whole[d]
      BY <2>3
    <3>2. CASE d = lat.parityDir
      <4>1. ((o[d] + q[d]) + part[d]) + a = (o[d] + q[d]) + (part[d] + a)
        BY <1>10, <2>5
      <4> QED BY <1>3, <1>9, <2>1, <2>2, <3>1, <3>2, <4>1
    <3>3. CASE d # lat.parityDir
      BY <1>3, <2>1, <2>2, <3>1, <3>3
    <3> QED BY <3>2, <3>3
  <2>7. [whole EXCEPT ![lat.parityDir] = @ + b]
          = [d \in Dir |-> [whole EXCEPT ![lat.parityDir] = @ + b][d]]
    BY <2>3
  <2> DEFINE w == [whole EXCEPT ![lat.parityDir] = @ + b]
  <2> HIDE DEF w
  <2>8. w = GlbAt(lat, rank, lane, moved)
    BY <2>4, <2>6, <2>7 DEF w
  <2> QED BY <2>8 DEF w, moved
<1> QED BY <1>1, <1>2, <1>11 DEF g

------------------------------------------------------------------------------
(* A step over a face.                                                     *)

\* The last place of a lane of side l in an orientation.
LastOf(ori, l) == IF ori = BW THEN 0 ELSE l - 1

\* Of n ranks of m lanes, the one where the lane j of the rank i arrives by a step.
Carried(i, n, j, m, ori) == IF n > 1 /\ j = LastOf(ori, m) THEN Around(i, n, ori) ELSE i

\* A step from the last lane of a rank goes to the next rank.
LEMMA AroundLanes ==
  ASSUME NEW n \in Nat \ {0}, NEW m \in Nat \ {0},
         NEW i \in 0..(n - 1), NEW j \in 0..(m - 1), NEW ori \in Ori
  PROVE  /\ Carried(i, n, j, m, ori) \in 0..(n - 1) /\ Around(j, m, ori) \in 0..(m - 1)
         /\ Carried(i, n, j, m, ori) * m + Around(j, m, ori) = Around(i * m + j, n * m, ori)
<1> DEFINE i2 == Carried(i, n, j, m, ori)
<1>0. i2 = IF n > 1 /\ j = LastOf(ori, m) THEN Around(i, n, ori) ELSE i
  BY DEF Carried
<1> HIDE DEF i2
<1> DEFINE out == j = LastOf(ori, m)
           j2 == Around(j, m, ori)
           k == i * m + j
           N == n * m
<1>1. i2 \in 0..(n - 1) /\ j2 \in 0..(m - 1)
  BY <1>0, StepAround
<1>3. i * m \in Nat /\ N \in Nat /\ n * m = (n - 1) * m + m /\ k \in Nat
  OBVIOUS
<1>4. i * m <= (n - 1) * m /\ (i + 1) * m = i * m + m /\ (i - 1) * m = i * m - m
  OBVIOUS
<1>5. i # n - 1 => (i + 1) * m <= (n - 1) * m
  OBVIOUS
<1>6. ASSUME ori = FW PROVE i2 * m + j2 = Around(k, N, ori)
  <2>1. j2 = IF j + 1 = m THEN 0 ELSE j + 1
    BY <1>6 DEF Around, BW, FW
  <2>2. out <=> j + 1 = m
    BY <1>6 DEF LastOf, BW, FW
  <2>3. Around(k, N, ori) = IF k + 1 = N THEN 0 ELSE k + 1
    BY <1>6 DEF Around, BW, FW
  <2>4. Around(i, n, ori) = IF i + 1 = n THEN 0 ELSE i + 1
    BY <1>6 DEF Around, BW, FW
  <2>5. CASE j + 1 # m
    <3>1. k + 1 # N /\ i2 = i
      BY <1>0, <1>3, <1>4, <2>2, <2>5
    <3> QED BY <1>3, <2>1, <2>3, <2>5, <3>1
  <2>6. CASE j + 1 = m /\ i + 1 = n
    <3>1. i * m = (n - 1) * m
      BY <2>6
    <3>2. k + 1 = N
      BY <1>3, <2>6, <3>1
    <3>3. i2 = 0
      BY <1>0, <2>2, <2>4, <2>6
    <3>4. i2 * m = 0
      BY <3>3
    <3> HIDE DEF k, N
    <3> QED BY <2>1, <2>3, <2>6, <3>2, <3>4
  <2>7. CASE j + 1 = m /\ i + 1 # n
    <3>1. k + 1 = i * m + m /\ k + 1 # N
      <4>1. i * m + m <= (n - 1) * m
        BY <1>4, <1>5, <2>7
      <4> QED BY <1>3, <2>7, <4>1
    <3>2. i2 = i + 1
      BY <1>0, <2>2, <2>4, <2>7
    <3>3. i2 * m = i * m + m
      BY <1>4, <3>2
    <3> HIDE DEF k, N
    <3> QED BY <1>3, <2>1, <2>3, <2>7, <3>1, <3>3
  <2> QED BY <2>5, <2>6, <2>7
<1>7. ASSUME ori = BW PROVE i2 * m + j2 = Around(k, N, ori)
  <2>1. j2 = IF j = 0 THEN m - 1 ELSE j - 1
    BY <1>7 DEF Around
  <2>2. out <=> j = 0
    BY <1>7 DEF LastOf
  <2>3. Around(k, N, ori) = IF k = 0 THEN N - 1 ELSE k - 1
    BY <1>7 DEF Around
  <2>4. Around(i, n, ori) = IF i = 0 THEN n - 1 ELSE i - 1
    BY <1>7 DEF Around
  <2>5. CASE j # 0
    <3>1. k # 0 /\ i2 = i
      BY <1>0, <1>3, <2>2, <2>5
    <3> QED BY <1>3, <2>1, <2>3, <2>5, <3>1
  <2>6. CASE j = 0 /\ i = 0
    <3>1. k = 0 /\ i2 = n - 1
      BY <1>0, <2>2, <2>4, <2>6
    <3>2. i2 * m = (n - 1) * m
      BY <3>1
    <3> HIDE DEF k
    <3>3. i2 * m + j2 = N - 1
      BY <1>3, <2>1, <2>6, <3>2
    <3> QED BY <2>3, <3>1, <3>3
  <2>7. CASE j = 0 /\ i # 0
    <3>1. k = i * m /\ i * m >= m
      BY <1>3, <2>7
    <3>2. i2 = i - 1
      BY <1>0, <2>2, <2>4, <2>7
    <3>3. i2 * m = i * m - m
      BY <1>4, <3>2
    <3> HIDE DEF k
    <3> QED BY <1>3, <2>1, <2>3, <2>7, <3>1, <3>3
  <2> QED BY <2>5, <2>6, <2>7
<1>8. ori = FW \/ ori = BW
  BY DEF Ori
<1> QED BY <1>1, <1>6, <1>7, <1>8 DEF i2

\* A step from the last place of the lane k of N goes to the first one of the next.
LEMMA StepOver ==
  ASSUME NEW N \in Nat \ {0}, NEW l \in Nat \ {0}, NEW k \in 0..(N - 1), NEW ori \in Ori
  PROVE  LET x == k * l + LastOf(ori, l)
             y == Around(k, N, ori) * l + LastOf(OppositeOri(ori), l)
         IN  /\ x \in Nat /\ y \in Nat
             /\ (x + MoveOffset(ori)) % (N * l) = y
             /\ (N * l) % 2 = 0 => (y - x) % 2 = 1
<1> DEFINE x == k * l + LastOf(ori, l)
           y == Around(k, N, ori) * l + LastOf(OppositeOri(ori), l)
           A == N * l
           b == k * l
<1>1. /\ A \in Nat \ {0} /\ b \in Nat /\ (k + 1) * l = b + l /\ (k - 1) * l = b - l
      /\ (N - 1) * l = A - l /\ b <= (N - 1) * l /\ 0 * l = 0
  OBVIOUS
<1>2. k + 1 # N => b + l <= A - l
  <2>1. k + 1 # N => (k + 1) * l <= (N - 1) * l
    OBVIOUS
  <2> QED BY <1>1, <2>1
<1>3. k # 0 => b >= l
  OBVIOUS
<1>4. k = 0 => b = 0
  OBVIOUS
<1>5. k + 1 = N => b = A - l
  <2>1. k + 1 = N => k = N - 1
    OBVIOUS
  <2> QED BY <1>1, <2>1
<1>6. /\ (k + 1) * l \in Nat /\ A % A = 0 /\ (-1) % A = A - 1
      /\ \A z \in 0..(A - 1) : z % A = z
  BY <1>1
<1>7. \A z \in Int : A % 2 = 0 => (z - (A + z)) % 2 = 0 /\ ((A - 1) - 0) % 2 = 1 /\ (0 - (A - 1)) % 2 = 1
  BY <1>1
<1>8. CASE ori = FW
  <2>1. LastOf(ori, l) = l - 1 /\ LastOf(OppositeOri(ori), l) = 0 /\ MoveOffset(ori) = 1
    BY <1>8 DEF LastOf, OppositeOri, MoveOffset, BW, FW
  <2>2. Around(k, N, ori) = IF k + 1 = N THEN 0 ELSE k + 1
    BY <1>8 DEF Around, BW, FW
  <2>3. x = b + (l - 1) /\ x + MoveOffset(ori) = b + l /\ x \in Nat
    BY <1>1, <2>1
  <2>4. CASE k + 1 = N
    <3>1. y = 0 * l + 0
      BY <2>1, <2>2, <2>4
    <3>2. y = 0 /\ x + MoveOffset(ori) = A /\ x = A - 1
      BY <1>1, <1>5, <2>3, <2>4, <3>1
    <3> HIDE DEF x, y, A, b
    <3> QED BY <1>1, <1>6, <1>7, <2>3, <3>2 DEF x, y, A, b
  <2>5. CASE k + 1 # N
    <3>1. y = (k + 1) * l + 0
      BY <2>1, <2>2, <2>5
    <3>2. y = b + l /\ y \in 0..(A - 1) /\ y = x + 1
      BY <1>1, <1>2, <2>3, <2>5, <3>1
    <3>3. (y - x) % 2 = 1
      BY <2>3, <3>2
    <3> HIDE DEF x, y, A, b
    <3>4. (x + MoveOffset(ori)) % A = y /\ y \in Nat
      BY <1>6, <2>3, <3>2
    <3> QED BY <2>3, <3>3, <3>4 DEF x, y, A, b
  <2> QED BY <2>4, <2>5
<1>9. CASE ori = BW
  <2>1. LastOf(ori, l) = 0 /\ LastOf(OppositeOri(ori), l) = l - 1 /\ MoveOffset(ori) = -1
    BY <1>9 DEF LastOf, OppositeOri, MoveOffset, BW, FW
  <2>2. Around(k, N, ori) = IF k = 0 THEN N - 1 ELSE k - 1
    BY <1>9 DEF Around
  <2>3. x = b + 0 /\ x = b /\ x + MoveOffset(ori) = b - 1 /\ x \in Nat
    BY <1>1, <2>1
  <2>4. CASE k = 0
    <3>1. y = (N - 1) * l + (l - 1)
      BY <2>1, <2>2, <2>4
    <3>2. y = A - 1 /\ x + MoveOffset(ori) = -1 /\ x = 0
      BY <1>1, <1>4, <2>3, <2>4, <3>1
    <3> HIDE DEF x, y, A, b
    <3> QED BY <1>1, <1>6, <1>7, <2>3, <3>2 DEF x, y, A, b
  <2>5. CASE k # 0
    <3>1. y = (k - 1) * l + (l - 1)
      BY <2>1, <2>2, <2>5
    <3>2. y = b - 1 /\ y \in 0..(A - 1) /\ y = x - 1
      BY <1>1, <1>3, <2>3, <2>5, <3>1
    <3>3. (y - x) % 2 = 1
      BY <2>3, <3>2
    <3> HIDE DEF x, y, A, b
    <3>4. (x + MoveOffset(ori)) % A = y /\ y \in Nat
      BY <1>6, <2>3, <3>2
    <3> QED BY <2>3, <3>3, <3>4 DEF x, y, A, b
  <2> QED BY <2>4, <2>5
<1>10. ori = FW \/ ori = BW
  BY DEF Ori
<1> QED BY <1>8, <1>9, <1>10

\* A side cut by ranks or by lanes is even: lanes of an odd side would not all begin on
\* even sites.
LEMMA CutSideEven ==
  ASSUME NEW lat, Divided(lat), LanesEven(lat), EvenCuts(lat),
         NEW dir \in Dir, lat.nRanks[dir] * lat.nSimdRanks[dir] > 1
  PROVE  lat.glbSides[dir] % 2 = 0
<1> DEFINE S == lat.nSimdRanks
           l == LaneSide(lat, dir)
           v == [d \in Dir |-> IF d = dir THEN 1 ELSE 0]
           lane == SiteOfCoords(v, S)
           zero == [d \in Dir |-> 0]
           o == SimdRankLocOrigin(lat, lane)
<1>1. S \in SidesOf /\ lat.nRanks \in SidesOf
  BY DEF Divided
<1>2. lat.nRanks[dir] \in Nat \ {0} /\ S[dir] \in Nat \ {0}
  BY <1>1 DEF SidesOf
<1>3. CASE lat.nRanks[dir] > 1
  BY <1>3 DEF EvenCuts
<1>4. CASE ~(lat.nRanks[dir] > 1)
  <2>1. lat.nRanks[dir] = 1 /\ S[dir] > 1
    BY <1>2, <1>4
  <2>2. v \in Box(S)
    BY <1>1, <2>1 DEF Box, SidesOf
  <2>3. lane \in RanksOf(S) /\ CoordsOfSite(lane, S) = v
    <3> HIDE DEF v
    <3> QED BY <1>1, <2>2, SiteOfCoordsInverse
  <2>4. \E rank : rank \in RanksOf(lat.nRanks)
    <3>1. [d \in Dir |-> 0] \in Box(lat.nRanks)
      BY <1>1 DEF Box, SidesOf
    <3> QED BY <1>1, <3>1, SiteOfCoordsInverse
  <2>5. PICK rank : rank \in RanksOf(lat.nRanks)
    BY <2>4
  <2>6. ASSUME NEW d \in Dir
        PROVE  /\ LaneSide(lat, d) \in Nat \ {0} /\ o[d] = v[d] * LaneSide(lat, d)
               /\ lat.glbSides[d] = (lat.nRanks[d] * S[d]) * LaneSide(lat, d)
    <3> HIDE DEF lane, v
    <3> QED BY <2>3, <2>5, OriginsAre
  <2>7. o = [zero EXCEPT ![dir] = @ + l]
    <3>1. \A d \in Dir : o[d] = IF d = dir THEN 0 + l ELSE 0
      <4> TAKE d \in Dir
      <4>1. LaneSide(lat, d) \in Nat /\ o[d] = v[d] * LaneSide(lat, d)
        BY <2>6
      <4>2. v[d] = IF d = dir THEN 1 ELSE 0
        OBVIOUS
      <4>3. \A x \in Nat : 1 * x = 0 + x /\ 0 * x = 0
        OBVIOUS
      <4> HIDE DEF o, v
      <4> QED BY <4>1, <4>2, <4>3
    <3>2. o = [d \in Dir |-> o[d]]
      BY DEF SimdRankLocOrigin
    <3> HIDE DEF o, l
    <3> QED BY <3>1, <3>2
  <2>8. CoordsParity(o) = 0
    <3> HIDE DEF lane
    <3> QED BY <2>3 DEF LanesEven
  <2>9. zero \in [Dir -> Int] /\ zero = [d \in Dir |-> zero[d] + zero[d]]
    OBVIOUS
  <2>10. l \in Int
    <3> HIDE DEF o, v, lane
    <3>1. LaneSide(lat, dir) \in Nat
      BY <2>6
    <3> QED BY <3>1
  <2> HIDE DEF zero, o, l
  <2>11. CoordsParity(zero) \in Parity
         /\ CoordsParity(zero) = (CoordsParity(zero) + CoordsParity(zero)) % 2
    BY <2>9, ParityAdds
  <2>12. CoordsParity(o) = (CoordsParity(zero) + l) % 2
    BY <2>7, <2>9, <2>10, ParityMoved
  <2>13. CoordsParity(zero) = 0
    BY <2>11 DEF Parity
  <2>14. l % 2 = 0
    BY <2>8, <2>10, <2>12, <2>13
  <2> DEFINE a == lat.nRanks[dir] * S[dir]
  <2>15. a \in Nat /\ l \in Nat /\ lat.glbSides[dir] = a * l
    <3>1. LaneSide(lat, dir) \in Nat
          /\ lat.glbSides[dir] = (lat.nRanks[dir] * S[dir]) * LaneSide(lat, dir)
      BY <2>6
    <3>2. \A x, y \in Nat : x * y \in Nat
      OBVIOUS
    <3> QED BY <1>2, <3>1, <3>2 DEF l
  <2> HIDE DEF a
  <2>16. (a * l) % 2 \in {0, 1} /\ (a * l) % 2 # 1
    <3>1. (a * l) \in Nat
      BY <2>15
    <3>2. (a * l) % 2 = 1 => l % 2 = 1
      BY <2>15, OddProduct
    <3> QED BY <2>14, <3>1, <3>2
  <2> QED BY <2>15, <2>16
<1> QED BY <1>3, <1>4

\* Where a lane faces another rank.
LEMMA NonLocIs ==
  ASSUME NEW lat, lat.nSimdRanks \in SidesOf, NEW lane \in RanksOf(lat.nSimdRanks),
         NEW ori \in Ori, NEW dir \in Dir
  PROVE  IsNonLocSimdRank(lat, lane, ori, dir)
           <=> lat.nRanks[dir] > 1
               /\ CoordsOfSite(lane, lat.nSimdRanks)[dir] = LastOf(ori, lat.nSimdRanks[dir])
<1> DEFINE at == CoordsOfSite(lane, lat.nSimdRanks)
           L == lat.nSimdRanks[dir]
           x == at[dir]
<1>1. at \in Box(lat.nSimdRanks)
  BY CoordsOfSiteInverse
<1>2. L \in Nat \ {0} /\ x \in 0..(L - 1) /\ at \in [Dir -> Nat]
  BY <1>1 DEF Box, SidesOf
<1>3. Shifted(at, ori, dir)[dir] = x + MoveOffset(ori)
  BY <1>2 DEF Shifted
<1>4. IsNonLocSimdRank(lat, lane, ori, dir)
        <=> lat.nRanks[dir] > 1 /\ x + MoveOffset(ori) \notin 0..(L - 1)
  BY <1>3 DEF IsNonLocSimdRank
<1> HIDE DEF x, L, at
<1>5. MoveOffset(ori) = IF ori = BW THEN -1 ELSE 1
  BY DEF MoveOffset, Ori, BW, FW
<1>6. x + MoveOffset(ori) \notin 0..(L - 1) <=> x = LastOf(ori, L)
  BY <1>2, <1>5 DEF LastOf
<1> QED BY <1>4, <1>6 DEF x, L, at

\* The rank where a lane finds what is behind a face.
RankAcross(lat, rank, lane, ori, dir) ==
  IF IsNonLocSimdRank(lat, lane, ori, dir) THEN RankNeighbour(rank, lat.nRanks, ori, dir)
                                           ELSE rank

\* The place of a lane of a rank among all of the lanes, in a direction.
LaneAt(lat, rank, lane, d) ==
  CoordsOfSite(rank, lat.nRanks)[d] * lat.nSimdRanks[d] + CoordsOfSite(lane, lat.nSimdRanks)[d]

\* Coordinates of the neighbours: the ones of the rank and of the lane move together as
\* those of one lattice of lanes.
LEMMA LanesAcross ==
  ASSUME NEW lat, Divided(lat), NEW rank \in RanksOf(lat.nRanks),
         NEW lane \in RanksOf(lat.nSimdRanks), NEW ori \in Ori, NEW dir \in Dir
  PROVE  LET there == RankAcross(lat, rank, lane, ori, dir)
             other == RankNeighbour(lane, lat.nSimdRanks, ori, dir)
         IN  /\ there \in RanksOf(lat.nRanks) /\ other \in RanksOf(lat.nSimdRanks)
             /\ \A d \in Dir :
                  /\ LaneAt(lat, rank, lane, d) \in 0..(lat.nRanks[d] * lat.nSimdRanks[d] - 1)
                  /\ lat.nRanks[d] * lat.nSimdRanks[d] \in Nat \ {0}
             /\ LaneAt(lat, there, other, dir)
                  = Around(LaneAt(lat, rank, lane, dir), lat.nRanks[dir] * lat.nSimdRanks[dir], ori)
             /\ \A d \in Dir \ {dir} : LaneAt(lat, there, other, d) = LaneAt(lat, rank, lane, d)
<1> DEFINE R == lat.nRanks
           S == lat.nSimdRanks
           there == RankAcross(lat, rank, lane, ori, dir)
           other == RankNeighbour(lane, S, ori, dir)
           rc == CoordsOfSite(rank, R)
           sc == CoordsOfSite(lane, S)
           out == sc[dir] = LastOf(ori, S[dir])
           rw == [d \in Dir |-> IF d = dir THEN Around(rc[d], R[d], ori) ELSE rc[d]]
           sw == [d \in Dir |-> IF d = dir THEN Around(sc[d], S[d], ori) ELSE sc[d]]
<1>1. R \in SidesOf /\ S \in SidesOf
  BY DEF Divided
<1>2. rc \in Box(R) /\ rw \in Box(R) /\ RankNeighbour(rank, R, ori, dir) = SiteOfCoords(rw, R)
  BY <1>1, NeighbourCoords
<1>3. sc \in Box(S) /\ sw \in Box(S) /\ other = SiteOfCoords(sw, S)
  BY <1>1, NeighbourCoords
<1> HIDE DEF rw, sw, rc, sc
<1>4. other \in RanksOf(S) /\ CoordsOfSite(other, S) = sw
  BY <1>1, <1>3, SiteOfCoordsInverse
<1>5. RankNeighbour(rank, R, ori, dir) \in RanksOf(R)
      /\ CoordsOfSite(RankNeighbour(rank, R, ori, dir), R) = rw
  BY <1>1, <1>2, SiteOfCoordsInverse
<1>6. IsNonLocSimdRank(lat, lane, ori, dir) <=> R[dir] > 1 /\ out
  BY <1>1, NonLocIs DEF sc
<1>7. /\ there \in RanksOf(R)
      /\ CoordsOfSite(there, R) = IF R[dir] > 1 /\ out THEN rw ELSE rc
  <2>1. there = IF R[dir] > 1 /\ out THEN RankNeighbour(rank, R, ori, dir) ELSE rank
    BY <1>6 DEF RankAcross
  <2> QED BY <1>5, <2>1 DEF rc
<1>8. \A d \in Dir : /\ R[d] \in Nat \ {0} /\ S[d] \in Nat \ {0}
                     /\ rc[d] \in 0..(R[d] - 1) /\ sc[d] \in 0..(S[d] - 1)
  BY <1>1, <1>2, <1>3 DEF Box, SidesOf
<1>9. \A d \in Dir : rc[d] * S[d] + sc[d] \in 0..(R[d] * S[d] - 1) /\ R[d] * S[d] \in Nat \ {0}
  <2> TAKE d \in Dir
  <2> DEFINE n == R[d]
             m == S[d]
             i == rc[d]
             j == sc[d]
  <2>1. n \in Nat \ {0} /\ m \in Nat \ {0} /\ i \in 0..(n - 1) /\ j \in 0..(m - 1) /\ 1 \in Nat \ {0} /\ 0 \in 0..(1 - 1)
    BY <1>8
  <2> HIDE DEF n, m, i, j
  <2>2. i * m + j \in 0..(n * m - 1)
    BY <2>1, PlaceInLane
  <2>3. n * m \in Nat \ {0}
    BY <2>1
  <2> QED BY <2>2, <2>3 DEF n, m, i, j
<1>10. CoordsOfSite(there, R)[dir] * S[dir] + CoordsOfSite(other, S)[dir]
         = Around(rc[dir] * S[dir] + sc[dir], R[dir] * S[dir], ori)
  <2> DEFINE n == R[dir]
             m == S[dir]
             i == rc[dir]
             j == sc[dir]
  <2>1. n \in Nat \ {0} /\ m \in Nat \ {0} /\ i \in 0..(n - 1) /\ j \in 0..(m - 1)
    BY <1>8
  <2>2. CoordsOfSite(there, R)[dir] = Carried(i, n, j, m, ori)
    BY <1>7 DEF rw, Carried
  <2>3. CoordsOfSite(other, S)[dir] = Around(j, m, ori)
    BY <1>4 DEF sw
  <2> HIDE DEF n, m, i, j
  <2>4. Carried(i, n, j, m, ori) * m + Around(j, m, ori) = Around(i * m + j, n * m, ori)
    BY <2>1, AroundLanes
  <2> QED BY <2>2, <2>3, <2>4 DEF n, m, i, j
<1>11. \A d \in Dir \ {dir} : CoordsOfSite(there, R)[d] = rc[d] /\ CoordsOfSite(other, S)[d] = sc[d]
  <2> TAKE d \in Dir \ {dir}
  <2>1. rw[d] = rc[d] /\ sw[d] = sc[d]
    BY DEF rw, sw
  <2> QED BY <1>4, <1>7, <2>1
<1> QED BY <1>4, <1>7, <1>9, <1>10, <1>11 DEF rc, sc, LaneAt

\* The site in front of a face and the one behind, on the lane and the rank across, are
\* in the same place of the face.
THEOREM Across ==
  ASSUME NEW lat, Divided(lat), LanesEven(lat), EvenCuts(lat),
         NEW rank \in RanksOf(lat.nRanks), NEW lane \in RanksOf(lat.nSimdRanks),
         NEW p \in Parity, NEW ori \in Ori, NEW dir \in Dir,
         NEW x \in EoSites(SimdLocGrid(lat, rank)),
         OnFace(SimdLocGrid(lat, rank), p, x, ori, dir)
  PROVE  LET g == SimdLocGrid(lat, rank)
             there == RankAcross(lat, rank, lane, ori, dir)
             other == RankNeighbour(lane, lat.nSimdRanks, ori, dir)
             h == SimdLocGrid(lat, there)
             q == OppositeParity(p)
             o == OppositeOri(ori)
             at == GlbCoordsOfSimdEoSite(lat, rank, p, x, lane)
         IN  /\ there \in RanksOf(lat.nRanks) /\ other \in RanksOf(lat.nSimdRanks)
             /\ at \in Box(lat.glbSides)
             /\ \E y \in Lookers(h, q, o, dir) :
                  /\ Pos(h, q, y, o, dir) = Pos(g, p, x, ori, dir)
                  /\ GlbCoordsOfSimdEoSite(lat, there, q, y, other)
                       = ShiftedGlbCoords(lat, at, ori, dir)
                  /\ ShiftedGlbCoords(lat, at, ori, dir) \in Box(lat.glbSides)
<1> DEFINE g == SimdLocGrid(lat, rank)
           R == lat.nRanks
           S == lat.nSimdRanks
           there == RankAcross(lat, rank, lane, ori, dir)
           other == RankNeighbour(lane, S, ori, dir)
           h == SimdLocGrid(lat, there)
           q == OppositeParity(p)
           o == OppositeOri(ori)
           l == LaneSide(lat, dir)
           N == R[dir] * S[dir]
           k1 == LaneAt(lat, rank, lane, dir)
           k2 == LaneAt(lat, there, other, dir)
           c == CoordsOfEoSite(g, p, x)
           c2 == [d \in Dir |-> IF d = dir THEN LastOf(o, l) ELSE c[d]]
           X == GlbAt(lat, rank, lane, c)
           X2 == GlbAt(lat, there, other, c2)
<1>1. /\ there \in RanksOf(R) /\ other \in RanksOf(S)
      /\ k1 \in 0..(N - 1) /\ N \in Nat \ {0} /\ k2 = Around(k1, N, ori)
      /\ \A d \in Dir \ {dir} :
           LaneAt(lat, there, other, d) = LaneAt(lat, rank, lane, d)
  <2>1. there \in RanksOf(R) /\ other \in RanksOf(S)
    BY LanesAcross
  <2>2. k1 \in 0..(N - 1) /\ N \in Nat \ {0}
    BY LanesAcross
  <2>3. k2 = Around(k1, N, ori)
    BY LanesAcross
  <2>4. \A d \in Dir \ {dir} : LaneAt(lat, there, other, d) = LaneAt(lat, rank, lane, d)
    BY LanesAcross
  <2> HIDE DEF there, other, k1, k2, N
  <2> QED BY <2>1, <2>2, <2>3, <2>4
<1>2. GoodGrid(g) /\ GoodGrid(h)
  BY <1>1, LaneGridGood
<1>3. g.sides = h.sides /\ g.n = h.n /\ g.pdir = h.pdir /\ g.n[dir] = N
  BY DEF SimdLocGrid, Grid, Times
<1>4. g.sides[dir] = l /\ l \in Nat \ {0} /\ lat.glbSides[dir] = N * l
  BY OriginsAre
<1>5. q \in Parity /\ o \in Ori /\ OppositeOri(o) = ori
  BY DEF OppositeParity, OppositeOri, Parity, Ori, BW, FW
<1>6. c \in Box(g.sides) /\ ParityAt(g, c) = p
  BY <1>2, EoCoordsThere
<1>7. g.n[dir] > 1 /\ c[dir] = Edge(g, ori, dir)
  BY <1>2, OneStepAway
<1>8. Edge(g, ori, dir) = LastOf(ori, l) /\ Edge(h, o, dir) = LastOf(o, l)
  BY <1>3, <1>4 DEF Edge, LastOf
<1>9. c2 \in Box(h.sides) /\ c2[dir] = LastOf(o, l) /\ \A d \in Dir \ {dir} : c2[d] = c[d]
  <2>1. LastOf(o, l) \in Nat /\ LastOf(o, l) < l
    BY <1>4 DEF LastOf
  <2>2. \A d \in Dir : c[d] \in Nat /\ c[d] < g.sides[d]
    BY <1>6 DEF Box
  <2> HIDE DEF g, h, l, o, c
  <2> QED BY <1>3, <1>4, <2>1, <2>2 DEF Box
<1> HIDE DEF c2
<1>10. GlbCoordsOfSimdEoSite(lat, rank, p, x, lane) = X
  BY GlbCoordsAre
<1>11. /\ X \in Box(lat.glbSides) /\ CoordsParity(X) = p
       /\ \A d \in Dir : X[d] = LaneAt(lat, rank, lane, d) * LaneSide(lat, d) + c[d]
  BY <1>6, GlbAtIs DEF LaneAt
<1>12. /\ X2 \in Box(lat.glbSides) /\ CoordsParity(X2) = ParityAt(h, c2)
       /\ \A d \in Dir : X2[d] = LaneAt(lat, there, other, d) * LaneSide(lat, d) + c2[d]
  <2> HIDE DEF there, other
  <2> QED BY <1>1, <1>9, GlbAtIs DEF LaneAt
<1>13. X[dir] = k1 * l + LastOf(ori, l) /\ X2[dir] = Around(k1, N, ori) * l + LastOf(o, l)
  BY <1>1, <1>7, <1>8, <1>9, <1>11, <1>12
<1>14. \A d \in Dir \ {dir} : X2[d] = X[d]
  <2> HIDE DEF X, X2, c, there, other
  <2> QED BY <1>1, <1>9, <1>11, <1>12
<1>15. /\ X[dir] \in Nat /\ X2[dir] \in Nat
       /\ (X[dir] + MoveOffset(ori)) % lat.glbSides[dir] = X2[dir]
       /\ lat.glbSides[dir] % 2 = 0 => (X2[dir] - X[dir]) % 2 = 1
  <2> HIDE DEF X, X2, k1, N, l
  <2> QED BY <1>1, <1>4, <1>13, StepOver DEF o
<1>16. lat.glbSides[dir] % 2 = 0
  <2>1. R[dir] * S[dir] > 1
    BY <1>3, <1>7
  <2> QED BY <2>1, CutSideEven
<1>17. X \in [Dir -> Int] /\ X2 \in [Dir -> Int]
  BY <1>11, <1>12 DEF Box
<1>18. X2 = ShiftedGlbCoords(lat, X, ori, dir)
  <2> DEFINE M == MoveOffset(ori)
             sh == ShiftedGlbCoords(lat, X, ori, dir)
  <2> HIDE DEF X, X2, M
  <2>1. sh = [d \in Dir |-> IF d = dir THEN (X[d] + M) % lat.glbSides[d] ELSE X[d]]
    BY <1>17 DEF ShiftedGlbCoords, Shifted, M
  <2> HIDE DEF sh
  <2>2. \A d \in Dir : X2[d] = IF d = dir THEN (X[d] + M) % lat.glbSides[d] ELSE X[d]
    BY <1>14, <1>15 DEF M
  <2>3. X2 = [d \in Dir |-> X2[d]]
    BY <1>17
  <2> QED BY <2>1, <2>2, <2>3 DEF sh
<1>19. CoordsParity(X2) = q
  <2> DEFINE e == X2[dir] - X[dir]
  <2> HIDE DEF X, X2
  <2>1. e \in Int /\ e % 2 = 1
    BY <1>15, <1>16
  <2>2. X2 = [X EXCEPT ![dir] = @ + e]
    <3>1. X[dir] + e = X2[dir]
      BY <1>15
    <3> HIDE DEF e
    <3> QED BY <1>14, <1>17, <3>1
  <2> HIDE DEF e
  <2>3. CoordsParity(X2) = (CoordsParity(X) + e) % 2
    BY <1>17, <2>1, <2>2, ParityMoved
  <2>4. CoordsParity(X2) = (p + e) % 2
    BY <1>11, <2>3
  <2>5. p \in {0, 1}
    BY DEF Parity
  <2> QED BY <2>1, <2>4, <2>5 DEF OppositeParity
<1> DEFINE y == EoSiteOf(h, c2)
<1>20. y \in EoSites(h) /\ CoordsOfEoSite(h, q, y) = c2
  <2>1. ParityAt(h, c2) = q
    BY <1>12, <1>19
  <2> HIDE DEF h, q
  <2> QED BY <1>2, <1>9, <2>1, EoCoordsBack
<1> HIDE DEF y
<1>21. OnFace(h, q, y, o, dir)
  <2>1. h.n[dir] > 1 /\ CoordsOfEoSite(h, q, y)[dir] = Edge(h, o, dir)
    BY <1>3, <1>7, <1>8, <1>9, <1>20
  <2> HIDE DEF h, q, o
  <2> QED BY <1>2, <1>5, <1>20, <2>1, OneStepAway
<1>22. Pos(h, q, y, o, dir) = Pos(g, p, x, ori, dir)
  <2> DEFINE t == TriviallyShifted(g, p, x, ori, dir)
             t2 == TriviallyShifted(h, q, y, o, dir)
  <2>1. t = [d \in Dir |-> t[d]] /\ \A d \in Dir \ {dir} : t[d] = c[d]
    BY <1>2, OneStepAway
  <2>2. t2 = [d \in Dir |-> t2[d]] /\ \A d \in Dir \ {dir} : t2[d] = c2[d]
    <3> HIDE DEF h, q, o
    <3> QED BY <1>2, <1>5, <1>20, OneStepAway
  <2> HIDE DEF t, t2
  <2>3. [t EXCEPT ![dir] = 0] = [t2 EXCEPT ![dir] = 0]
    BY <1>9, <2>1, <2>2
  <2>4. PosInEoHalo(h, t2, dir) = PosInEoHalo(g, t, dir)
    BY <1>3, <2>3 DEF PosInEoHalo
  <2> QED BY <2>4 DEF Pos, t, t2
<1>23. GlbCoordsOfSimdEoSite(lat, there, q, y, other) = X2
  <2> HIDE DEF there, other, q
  <2>1. y \in EoSites(SimdLocGrid(lat, there)) /\ q \in Parity
    BY <1>5, <1>20
  <2>2. GlbCoordsOfSimdEoSite(lat, there, q, y, other)
          = GlbAt(lat, there, other, CoordsOfEoSite(SimdLocGrid(lat, there), q, y))
    BY <1>1, <2>1, GlbCoordsAre
  <2> QED BY <1>20, <2>2
<1>24. y \in Lookers(h, q, o, dir)
  BY <1>20, <1>21 DEF Lookers
<1>25. ShiftedGlbCoords(lat, X, ori, dir) \in Box(lat.glbSides)
  BY <1>12, <1>18
<1> HIDE DEF X, X2, h, g, q, o, there, other
<1> QED BY <1>1, <1>10, <1>11, <1>18, <1>22, <1>23, <1>24, <1>25 DEF h, g, q, o, there, other

------------------------------------------------------------------------------
(* Sections of halos of even faces.                                        *)

\* Two sections of a halo have no slot in common.
LEMMA SectionsApart ==
  ASSUME NEW g, GoodGrid(g), NEW p \in Parity,
         NEW o \in Ori, NEW d \in Dir, NEW u \in Ori, NEW e \in Dir,
         NEW i \in 0..(EoHaloPerDir(g, p, o, d) - 1), NEW j \in 0..(EoHaloPerDir(g, p, u, e) - 1),
         EoHaloOffset(g, p, o, d) + i = EoHaloOffset(g, p, u, e) + j
  PROVE  o = u /\ d = e /\ i = j
<1> DEFINE sizes == EoSizes(g, p)
           f == <<o, d>>
           h == <<u, e>>
           start(x) == FirstFaces(sizes, FaceNumber(x))
<1>1. /\ f \in AllFaces /\ sizes \in [AllFaces -> Nat] /\ sizes[f] = EoHaloPerDir(g, p, o, d)
      /\ start(f) = EoHaloOffset(g, p, o, d) /\ start(f) \in Nat
  BY HaloSection
<1>2. /\ h \in AllFaces /\ sizes[h] = EoHaloPerDir(g, p, u, e)
      /\ start(h) = EoHaloOffset(g, p, u, e) /\ start(h) \in Nat
  BY HaloSection
<1>3. /\ FaceNumber(f) < FaceNumber(h) => start(f) + sizes[f] <= start(h)
      /\ FaceNumber(h) < FaceNumber(f) => start(h) + sizes[h] <= start(f)
  <2> HIDE DEF sizes, f, h
  <2> QED BY <1>1, <1>2, SectionsFill
<1>4. sizes[f] \in Nat /\ sizes[h] \in Nat
  <2> HIDE DEF sizes, f, h
  <2> QED BY <1>1, <1>2
<1>5. /\ FaceNumber(f) \in Int /\ FaceNumber(h) \in Int
      /\ FaceNumber(f) = FaceNumber(h) => f = h
  <2> HIDE DEF f, h
  <2>1. /\ FaceNumber(f) \in 0..(NFaces - 1) /\ FaceAt(FaceNumber(f)) = f
        /\ FaceNumber(h) \in 0..(NFaces - 1) /\ FaceAt(FaceNumber(h)) = h
    BY <1>1, <1>2, FacesNumbered
  <2> QED BY <2>1
<1>6. /\ i \in Nat /\ j \in Nat /\ i < sizes[f] /\ j < sizes[h]
      /\ start(f) + i = start(h) + j
  BY <1>1, <1>2, <1>4
<1>7. start(f) \in Nat /\ start(h) \in Nat
  BY <1>1, <1>2
<1> HIDE DEF start, sizes
<1>8. FaceNumber(f) = FaceNumber(h)
  <2> DEFINE a == start(f)
             b == start(h)
             m == sizes[f]
             n == sizes[h]
             x == FaceNumber(f)
             y == FaceNumber(h)
  <2>1. /\ a \in Nat /\ b \in Nat /\ m \in Nat /\ n \in Nat /\ x \in Int /\ y \in Int
        /\ i \in Nat /\ j \in Nat /\ i < m /\ j < n /\ a + i = b + j
        /\ x < y => a + m <= b
        /\ y < x => b + n <= a
    BY <1>3, <1>4, <1>5, <1>6, <1>7
  <2> HIDE DEF a, b, m, n, x, y
  <2>2. x = y
    BY <2>1
  <2> QED BY <2>2 DEF x, y
<1>9. f = h
  BY <1>5, <1>8
<1>10. i = j
  <2> HIDE DEF f, h
  <2> QED BY <1>6, <1>7, <1>9
<1> QED BY <1>9, <1>10

\* Grids of the same sides, cut alike, in even faces: the sections of their halos are of
\* one size for the parities and the orientations, and in the same places.
LEMMA GridsAlike ==
  ASSUME NEW g, GoodGrid(g), NEW h, GoodGrid(h), HaloPerDir(g) = HaloPerDir(h),
         \A d \in Dir : HaloPerDir(g)[d] % 2 = 0, NEW p \in Parity, NEW q \in Parity
  PROVE  /\ \A o \in Ori, u \in Ori, d \in Dir : EoHaloPerDir(g, p, o, d) = EoHaloPerDir(h, q, u, d)
         /\ \A o \in Ori, d \in Dir : EoHaloOffset(g, p, o, d) = EoHaloOffset(h, q, o, d)
<1>1. \A d \in Dir : HaloPerDir(g)[d] % 2 # 1
  BY SMT
<1>2. \A d \in Dir : HaloPerDir(g)[d] \div 2 \in Nat
  <2>1. \A d \in Dir : HaloPerDir(g)[d] \in Nat
    BY EoHaloAddsUp
  <2> QED BY <2>1
<1>3. ASSUME NEW r \in Parity, NEW o, NEW d \in Dir
      PROVE  EoHaloPerDir(g, r, o, d) = HaloPerDir(g)[d] \div 2
             /\ EoHaloPerDir(h, r, o, d) = HaloPerDir(g)[d] \div 2
  <2>1. EoHaloPerDir(g, r, o, d) = HaloPerDir(g)[d] \div 2 + 0
        /\ EoHaloPerDir(h, r, o, d) = HaloPerDir(g)[d] \div 2 + 0
    BY <1>1 DEF EoHaloPerDir
  <2> QED BY <1>2, <2>1
<1>4. EoSizes(g, p) = EoSizes(h, q)
  BY <1>3 DEF EoSizes, AllFaces
<1>5. \A r \in Parity : \A o, d :
        /\ EoHaloOffset(g, r, o, d) = FirstFaces(EoSizes(g, r), o * NDims + d)
        /\ EoHaloOffset(h, r, o, d) = FirstFaces(EoSizes(h, r), o * NDims + d)
  BY DEF EoHaloOffset, EoSizes, AllFaces
<1> QED BY <1>3, <1>4, <1>5

\* The sites of a rank are those of its lanes.
LEMMA LocGridGood ==
  ASSUME NEW lat, Divided(lat), NEW rank \in RanksOf(lat.nRanks)
  PROVE  LET g == SimdLocGrid(lat, rank)
             h == LocGrid(lat, rank)
         IN  GoodGrid(h) /\ \A d \in Dir : h.sides[d] = g.sides[d] * lat.nSimdRanks[d]
<1> DEFINE g == SimdLocGrid(lat, rank)
           h == LocGrid(lat, rank)
<1>1. GoodGrid(g)
  BY LaneGridGood
<1>2. /\ h.sides = [d \in Dir |-> lat.glbSides[d] \div lat.nRanks[d]]
      /\ h.n = lat.nRanks /\ h.origin = g.origin /\ h.pdir = g.pdir
  BY DEF LocGrid, SimdLocGrid, Grid
<1>3. lat.nRanks \in SidesOf /\ lat.nSimdRanks \in SidesOf
  BY DEF Divided
<1>4. ASSUME NEW d \in Dir
      PROVE  /\ h.sides[d] = g.sides[d] * lat.nSimdRanks[d] /\ h.sides[d] \in Nat \ {0}
             /\ g.sides[d] % 2 = 0 => h.sides[d] % 2 = 0
  <2> DEFINE a == g.sides[d]
             n == lat.nRanks[d]
             m == lat.nSimdRanks[d]
  <2>1. a \in Nat \ {0} /\ n \in Nat \ {0} /\ m \in Nat \ {0}
    BY <1>1, <1>3 DEF GoodGrid, SidesOf
  <2>2. lat.glbSides[d] = a * (n * m)
    BY SidesDivided
  <2>3. h.sides[d] = (a * (n * m)) \div n
    BY <1>2, <2>2
  <2> HIDE DEF a, n, m, h, g
  <2>4. a * (n * m) = (a * m) * n /\ a * m \in Nat /\ a * m \in Nat \ {0}
    BY <2>1
  <2>5. h.sides[d] = a * m
    BY <2>1, <2>3, <2>4, Exact
  <2>6. a % 2 = 0 => (a * m) % 2 = 0
    <3>1. (a * m) % 2 = 1 => a % 2 = 1
      BY <2>1, OddProduct
    <3>2. (a * m) % 2 \in {0, 1}
      BY <2>4
    <3> QED BY <3>1, <3>2
  <2> QED BY <2>4, <2>5, <2>6 DEF a, m
<1>5. h.sides \in SidesOf
  BY <1>2, <1>4 DEF SidesOf
<1> HIDE DEF g, h
<1> QED BY <1>1, <1>2, <1>3, <1>4, <1>5 DEF GoodGrid, g, h

\* The section of a rank is made of those of the lanes on its border.
LEMMA LanesPerSection ==
  ASSUME NEW lat, lat.nRanks \in SidesOf, lat.nSimdRanks \in SidesOf,
         NEW g, GoodGrid(g), g.n = Times(lat.nRanks, lat.nSimdRanks),
         NEW h, GoodGrid(h), h.n = lat.nRanks,
         \A e \in Dir : h.sides[e] = g.sides[e] * lat.nSimdRanks[e],
         NEW d \in Dir, lat.nRanks[d] > 1, HaloPerDir(g)[d] % 2 = 0, NEW p \in Parity, NEW o \in Ori
  PROVE  /\ HaloPerDir(h)[d] % 2 = 0
         /\ EoHaloPerDir(g, p, o, d) * Len(NonLocSimdRanks(lat, o, d)) = EoHaloPerDir(h, p, o, d)
         /\ Len(NonLocSimdRanks(lat, o, d)) \in Nat \ {0}
<1> DEFINE R == lat.nRanks
           S == lat.nSimdRanks
           F == [e \in Dir |-> IF e = d THEN 1 ELSE S[e]]
           m == HaloPerDir(g)[d]
           k == Volume(F)
<1>1. F \in SidesOf
  BY DEF SidesOf
<1>2. Len(NonLocSimdRanks(lat, o, d)) = k
  <2>1. \A e \in Dir : F[e] = IF e = d THEN 1 ELSE S[e]
    OBVIOUS
  <2> HIDE DEF F
  <2> QED BY <1>1, <2>1, EdgeRanks
<1>3. Volume(FaceSides(h, d)) = Volume(FaceSides(g, d)) * k /\ k \in Nat \ {0}
      /\ Volume(FaceSides(g, d)) \in Nat \ {0}
  <2>1. FaceSides(h, d) \in SidesOf /\ FaceSides(g, d) \in SidesOf
    BY FaceVolume
  <2>2. \A e \in Dir : FaceSides(h, d)[e] = FaceSides(g, d)[e] * F[e]
    <3> TAKE e \in Dir
    <3>1. /\ FaceSides(h, d)[e] = IF e = d THEN 1 ELSE h.sides[e]
          /\ FaceSides(g, d)[e] = IF e = d THEN 1 ELSE g.sides[e]
          /\ F[e] = IF e = d THEN 1 ELSE S[e]
      BY DEF FaceSides, SidesOf, GoodGrid
    <3> HIDE DEF F
    <3> QED BY <3>1
  <2> HIDE DEF F
  <2> QED BY <1>1, <2>1, <2>2, ProductVolume
<1>4. m = Volume(FaceSides(g, d)) /\ HaloPerDir(h)[d] = Volume(FaceSides(h, d))
  <2>1. R[d] \in Nat \ {0} /\ S[d] \in Nat \ {0} /\ R[d] > 1
    BY DEF SidesOf
  <2>2. \A x, y \in Nat \ {0} : x > 1 => x * y > 1
    OBVIOUS
  <2>3. g.n[d] > 1 /\ h.n[d] > 1
    BY <2>1, <2>2 DEF Times
  <2> QED BY <2>3, FaceSizes
<1>5. m \in Nat /\ m % 2 = 0 /\ HaloPerDir(h)[d] = m * k
  BY <1>3, <1>4
<1> HIDE DEF m, k
<1>6. m = 2 * (m \div 2) /\ m \div 2 \in Nat
  BY <1>5
<1>7. m * k = ((m \div 2) * k) * 2 /\ (m \div 2) * k \in Nat
  <2> DEFINE x == m \div 2
  <2>1. x \in Nat /\ k \in Nat /\ m = 2 * x
    BY <1>3, <1>6
  <2> HIDE DEF x
  <2> QED BY <2>1 DEF x
<1>8. (m * k) \div 2 = (m \div 2) * k /\ (m * k) % 2 = 0
  BY <1>7, Exact
<1>9. /\ EoHaloPerDir(g, p, o, d) = m \div 2
      /\ EoHaloPerDir(h, p, o, d) = (m \div 2) * k
  <2>1. HaloPerDir(g)[d] = m /\ HaloPerDir(h)[d] = m * k
    BY <1>5 DEF m
  <2>2. /\ EoHaloPerDir(g, p, o, d) = m \div 2 + 0
        /\ EoHaloPerDir(h, p, o, d) = (m * k) \div 2 + 0
    BY <1>5, <1>8, <2>1 DEF EoHaloPerDir
  <2> QED BY <1>6, <1>7, <1>8, <2>2
<1> QED BY <1>2, <1>3, <1>5, <1>8, <1>9

\* The lanes that nonLocSimdRanks lists: each of those on the border, once.
LEMMA BorderListed ==
  ASSUME NEW lat, NEW ori, NEW dir, Volume(lat.nSimdRanks) \in Nat
  PROVE  LET list == NonLocSimdRanks(lat, ori, dir)
         IN  /\ list \in Seq(Nat)
             /\ \A k \in 1..Len(list) : list[k] \in RanksOf(lat.nSimdRanks)
                                        /\ IsNonLocSimdRank(lat, list[k], ori, dir)
             /\ \A s \in RanksOf(lat.nSimdRanks) : IsNonLocSimdRank(lat, s, ori, dir)
                                                    => \E k \in 1..Len(list) : list[k] = s
             /\ \A k, j \in 1..Len(list) : list[k] = list[j] => k = j
<1> DEFINE n == Volume(lat.nSimdRanks)
           In(s) == IsNonLocSimdRank(lat, s, ori, dir)
           Right(q, m) ==
             /\ q \in Seq(Nat)
             /\ \A k \in 1..Len(q) : q[k] \in 0..(m - 1) /\ In(q[k])
             /\ \A s \in 0..(m - 1) : In(s) => \E k \in 1..Len(q) : q[k] = s
             /\ \A k, j \in 1..Len(q) : q[k] = q[j] => k = j
<1>1. PICK found : FoundUpTo(lat, ori, dir, n, found) /\ NonLocSimdRanks(lat, ori, dir) = found[n]
  BY FoundThere
<1> DEFINE T == {m \in 0..n : ~ Right(found[m], m)}
<1>2. T = {}
  <2> SUFFICES ASSUME T # {} PROVE FALSE
    OBVIOUS
  <2>1. PICK m \in T : \A y \in T : m <= y
    <3>1. T \in SUBSET Nat
      OBVIOUS
    <3> HIDE DEF T
    <3> QED BY <3>1, NatMin
  <2>2. m \in 0..n /\ ~ Right(found[m], m)
    OBVIOUS
  <2>3. found[m] = IF m = 0 THEN << >>
                   ELSE IF In(m - 1) THEN Append(found[m - 1], m - 1) ELSE found[m - 1]
    BY <1>1, <2>2 DEF FoundUpTo
  <2>4. CASE m = 0
    <3>1. found[m] = << >> /\ << >> \in Seq(Nat) /\ Len(<< >>) = 0
      BY <2>3, <2>4
    <3> HIDE DEF In, T
    <3>2. 0..(m - 1) = {} /\ 1..Len(found[m]) = {}
      BY <2>4, <3>1
    <3>3. Right(found[m], m)
      BY <3>1, <3>2
    <3> QED BY <2>2, <3>3
  <2>5. CASE m # 0
    <3> DEFINE k == m - 1
               q == found[k]
    <3>1. k \in 0..n /\ k \in Nat
      BY <2>2, <2>5
    <3>2. Right(q, k)
      <4>1. ~(m <= k)
        BY <2>2
      <4>2. k \notin T
        <5> HIDE DEF T, k
        <5> QED BY <2>1, <4>1
      <4> QED BY <3>1, <4>2
    <3>3. found[m] = IF In(k) THEN Append(q, k) ELSE q
      BY <2>3, <2>5
    <3>4. 0..(m - 1) = (0..(k - 1)) \cup {k} /\ k \notin 0..(k - 1)
      BY <3>1
    <3>5. CASE ~In(k)
      <4>1. found[m] = q
        BY <3>3, <3>5
      <4>2. Right(q, m)
        <5> HIDE DEF In, k, q, T
        <5> QED BY <3>2, <3>4, <3>5
      <4> HIDE DEF Right
      <4> QED BY <2>2, <4>1, <4>2
    <3>6. CASE In(k)
      <4> DEFINE a == Append(q, k)
      <4>1. q \in Seq(Nat) /\ k \in Nat
        BY <3>1, <3>2
      <4> HIDE DEF k, q, T, In
      <4>2. /\ a \in Seq(Nat) /\ Len(q) \in Nat /\ Len(a) = Len(q) + 1 /\ a[Len(q) + 1] = k
            /\ \A i \in 1..Len(q) : a[i] = q[i]
        BY <4>1
      <4>3. 1..Len(a) = (1..Len(q)) \cup {Len(q) + 1} /\ Len(q) + 1 \notin 1..Len(q)
        BY <4>2
      <4> HIDE DEF a
      <4>4. \A i \in 1..Len(a) : a[i] \in 0..(m - 1) /\ In(a[i])
        BY <3>2, <3>4, <3>6, <4>2, <4>3
      <4>5. \A s \in 0..(m - 1) : In(s) => \E i \in 1..Len(a) : a[i] = s
        <5> TAKE s \in 0..(m - 1)
        <5>1. CASE s = k
          BY <4>2, <4>3, <5>1
        <5>2. CASE s # k
          <6>1. s \in 0..(k - 1)
            BY <3>4, <5>2
          <6>2. In(s) => \E i \in 1..Len(q) : q[i] = s
            BY <3>2, <6>1
          <6> QED BY <4>2, <4>3, <6>2
        <5> QED BY <5>1, <5>2
      <4>6. \A i, j \in 1..Len(a) : a[i] = a[j] => i = j
        <5>1. \A i \in 1..Len(q) : q[i] # k
          BY <3>2, <3>4
        <5>2. \A i, j \in 1..Len(q) : q[i] = q[j] => i = j
          BY <3>2
        <5> SUFFICES ASSUME NEW i \in 1..Len(a), NEW j \in 1..Len(a), a[i] = a[j] PROVE i = j
          OBVIOUS
        <5>3. CASE i \in 1..Len(q) /\ j \in 1..Len(q)
          BY <4>2, <5>2, <5>3
        <5>4. CASE i = Len(q) + 1 /\ j \in 1..Len(q)
          BY <4>2, <5>1, <5>4
        <5>5. CASE j = Len(q) + 1 /\ i \in 1..Len(q)
          BY <4>2, <5>1, <5>5
        <5>6. CASE i = Len(q) + 1 /\ j = Len(q) + 1
          BY <5>6
        <5> QED BY <4>3, <5>3, <5>4, <5>5, <5>6
      <4>7. Right(a, m)
        BY <4>2, <4>4, <4>5, <4>6
      <4> HIDE DEF Right
      <4> QED BY <2>2, <3>3, <3>6, <4>7 DEF a
    <3> QED BY <3>5, <3>6
  <2> QED BY <2>4, <2>5
<1>3. Right(found[n], n)
  <2>1. n \in 0..n
    OBVIOUS
  <2> QED BY <1>2, <2>1
<1> HIDE DEF In
<1> QED BY <1>1, <1>3 DEF RanksOf, In

================================================================================
