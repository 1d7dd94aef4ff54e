------------------------------ MODULE EoGeometry ------------------------------
(***************************************************************************)
(* include/lattice/universe.hpp and the tables of SubLattice in            *)
(* include/lattice/lattice.hpp: a local lattice, split in even and odd     *)
(* sites, with a halo behind every face that is cut.                       *)
(*                                                                         *)
(* A grid is what the tables depend on: the local sides, in how many parts *)
(* each direction is cut, the parity of the origin and the direction that  *)
(* even/odd halves. It is the local lattice of a rank, or the local        *)
(* lattice of a SIMD rank in it.                                           *)
(***************************************************************************)
EXTENDS Integers, FiniteSets, Sequences

CONSTANT NDims

ASSUME NDimsAssumption == NDims \in Nat \ {0}

Dir == 0..(NDims - 1)

BW == 0
FW == 1
Ori == {BW, FW}

OppositeOri(ori) == 1 - ori

MoveOffset(ori) == IF ori = BW THEN -1 ELSE 1

Parity == {0, 1}

OppositeParity(parity) == 1 - parity

------------------------------------------------------------------------------
(* Sites and coordinates; the last direction runs fastest.                 *)

Volume(sides) ==
  LET below[d \in 0..NDims] == IF d = 0 THEN 1 ELSE below[d - 1] * sides[d - 1]
  IN  below[NDims]

CoordsOfSite(site, sides) ==
  LET rest[d \in 0..NDims] == IF d = NDims THEN site ELSE rest[d + 1] \div sides[d]
  IN  [d \in Dir |-> rest[d + 1] % sides[d]]

\* A slip: the first direction runs fastest.
SiteOfCoordsReversed(coords, sides) ==
  LET out[d \in 0..NDims] == IF d = NDims THEN 0
                             ELSE out[d + 1] * sides[d] + coords[d]
  IN  out[0]

SiteOfCoords(coords, sides) ==
  LET out[d \in 0..NDims] == IF d = 0 THEN 0
                             ELSE out[d - 1] * sides[d - 1] + coords[d - 1]
  IN  out[NDims]

SumOnDirs(x) ==
  LET sum[d \in 0..NDims] == IF d = 0 THEN 0 ELSE sum[d - 1] + x[d - 1]
  IN  sum[NDims]

CoordsParity(coords) == SumOnDirs(coords) % 2

Versor(dir) == [d \in Dir |-> IF d = dir THEN 1 ELSE 0]

\* Coordinates one step away, in an unbounded lattice.
Shifted(coords, ori, dir) == [coords EXCEPT ![dir] = @ + MoveOffset(ori)]

Grid(dividendSides, n, originParity, parityDir) ==
  [sides |-> [d \in Dir |-> dividendSides[d] \div n[d]], n |-> n,
   origin |-> originParity, pdir |-> parityDir]

IsPartitionable(dividend, divisor) == \A d \in Dir : dividend[d] % divisor[d] = 0

ParitySides(g) == [d \in Dir |-> 1 + Versor(g.pdir)[d]]

------------------------------------------------------------------------------
(* Bulk, surface and halo.                                                 *)

BulkSides(g) ==
  [d \in Dir |-> LET b == IF g.n[d] > 1 THEN g.sides[d] - 2 ELSE g.sides[d]
                 IN  IF b < 0 THEN 0 ELSE b]

SurfPerDir(g) ==
  [d \in Dir |-> IF g.n[d] > 1 THEN Volume(g.sides) \div g.sides[d] ELSE 0]

HaloPerDir(g) == [d \in Dir |-> IF g.n[d] # 1 THEN SurfPerDir(g)[d] ELSE 0]

Halo(g) == 2 * SumOnDirs(HaloPerDir(g))

\* The faces in the order of a loop on the orientations, then on the directions.
FaceAt(k) == <<k \div NDims, k % NDims>>

\* What the sizes of the first n faces add up to.
FirstFaces(sizes, n) ==
  LET offset[k \in 0..(2 * NDims)] ==
        IF k = 0 THEN 0 ELSE offset[k - 1] + sizes[FaceAt(k - 1)]
  IN  offset[n]

HaloOffset(g, ori, dir) ==
  FirstFaces([f \in Ori \X Dir |-> HaloPerDir(g)[f[2]]], ori * NDims + dir)

EoSides(g) == [d \in Dir |-> g.sides[d] \div ParitySides(g)[d]]

EoVol(g) == Volume(g.sides) \div 2

EoHalo(g) == Halo(g) \div 2

\* Which parity has one site more on an odd face: the face behind the origin
\* has the parity of the origin.
EoSurfPerDir(g, parity, ori, dir) ==
  SurfPerDir(g)[dir] \div 2
  + IF /\ dir = g.pdir /\ SurfPerDir(g)[dir] % 2 = 1
       /\ (ori = BW) = (parity = g.origin)
    THEN 1 ELSE 0

\* A slip: the odd site is given as on the surface.
EoHaloPerDirAsSurface(g, parity, ori, dir) == EoSurfPerDir(g, parity, ori, dir)

\* The halo behind a face has the other parity in front.
EoHaloPerDir(g, parity, ori, dir) ==
  HaloPerDir(g)[dir] \div 2
  + IF /\ dir = g.pdir /\ HaloPerDir(g)[dir] % 2 = 1
       /\ (ori = FW) = (parity = g.origin)
    THEN 1 ELSE 0

EoHaloOffset(g, parity, ori, dir) ==
  FirstFaces([f \in Ori \X Dir |-> EoHaloPerDir(g, parity, f[1], f[2])], ori * NDims + dir)

------------------------------------------------------------------------------
(* Neighbours.                                                             *)

\* Local coordinates of a site of given parity.
CoordsOfEoSite(g, parity, eoSite) ==
  LET eo == CoordsOfSite(eoSite, EoSides(g))
      unfixed == [d \in Dir |-> eo[d] * ParitySides(g)[d]]
      needed == (CoordsParity(unfixed) + g.origin + parity) % 2
  IN  [unfixed EXCEPT ![g.pdir] = @ + needed]

\* The lattice closes on itself in a direction that is not cut.
TriviallyShifted(g, parity, eoSite, ori, dir) ==
  LET c == Shifted(CoordsOfEoSite(g, parity, eoSite), ori, dir)
  IN  IF g.n[dir] = 1 THEN [c EXCEPT ![dir] = @ % g.sides[dir]] ELSE c

Exceeds(g, coords, dir) == coords[dir] < 0 \/ coords[dir] >= g.sides[dir]

PosInEoHalo(g, coords, dir) ==
  SiteOfCoords([coords EXCEPT ![dir] = 0], [g.sides EXCEPT ![dir] = 1]) \div 2

\* A slip: the offset is the one of the site's own parity.
EoNeighbourOwnParity(g, parity, eoSite, ori, dir) ==
  LET c == TriviallyShifted(g, parity, eoSite, ori, dir)
  IN  IF Exceeds(g, c, dir)
      THEN EoVol(g) + EoHaloOffset(g, parity, ori, dir) + PosInEoHalo(g, c, dir)
      ELSE SiteOfCoords([d \in Dir |-> c[d] \div ParitySides(g)[d]], EoSides(g))

\* Where a site finds its neighbour, of the other parity: in the halo, if the
\* neighbour is not local.
EoNeighbour(g, parity, eoSite, ori, dir) ==
  LET c == TriviallyShifted(g, parity, eoSite, ori, dir)
  IN  IF Exceeds(g, c, dir)
      THEN EoVol(g) + EoHaloOffset(g, OppositeParity(parity), ori, dir)
           + PosInEoHalo(g, c, dir)
      ELSE SiteOfCoords([d \in Dir |-> c[d] \div ParitySides(g)[d]], EoSides(g))

\* A site on the face (ori, dir), what setEoNeighbours refuses among them.
OnFace(g, parity, eoSite, ori, dir) ==
  Exceeds(g, TriviallyShifted(g, parity, eoSite, ori, dir), dir)

NeighbourRefused(g, parity, eoSite, ori, dir) ==
  /\ OnFace(g, parity, eoSite, ori, dir)
  /\ PosInEoHalo(g, TriviallyShifted(g, parity, eoSite, ori, dir), dir)
       >= EoHaloPerDir(g, OppositeParity(parity), ori, dir)

EoSites(g) == 0..(EoVol(g) - 1)

\* A slip: the site keeps the slot of its neighbour.
HaloFillerUnflipped(g, parity) ==
  {<<x[1], EoNeighbour(g, parity, x[1], x[2], x[3]) - EoVol(g), x[2], x[3]>> :
     x \in {y \in EoSites(g) \X Ori \X Dir :
                EoNeighbour(g, parity, y[1], y[2], y[3]) >= EoVol(g)}}

\* The sites that go elsewhere, each with its slot in the opposite halo of the
\* same rank, the orientation and the direction it leaves by.
HaloFiller(g, parity) ==
  LET flip(ori, dir) == EoHaloOffset(g, parity, OppositeOri(ori), dir)
                        - EoHaloOffset(g, parity, ori, dir)
  IN  {<<x[1],
         EoNeighbour(g, parity, x[1], x[2], x[3]) - EoVol(g) + flip(x[2], x[3]),
         x[2], x[3]>> :
         x \in {y \in EoSites(g) \X Ori \X Dir :
                  EoNeighbour(g, parity, y[1], y[2], y[3]) >= EoVol(g)}}

------------------------------------------------------------------------------
(* Ranks, and SIMD ranks, in their own periodic lattice of sides n.        *)

RankNeighbour(rank, n, ori, dir) ==
  LET c == Shifted(CoordsOfSite(rank, n), ori, dir)
  IN  SiteOfCoords([d \in Dir |-> (c[d] + n[d]) % n[d]], n)

\* Where the sites of a rank, or of a SIMD rank, begin.
Origin(rank, n, sides) ==
  [d \in Dir |-> (CoordsOfSite(rank, n)[d] * sides[d]) \div n[d]]

Times(n, m) == [d \in Dir |-> n[d] * m[d]]

LocGrid(lat, rank) ==
  Grid(lat.glbSides, lat.nRanks,
       CoordsParity(Origin(rank, lat.nRanks, lat.glbSides)), lat.parityDir)

SimdLocGrid(lat, rank) ==
  Grid(lat.glbSides, Times(lat.nRanks, lat.nSimdRanks),
       CoordsParity(Origin(rank, lat.nRanks, lat.glbSides)), lat.parityDir)

RanksOf(n) == 0..(Volume(n) - 1)

SimdRankLocOrigin(lat, simdRank) ==
  [d \in Dir |-> (CoordsOfSite(simdRank, lat.nSimdRanks)[d] * lat.glbSides[d])
                 \div (lat.nRanks[d] * lat.nSimdRanks[d])]

\* A slip: inner SIMD ranks count as well.
IsNonLocSimdRankInner(lat, simdRank, ori, dir) == lat.nRanks[dir] > 1

\* The SIMD ranks whose neighbour is on another rank, in increasing order.
IsNonLocSimdRank(lat, simdRank, ori, dir) ==
  /\ lat.nRanks[dir] > 1
  /\ Shifted(CoordsOfSite(simdRank, lat.nSimdRanks), ori, dir)[dir]
       \notin 0..(lat.nSimdRanks[dir] - 1)

NonLocSimdRanks(lat, ori, dir) ==
  LET n == Volume(lat.nSimdRanks)
      found[s \in 0..n] ==
        IF s = 0 THEN << >>
        ELSE IF IsNonLocSimdRank(lat, s - 1, ori, dir) THEN Append(found[s - 1], s - 1)
        ELSE found[s - 1]
  IN  found[n]

\* computeGlbCoordsOfSimdEoRepOfLocSite
GlbCoordsOfSimdEoSite(lat, rank, parity, simdLocEoSite, simdRank) ==
  LET g == SimdLocGrid(lat, rank)
      eo == CoordsOfSite(simdLocEoSite, EoSides(g))
      unfixed == [d \in Dir |-> Origin(rank, lat.nRanks, lat.glbSides)[d]
                                + SimdRankLocOrigin(lat, simdRank)[d]
                                + eo[d] * ParitySides(g)[d]]
      needed == (CoordsParity(unfixed) + parity) % 2
  IN  [unfixed EXCEPT ![lat.parityDir] = @ + needed]

\* A slip: the local coordinates are not taken modulo the SIMD local sides.
SimdEoSiteOfGlbCoordsNoMod(lat, c) ==
  LET locSides == [d \in Dir |-> lat.glbSides[d] \div lat.nRanks[d]]
      rank == SiteOfCoords([d \in Dir |-> c[d] \div locSides[d]], lat.nRanks)
      g == SimdLocGrid(lat, rank)
      loc == [d \in Dir |-> c[d] - Origin(rank, lat.nRanks, lat.glbSides)[d]]
      eo == [d \in Dir |-> loc[d] \div ParitySides(g)[d]]
  IN  <<rank, CoordsParity(c), SiteOfCoords(eo, EoSides(g)),
        SiteOfCoords([d \in Dir |-> loc[d] \div g.sides[d]], lat.nSimdRanks)>>

\* computeSimdEoRepOfGlbCoords
SimdEoSiteOfGlbCoords(lat, c) ==
  LET locSides == [d \in Dir |-> lat.glbSides[d] \div lat.nRanks[d]]
      rank == SiteOfCoords([d \in Dir |-> c[d] \div locSides[d]], lat.nRanks)
      g == SimdLocGrid(lat, rank)
      loc == [d \in Dir |-> c[d] - Origin(rank, lat.nRanks, lat.glbSides)[d]]
      eo == [d \in Dir |-> (loc[d] % g.sides[d]) \div ParitySides(g)[d]]
  IN  <<rank, CoordsParity(c), SiteOfCoords(eo, EoSides(g)),
        SiteOfCoords([d \in Dir |-> loc[d] \div g.sides[d]], lat.nSimdRanks)>>

\* glbCoordsOfLoceo
GlbCoordsOfLocEoSite(lat, rank, parity, locEoSite) ==
  LET g == LocGrid(lat, rank)
      eo == CoordsOfSite(locEoSite, EoSides(g))
      unfixed == [d \in Dir |-> Origin(rank, lat.nRanks, lat.glbSides)[d]
                                + eo[d] * ParitySides(g)[d]]
      needed == (CoordsParity(unfixed) + parity) % 2
  IN  [unfixed EXCEPT ![lat.parityDir] = @ + needed]

\* shiftedCoords: one step away in the periodic global lattice.
ShiftedGlbCoords(lat, coords, ori, dir) ==
  [Shifted(coords, ori, dir) EXCEPT ![dir] = @ % lat.glbSides[dir]]

------------------------------------------------------------------------------
(* What is asked of the arguments of init.                                 *)

SidesOf == [Dir -> Nat \ {0}]

\* The checks of init on the sides: ranks and lanes divide the lattice, and parity halves
\* the sides of a lane.
Divided(lat) ==
  /\ {lat.glbSides, lat.nRanks, lat.nSimdRanks} \subseteq SidesOf
  /\ lat.parityDir \in Dir
  /\ IsPartitionable(lat.glbSides, Times(lat.nRanks, lat.nSimdRanks))
  /\ (lat.glbSides[lat.parityDir] \div Times(lat.nRanks, lat.nSimdRanks)[lat.parityDir]) % 2 = 0

\* The check of init on the lanes: they begin on even sites of the rank.
LanesEven(lat) ==
  \A lane \in RanksOf(lat.nSimdRanks) : CoordsParity(SimdRankLocOrigin(lat, lane)) = 0

\* What init does not ask: ranks cut even sides only.
EvenCuts(lat) == \A d \in Dir : lat.nRanks[d] > 1 => lat.glbSides[d] % 2 = 0

================================================================================
