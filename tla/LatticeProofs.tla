---------------------------- MODULE LatticeProofs ----------------------------
(***************************************************************************)
(* The tables of Lattice::init, on any rank of any lattice: what has       *)
(* passed the checks of init is divided evenly, and each member set is     *)
(* what the geometry of the sublattice says. Neighbours, halo sections,    *)
(* the filler and the conversions of a site follow.                        *)
(***************************************************************************)
EXTENDS Lattice, EoGeometryProofs

------------------------------------------------------------------------------
(* The inductive invariant.                                                *)

\* The steps in their order, and the members that each sets.
StepNo ==
  [simdRanks |-> 0, sides |-> 1, bulk |-> 2, surfaces |-> 3, halo |-> 4, eoSides |-> 5,
   eoSurfaces |-> 6, eoHalo |-> 7, eoNeighbours |-> 8, filler |-> 9, done |-> 10]

Steps == {"simdRanks", "sides", "bulk", "surfaces", "halo", "eoSides", "eoSurfaces",
          "eoHalo", "eoNeighbours", "filler", "done"}

MembersOf(step) ==
  CASE step = "sides"        -> {"sides", "vol"}
    [] step = "bulk"         -> {"bulkSides", "bulkVol"}
    [] step = "surfaces"     -> {"surf", "surfPerDir"}
    [] step = "halo"         -> {"haloPerDir", "halo", "haloOffsets"}
    [] step = "eoSides"      -> {"eoSides", "eoVol"}
    [] step = "eoSurfaces"   -> {"eoSurf", "eoSurfPerDir"}
    [] step = "eoHalo"       -> {"eoHalo", "eoHaloPerDir", "eoHaloOffsets"}
    [] step = "eoNeighbours" -> {"eoNeighbours"}
    [] step = "filler"       -> {"filler"}
    [] OTHER                 -> {}

\* What the members of a sublattice are, once set.
Expected(w) ==
  LET g == GridOf(w)
      surf == Volume(g.sides) - Volume(BulkSides(g))
  IN  [sides         |-> g.sides,
       vol           |-> Volume(g.sides),
       bulkSides     |-> BulkSides(g),
       bulkVol       |-> Volume(BulkSides(g)),
       surf          |-> surf,
       surfPerDir    |-> SurfPerDir(g),
       haloPerDir    |-> HaloPerDir(g),
       halo          |-> Halo(g),
       haloOffsets   |-> [f \in Ori \X Dir |-> HaloOffset(g, f[1], f[2])],
       eoSides       |-> EoSides(g),
       eoVol         |-> EoVol(g),
       eoSurf        |-> surf \div 2,
       eoSurfPerDir  |-> [f \in Parity \X Ori \X Dir |-> EoSurfPerDir(g, f[1], f[2], f[3])],
       eoHalo        |-> EoHalo(g),
       eoHaloPerDir  |-> [f \in Parity \X Ori \X Dir |-> EoHaloPerDir(g, f[1], f[2], f[3])],
       eoHaloOffsets |-> [f \in Parity \X Ori \X Dir |-> EoHaloOffset(g, f[1], f[2], f[3])],
       eoNeighbours  |-> [f \in Parity \X EoSites(g) \X Ori \X Dir |->
                            EoNeighbour(g, f[1], f[2], f[3], f[4])],
       filler        |-> [p \in Parity |-> HaloFiller(g, p)]]

Subs == {"loc", "simdLoc"}

\* The sublattice has gone through a step.
Past(w, step) == IF w = which THEN StepNo[pc] > StepNo[step] ELSE w = "loc"

Names(w) == UNION {MembersOf(step) : step \in {s \in Steps : Past(w, s)}}

Built ==
  /\ lat \in Lattices /\ rank \in RanksOf(lat.nRanks)
  /\ sub = [w \in Subs |-> sub[w]]
  /\ which \in Subs /\ pc \in Steps
  /\ pc = "simdRanks" => which = "loc"
  /\ pc = "done" => which = "simdLoc"
  /\ refused \in {"no", "input"}

\* What the checks on the arguments leave behind.
Divides(w) == IsPartitionable(lat.glbSides, GridOf(w).n)

Halves(w) == IsPartitionable(GridOf(w).sides, ParitySides(GridOf(w)))

ChecksPassed == \A w \in Subs : /\ Past(w, "sides") => Divides(w)
                                /\ Past(w, "eoSides") => Halves(w)

\* The members set so far, and no other, are there and are what the grid says.
MembersRight == \A w \in Subs : /\ DOMAIN sub[w] = Names(w)
                                /\ \A m \in Names(w) : sub[w][m] = Expected(w)[m]

\* A finished sublattice stays so, when the other one is refused as well.
FinishedRight ==
  \A w \in Subs : "filler" \in DOMAIN sub[w] =>
    /\ Divides(w) /\ Halves(w)
    /\ \A m \in DOMAIN Expected(w) : sub[w][m] = Expected(w)[m]

BInv == Built /\ (refused = "no" => ChecksPassed /\ MembersRight) /\ FinishedRight

------------------------------------------------------------------------------
(* What the checks on the arguments leave behind.                          *)

\* No two steps have the same number.
LEMMA StepsNumbered ==
  /\ \A s \in Steps : StepNo[s] \in 0..10
  /\ \A s, t \in Steps : StepNo[s] = StepNo[t] => s = t
<1>1. \A s \in Steps : StepNo[s] \in 0..10
  BY DEF Steps, StepNo
<1>2. \A s, t \in Steps : StepNo[s] = StepNo[t] => s = t
  BY DEF Steps, StepNo
<1> QED BY <1>1, <1>2

\* What the grid of a sublattice is made of.
LEMMA GridShape ==
  ASSUME Built, NEW w \in Subs
  PROVE  LET g == GridOf(w)
         IN  /\ lat.glbSides \in SidesOf /\ g.n \in SidesOf
             /\ g.pdir \in Dir /\ g.origin \in Parity
             /\ g.sides = [d \in Dir |-> lat.glbSides[d] \div g.n[d]]
<1> DEFINE at == Origin(rank, lat.nRanks, lat.glbSides)
           n == IF w = "loc" THEN lat.nRanks ELSE Times(lat.nRanks, lat.nSimdRanks)
           g == Grid(lat.glbSides, n, CoordsParity(at), lat.parityDir)
<1>1. GridOf(w) = g
  BY DEF GridOf, LocGrid, SimdLocGrid
<1>2. /\ lat.glbSides \in SidesOf /\ lat.nRanks \in SidesOf /\ lat.nSimdRanks \in SidesOf
      /\ lat.parityDir \in Dir
  BY LatticesAssumption DEF Built, SidesOf
<1>3. n \in SidesOf
  <2>1. \A x, y \in Nat \ {0} : x * y \in Nat \ {0}
    OBVIOUS
  <2> QED BY <1>2, <2>1 DEF Times, SidesOf
<1>4. CoordsParity(at) \in Parity
  <2>1. CoordsOfSite(rank, lat.nRanks) \in Box(lat.nRanks)
    BY <1>2, CoordsOfSiteInverse DEF Built
  <2>2. \A x, y \in Nat, z \in Nat \ {0} : (x * y) \div z \in Int
    OBVIOUS
  <2>3. at \in [Dir -> Int]
    BY <1>2, <2>1, <2>2 DEF Origin, Box, SidesOf
  <2>4. PICK dir \in Dir : TRUE
    BY <1>2
  <2>5. 0 \in Int
    OBVIOUS
  <2> HIDE DEF at
  <2> QED BY <2>3, <2>4, <2>5, ParityMoved
<1>5. /\ g.n = n /\ g.pdir = lat.parityDir /\ g.origin = CoordsParity(at)
      /\ g.sides = [d \in Dir |-> lat.glbSides[d] \div n[d]]
  BY DEF Grid
<1> HIDE DEF g, n
<1> QED BY <1>1, <1>2, <1>3, <1>4, <1>5

\* A lattice that is divided has sides, and when parity halves them they make a grid
\* the tables are right for.
LEMMA GridAccepted ==
  ASSUME Built, NEW w \in Subs, Divides(w)
  PROVE  /\ GridOf(w).sides \in SidesOf
         /\ \A d \in Dir : lat.glbSides[d] = GridOf(w).sides[d] * GridOf(w).n[d]
         /\ Halves(w) => GoodGrid(GridOf(w))
<1> DEFINE g == GridOf(w)
<1>1. /\ lat.glbSides \in SidesOf /\ g.n \in SidesOf /\ g.pdir \in Dir /\ g.origin \in Parity
      /\ g.sides = [d \in Dir |-> lat.glbSides[d] \div g.n[d]]
  BY GridShape
<1> HIDE DEF g
<1>2. \A d \in Dir : lat.glbSides[d] % g.n[d] = 0
  BY DEF Divides, IsPartitionable, g
<1>3. ASSUME NEW d \in Dir
      PROVE  g.sides[d] \in Nat \ {0} /\ lat.glbSides[d] = g.sides[d] * g.n[d]
  <2> DEFINE x == lat.glbSides[d]
             y == g.n[d]
  <2>1. x \in Nat \ {0} /\ y \in Nat \ {0} /\ x % y = 0 /\ g.sides[d] = x \div y
    BY <1>1, <1>2 DEF SidesOf
  <2> HIDE DEF x, y
  <2>2. x \div y \in Nat /\ x = (x \div y) * y + (x % y)
    BY <2>1, DivideAndRest
  <2>3. x = (x \div y) * y
    BY <2>1, <2>2
  <2>4. x \div y # 0
    BY <2>1, <2>3
  <2> QED BY <2>1, <2>2, <2>3, <2>4 DEF x, y
<1>4. g.sides \in SidesOf
  BY <1>1, <1>3 DEF SidesOf
<1>5. ASSUME Halves(w) PROVE g.sides[g.pdir] % 2 = 0
  <2>1. ParitySides(g)[g.pdir] = 2
    BY <1>1 DEF ParitySides, Versor
  <2> QED BY <1>1, <1>5, <2>1 DEF Halves, IsPartitionable, g
<1> QED BY <1>1, <1>3, <1>4, <1>5 DEF GoodGrid, g

\* No face has a negative size.
LEMMA HaloSized ==
  ASSUME NEW g, g.sides \in SidesOf, g.n \in SidesOf
  PROVE  HaloPerDir(g) \in [Dir -> Nat]
<1>1. PICK below : VolumesUpTo(g.sides, NDims, below) /\ Volume(g.sides) = below[NDims]
  BY VolumesThere
<1>2. Volume(g.sides) \in Nat
  BY <1>1, VolumesTyped, NDimsNat
<1>3. \A d \in Dir : Volume(g.sides) \div g.sides[d] \in Nat
  <2>1. \A d \in Dir : g.sides[d] \in Nat \ {0}
    BY DEF SidesOf
  <2> QED BY <1>2, <2>1, DivideAndRest
<1> QED BY <1>3 DEF HaloPerDir, SurfPerDir

\* A step sets its members, in the sublattice that is under construction.
LEMMA Advanced ==
  ASSUME BInv, refused = "no", NEW members, NEW next, Set(members, next),
         DOMAIN members = MembersOf(pc),
         \A m \in DOMAIN members : members[m] = Expected(which)[m],
         pc \notin {"filler", "done"}, next \in Steps \ {"done"}, StepNo[next] = StepNo[pc] + 1,
         refused' \in {"no", "input"},
         refused' = "no" => /\ pc = "sides" => Divides(which)
                            /\ pc = "eoSides" => Halves(which)
  PROVE  BInv'
<1>1. /\ pc' = next /\ lat' = lat /\ rank' = rank /\ which' = which
      /\ sub' = [sub EXCEPT ![which] = With(@, members)]
  BY DEF Set
<1>2. /\ sub' = [w \in Subs |-> sub'[w]]
      /\ sub'[which] = With(sub[which], members)
      /\ \A w \in Subs \ {which} : sub'[w] = sub[w]
  BY <1>1 DEF BInv, Built
<1>3. \A w : GridOf(w)' = GridOf(w) /\ Expected(w)' = Expected(w)
  BY <1>1 DEF GridOf, Expected
<1>4. \A w : (Divides(w)' <=> Divides(w)) /\ (Halves(w)' <=> Halves(w))
  BY <1>1, <1>3 DEF Divides, Halves
<1>5. ASSUME NEW w \in Subs, NEW s \in Steps
      PROVE  Past(w, s)' <=> Past(w, s) \/ (w = which /\ s = pc)
  <2>1. /\ StepNo[s] \in Int /\ StepNo[pc] \in Int /\ (StepNo[s] = StepNo[pc] => s = pc)
        /\ StepNo[next] = StepNo[pc] + 1
    BY StepsNumbered DEF BInv, Built
  <2> QED BY <1>1, <2>1 DEF Past
<1>6. Built'
  BY <1>1, <1>2, StepsNumbered DEF BInv, Built, Steps, StepNo
<1>7. ASSUME NEW w \in Subs
      PROVE  Names(w)' = Names(w) \cup (IF w = which THEN MembersOf(pc) ELSE {})
  <2>1. pc \in Steps
    BY DEF BInv, Built
  <2> QED BY <1>5, <2>1 DEF Names
<1>8. /\ DOMAIN sub[which] = Names(which)
      /\ \A m \in Names(which) : sub[which][m] = Expected(which)[m]
      /\ which \in Subs
  BY DEF BInv, MembersRight, Built
<1>9. /\ DOMAIN sub'[which] = Names(which) \cup MembersOf(pc)
      /\ \A m \in Names(which) \cup MembersOf(pc) : sub'[which][m] = Expected(which)[m]
  BY <1>2, <1>8 DEF With
<1>10. MembersRight'
  <2>1. ASSUME NEW w \in Subs
        PROVE  /\ DOMAIN sub'[w] = Names(w)'
               /\ \A m \in Names(w)' : sub'[w][m] = Expected(w)'[m]
    <3>1. CASE w = which
      BY <1>3, <1>7, <1>9, <3>1
    <3>2. CASE w # which
      BY <1>2, <1>3, <1>7, <3>2 DEF BInv, MembersRight
    <3> QED BY <3>1, <3>2
  <2> QED BY <2>1 DEF MembersRight
<1>11. ASSUME refused' = "no" PROVE ChecksPassed'
  <2>1. ASSUME NEW w \in Subs
        PROVE  (Past(w, "sides")' => Divides(w)) /\ (Past(w, "eoSides")' => Halves(w))
    <3>1. "sides" \in Steps /\ "eoSides" \in Steps
      BY DEF Steps
    <3>2. (Past(w, "sides") => Divides(w)) /\ (Past(w, "eoSides") => Halves(w))
      BY DEF BInv, ChecksPassed
    <3> QED BY <1>5, <1>11, <3>1, <3>2
  <2> QED BY <1>4, <2>1 DEF ChecksPassed
<1>12. FinishedRight'
  <2>1. "filler" \notin DOMAIN sub'[which]
    <3>1. "filler" \notin MembersOf(pc)
      BY DEF BInv, Built, Steps, MembersOf
    <3>2. \A s \in Steps : "filler" \in MembersOf(s) => s = "filler"
      BY DEF Steps, MembersOf
    <3>3. ~Past(which, "filler")
      BY DEF Past, StepNo, BInv, Built, Steps
    <3> QED BY <1>9, <3>1, <3>2, <3>3 DEF Names
  <2>2. \A w \in Subs : DOMAIN Expected(w)' = DOMAIN Expected(w)
    BY <1>3
  <2> QED BY <1>2, <1>3, <1>4, <2>1, <2>2 DEF BInv, FinishedRight
<1> QED BY <1>6, <1>10, <1>11, <1>12 DEF BInv

------------------------------------------------------------------------------
(* One lemma for each step of init.                                        *)

\* A member that a past step sets is as the grid says.
LEMMA MemberSet ==
  ASSUME BInv, refused = "no", NEW w \in Subs, NEW s \in Steps, Past(w, s), NEW m \in MembersOf(s)
  PROVE  m \in DOMAIN sub[w] /\ sub[w][m] = Expected(w)[m]
BY DEF BInv, MembersRight, Names

\* The grid under construction, once its sides are set.
LEMMA GridSet ==
  ASSUME BInv, refused = "no", Past(which, "sides")
  PROVE  /\ G = GridOf(which) /\ which \in Subs /\ Divides(which)
         /\ sub[which].sides = GridOf(which).sides
         /\ sub[which].vol = Volume(GridOf(which).sides)
<1>1. "sides" \in MembersOf("sides") /\ "vol" \in MembersOf("sides") /\ "sides" \in Steps
  BY DEF MembersOf, Steps
<1>2. which \in Subs /\ Divides(which)
  BY DEF BInv, Built, ChecksPassed
<1>3. sub[which]["sides"] = Expected(which)["sides"] /\ sub[which]["vol"] = Expected(which)["vol"]
  BY <1>1, <1>2, MemberSet
<1>4. sub[which].sides = GridOf(which).sides /\ sub[which].vol = Volume(GridOf(which).sides)
  BY <1>3 DEF Expected
<1>5. G = GridOf(which)
  BY <1>2, <1>4 DEF G, GridOf, LocGrid, SimdLocGrid, Grid, NPerDir, Subs
<1> QED BY <1>2, <1>4, <1>5

\* The grid under construction, once parity has halved its sides.
LEMMA GridHalvedSet ==
  ASSUME BInv, refused = "no", Past(which, "eoSides")
  PROVE  G = GridOf(which) /\ GoodGrid(G)
<1>1. Past(which, "sides")
  BY DEF Past, StepNo, BInv, Built, Steps
<1>2. which \in Subs /\ Divides(which) /\ G = GridOf(which) /\ Halves(which)
  BY <1>1, GridSet DEF BInv, ChecksPassed
<1> QED BY <1>2, GridAccepted DEF BInv

LEMMA SidesStep ==
  ASSUME BInv, SetSidesAndVol
  PROVE  BInv'
<1> DEFINE s == [d \in Dir |-> lat.glbSides[d] \div NPerDir[d]]
           members == [sides |-> s, vol |-> Volume(s)]
<1>1. /\ pc = "sides" /\ refused = "no" /\ which \in Subs
      /\ refused' \in {"no", "input"}
      /\ refused' = "no" => IsPartitionable(lat.glbSides, NPerDir)
      /\ Set(members, "bulk")
  BY DEF SetSidesAndVol, Running, CrashIf, BInv, Built
<1>2. GridOf(which).n = NPerDir /\ GridOf(which).sides = s
  BY <1>1 DEF GridOf, LocGrid, SimdLocGrid, Grid, NPerDir, Subs
<1>3. DOMAIN members = MembersOf(pc)
  BY <1>1 DEF MembersOf
<1>4. \A m \in DOMAIN members : members[m] = Expected(which)[m]
  BY <1>2 DEF Expected
<1>5. refused' = "no" => Divides(which)
  BY <1>1, <1>2 DEF Divides
<1>6. "bulk" \in Steps \ {"done"} /\ StepNo["bulk"] = StepNo[pc] + 1
  BY <1>1 DEF Steps, StepNo
<1> HIDE DEF members
<1> QED BY <1>1, <1>3, <1>4, <1>5, <1>6, Advanced

LEMMA BulkStep ==
  ASSUME BInv, SetBulk
  PROVE  BInv'
<1> DEFINE members == [bulkSides |-> BulkSides(G), bulkVol |-> Volume(BulkSides(G))]
<1>1. pc = "bulk" /\ refused = "no" /\ refused' = "no" /\ Set(members, "surfaces")
  BY DEF SetBulk, Running, CrashIf
<1>2. G = GridOf(which)
  BY <1>1, GridSet DEF Past, StepNo
<1>3. DOMAIN members = MembersOf(pc)
  BY <1>1 DEF MembersOf
<1>4. \A m \in DOMAIN members : members[m] = Expected(which)[m]
  BY <1>2 DEF Expected
<1>5. "surfaces" \in Steps \ {"done"} /\ StepNo["surfaces"] = StepNo[pc] + 1
  BY <1>1 DEF Steps, StepNo
<1> HIDE DEF members
<1> QED BY <1>1, <1>3, <1>4, <1>5, Advanced

LEMMA SurfacesStep ==
  ASSUME BInv, SetSurfaces
  PROVE  BInv'
<1> DEFINE members == [surf |-> sub[which].vol - sub[which].bulkVol,
                       surfPerDir |-> SurfPerDir(G)]
<1>1. pc = "surfaces" /\ refused = "no" /\ refused' = "no" /\ Set(members, "halo")
  BY DEF SetSurfaces, Running, CrashIf
<1>2. G = GridOf(which) /\ which \in Subs /\ sub[which].vol = Volume(GridOf(which).sides)
  BY <1>1, GridSet DEF Past, StepNo
<1>3. sub[which].bulkVol = Volume(BulkSides(GridOf(which)))
  <2>1. "bulk" \in Steps /\ "bulkVol" \in MembersOf("bulk") /\ Past(which, "bulk")
    BY <1>1 DEF Steps, MembersOf, Past, StepNo
  <2>2. sub[which]["bulkVol"] = Expected(which)["bulkVol"]
    BY <1>1, <1>2, <2>1, MemberSet
  <2> QED BY <2>2 DEF Expected
<1>4. DOMAIN members = MembersOf(pc)
  BY <1>1 DEF MembersOf
<1>5. \A m \in DOMAIN members : members[m] = Expected(which)[m]
  BY <1>2, <1>3 DEF Expected
<1>6. "halo" \in Steps \ {"done"} /\ StepNo["halo"] = StepNo[pc] + 1
  BY <1>1 DEF Steps, StepNo
<1> HIDE DEF members
<1> QED BY <1>1, <1>4, <1>5, <1>6, Advanced

LEMMA HaloStep ==
  ASSUME BInv, SetHalo
  PROVE  BInv'
<1> DEFINE offsets == [f \in Ori \X Dir |-> HaloOffset(G, f[1], f[2])]
           members == [haloPerDir |-> HaloPerDir(G), halo |-> Halo(G), haloOffsets |-> offsets]
<1>1. /\ pc = "halo" /\ refused = "no" /\ Set(members, "eoSides")
      /\ refused' = IF offsets[<<FW, NDims - 1>>] + HaloPerDir(G)[NDims - 1] # Halo(G)
                    THEN "internal" ELSE "no"
  BY DEF SetHalo, Running, CrashIf
<1>2. G = GridOf(which) /\ which \in Subs /\ Divides(which)
  BY <1>1, GridSet DEF Past, StepNo
<1>3. refused' = "no"
  <2>1. G.sides \in SidesOf /\ G.n \in SidesOf
    BY <1>2, GridAccepted, GridShape DEF BInv
  <2>2. HaloOffset(G, FW, NDims - 1) + HaloPerDir(G)[NDims - 1] = Halo(G)
    BY <2>1, HaloSized, HaloAddsUp
  <2>3. offsets[<<FW, NDims - 1>>] = HaloOffset(G, FW, NDims - 1)
    BY NDimsNat DEF Ori, Dir
  <2> QED BY <1>1, <2>2, <2>3
<1>4. DOMAIN members = MembersOf(pc)
  BY <1>1 DEF MembersOf
<1>5. \A m \in DOMAIN members : members[m] = Expected(which)[m]
  BY <1>2 DEF Expected
<1>6. "eoSides" \in Steps \ {"done"} /\ StepNo["eoSides"] = StepNo[pc] + 1
  BY <1>1 DEF Steps, StepNo
<1> HIDE DEF members
<1> QED BY <1>1, <1>3, <1>4, <1>5, <1>6, Advanced

LEMMA EoSidesStep ==
  ASSUME BInv, SetEoSidesAndVol
  PROVE  BInv'
<1> DEFINE members == [eoSides |-> EoSides(G), eoVol |-> EoVol(G)]
<1>1. /\ pc = "eoSides" /\ refused = "no" /\ refused' \in {"no", "input"}
      /\ refused' = "no" => IsPartitionable(sub[which].sides, ParitySides(G))
      /\ Set(members, "eoSurfaces")
  BY DEF SetEoSidesAndVol, Running, CrashIf
<1>2. G = GridOf(which) /\ which \in Subs /\ sub[which].sides = GridOf(which).sides
  BY <1>1, GridSet DEF Past, StepNo
<1>3. refused' = "no" => Halves(which)
  BY <1>1, <1>2 DEF Halves
<1>4. DOMAIN members = MembersOf(pc)
  BY <1>1 DEF MembersOf
<1>5. \A m \in DOMAIN members : members[m] = Expected(which)[m]
  BY <1>2 DEF Expected
<1>6. "eoSurfaces" \in Steps \ {"done"} /\ StepNo["eoSurfaces"] = StepNo[pc] + 1
  BY <1>1 DEF Steps, StepNo
<1> HIDE DEF members
<1> QED BY <1>1, <1>3, <1>4, <1>5, <1>6, Advanced

LEMMA EoSurfacesStep ==
  ASSUME BInv, SetEoSurfaces
  PROVE  BInv'
<1> DEFINE members == [eoSurf |-> sub[which].surf \div 2,
                       eoSurfPerDir |-> [f \in Parity \X Ori \X Dir |->
                                           EoSurfPerDir(G, f[1], f[2], f[3])]]
<1>1. pc = "eoSurfaces" /\ refused = "no" /\ refused' = "no" /\ Set(members, "eoHalo")
  BY DEF SetEoSurfaces, Running, CrashIf
<1>2. G = GridOf(which) /\ which \in Subs
  BY <1>1, GridSet DEF Past, StepNo
<1>3. sub[which].surf = Expected(which).surf
  <2>1. "surfaces" \in Steps /\ "surf" \in MembersOf("surfaces") /\ Past(which, "surfaces")
    BY <1>1 DEF Steps, MembersOf, Past, StepNo
  <2> QED BY <1>1, <1>2, <2>1, MemberSet
<1>4. DOMAIN members = MembersOf(pc)
  BY <1>1 DEF MembersOf
<1>5. \A m \in DOMAIN members : members[m] = Expected(which)[m]
  BY <1>2, <1>3 DEF Expected
<1>6. "eoHalo" \in Steps \ {"done"} /\ StepNo["eoHalo"] = StepNo[pc] + 1
  BY <1>1 DEF Steps, StepNo
<1> HIDE DEF members
<1> QED BY <1>1, <1>4, <1>5, <1>6, Advanced

LEMMA EoHaloStep ==
  ASSUME BInv, SetEoHalo
  PROVE  BInv'
<1> DEFINE offsets == [f \in Parity \X Ori \X Dir |-> EoHaloOffset(G, f[1], f[2], f[3])]
           members == [eoHalo |-> EoHalo(G),
                       eoHaloPerDir |-> [f \in Parity \X Ori \X Dir |->
                                           EoHaloPerDir(G, f[1], f[2], f[3])],
                       eoHaloOffsets |-> offsets]
<1>1. /\ pc = "eoHalo" /\ refused = "no" /\ Set(members, "eoNeighbours")
      /\ refused' = IF \E p \in Parity : offsets[<<p, FW, NDims - 1>>]
                                         + EoHaloPerDir(G, p, FW, NDims - 1) # EoHalo(G)
                    THEN "internal" ELSE "no"
  BY DEF SetEoHalo, Running, CrashIf
<1>2. G = GridOf(which) /\ GoodGrid(G)
  BY <1>1, GridHalvedSet DEF Past, StepNo
<1>3. refused' = "no"
  <2>1. ASSUME NEW p \in Parity
        PROVE  offsets[<<p, FW, NDims - 1>>] + EoHaloPerDir(G, p, FW, NDims - 1) = EoHalo(G)
    <3>1. offsets[<<p, FW, NDims - 1>>] = EoHaloOffset(G, p, FW, NDims - 1)
      BY NDimsNat DEF Ori, Dir
    <3> QED BY <1>2, <3>1, EoHaloAddsUp
  <2> QED BY <1>1, <2>1
<1>4. DOMAIN members = MembersOf(pc)
  BY <1>1 DEF MembersOf
<1>5. \A m \in DOMAIN members : members[m] = Expected(which)[m]
  BY <1>2 DEF Expected
<1>6. "eoNeighbours" \in Steps \ {"done"} /\ StepNo["eoNeighbours"] = StepNo[pc] + 1
  BY <1>1 DEF Steps, StepNo
<1> HIDE DEF members
<1> QED BY <1>1, <1>3, <1>4, <1>5, <1>6, Advanced

LEMMA EoNeighboursStep ==
  ASSUME BInv, SetEoNeighbours
  PROVE  BInv'
<1> DEFINE members == [eoNeighbours |-> [f \in Parity \X EoSites(G) \X Ori \X Dir |->
                                           EoNeighbour(G, f[1], f[2], f[3], f[4])]]
<1>1. /\ pc = "eoNeighbours" /\ refused = "no" /\ Set(members, "filler")
      /\ refused' = IF \E p \in Parity, s \in EoSites(G), o \in Ori, d \in Dir :
                          NeighbourRefused(G, p, s, o, d)
                    THEN "internal" ELSE "no"
  BY DEF SetEoNeighbours, Running, CrashIf
<1>2. G = GridOf(which) /\ GoodGrid(G)
  BY <1>1, GridHalvedSet DEF Past, StepNo
<1>3. refused' = "no"
  BY <1>1, <1>2, NeighbourPlace
<1>4. DOMAIN members = MembersOf(pc)
  BY <1>1 DEF MembersOf
<1>5. \A m \in DOMAIN members : members[m] = Expected(which)[m]
  BY <1>2 DEF Expected
<1>6. "filler" \in Steps \ {"done"} /\ StepNo["filler"] = StepNo[pc] + 1
  BY <1>1 DEF Steps, StepNo
<1> HIDE DEF members
<1> QED BY <1>1, <1>3, <1>4, <1>5, <1>6, Advanced

\* The last step of a sublattice: the SIMD one is begun, or init is done.
LEMMA FillerStep ==
  ASSUME BInv, PrecomputeHaloFiller
  PROVE  BInv'
<1> DEFINE filler == [p \in Parity |-> HaloFiller(G, p)]
           members == [filler |-> filler]
<1>1. /\ pc = "filler" /\ refused = "no" /\ lat' = lat /\ rank' = rank
      /\ sub' = [sub EXCEPT ![which] = With(@, members)]
      /\ refused' = IF \E p \in Parity : Cardinality(filler[p]) # EoHalo(G)
                    THEN "internal" ELSE "no"
      /\ IF which = "loc" THEN which' = "simdLoc" /\ pc' = "sides"
                          ELSE which' = which /\ pc' = "done"
  BY DEF PrecomputeHaloFiller, Running, CrashIf
<1>2. G = GridOf(which) /\ GoodGrid(G) /\ which \in Subs
  BY <1>1, GridHalvedSet DEF Past, StepNo, BInv, Built
<1>3. refused' = "no"
  <2>1. \A p \in Parity : Cardinality(HaloFiller(G, p)) = EoHalo(G)
    BY <1>2, FillerFits
  <2> QED BY <1>1, <2>1
<1>4. /\ DOMAIN members = MembersOf("filler")
      /\ \A m \in DOMAIN members : members[m] = Expected(which)[m]
  BY <1>2 DEF MembersOf, Expected
<1>5. /\ sub' = [w \in Subs |-> sub'[w]]
      /\ sub'[which] = With(sub[which], members)
      /\ \A w \in Subs \ {which} : sub'[w] = sub[w]
  BY <1>1, <1>2 DEF BInv, Built
<1> HIDE DEF members, filler
<1>6. \A w : GridOf(w)' = GridOf(w) /\ Expected(w)' = Expected(w)
  BY <1>1 DEF GridOf, Expected
<1>7. \A w : (Divides(w)' <=> Divides(w)) /\ (Halves(w)' <=> Halves(w))
  BY <1>1, <1>6 DEF Divides, Halves
<1>8. Built'
  BY <1>1, <1>2, <1>3, <1>5 DEF BInv, Built, Steps, Subs
<1>9. \A s \in Steps \ {"done", "filler"} : Past(which, s)
  BY <1>1 DEF Past, Steps, StepNo
<1>10. ~Past(which, "filler") /\ ~Past(which, "done")
  BY <1>1 DEF Past, StepNo
<1>11. MembersOf("done") = {} /\ "filler" \in Steps
  BY DEF MembersOf, Steps
<1>12. /\ DOMAIN sub[which] = Names(which)
       /\ \A m \in Names(which) : sub[which][m] = Expected(which)[m]
       /\ Divides(which) /\ Halves(which)
  <2>1. Past(which, "sides") /\ Past(which, "eoSides")
    BY <1>9 DEF Steps
  <2> QED BY <1>1, <1>2, <2>1 DEF BInv, MembersRight, ChecksPassed
<1> DEFINE All == UNION {MembersOf(s) : s \in Steps}
<1>13. Names(which) \cup MembersOf("filler") = All
  BY <1>9, <1>10, <1>11 DEF Names
<1>14. /\ DOMAIN sub'[which] = All
       /\ \A m \in All : sub'[which][m] = Expected(which)[m]
  BY <1>4, <1>5, <1>12, <1>13 DEF With
<1>15. \A w \in Subs : All = DOMAIN Expected(w)
  BY DEF Steps, MembersOf, Expected
<1>16. \A w \in Subs, s \in Steps \ {"done"} : w = which => Past(w, s)'
  BY <1>1, <1>2 DEF Past, Steps, StepNo, Subs
<1>17. \A w \in Subs : w = which => Names(w)' = All
  BY <1>11, <1>16 DEF Names
<1>18. ASSUME NEW w \in Subs \ {which}
       PROVE  /\ Names(w)' = Names(w)
              /\ (Past(w, "sides")' => Past(w, "sides"))
              /\ (Past(w, "eoSides")' => Past(w, "eoSides"))
  <2>1. CASE which = "loc"
    <3>1. w = "simdLoc" /\ which' = w /\ pc' = "sides"
      BY <1>1, <2>1 DEF Subs
    <3>2. \A s \in Steps : ~Past(w, s)
      BY <2>1, <3>1 DEF Past
    <3>3. \A s \in Steps : Past(w, s)' => s = "simdRanks"
      BY <3>1 DEF Past, Steps, StepNo
    <3>4. MembersOf("simdRanks") = {}
      BY DEF MembersOf
    <3>5. Names(w) = {} /\ Names(w)' = {}
      BY <3>2, <3>3, <3>4 DEF Names
    <3> QED BY <3>3, <3>5 DEF Steps
  <2>2. CASE which = "simdLoc"
    <3>1. w = "loc" /\ which' = which
      BY <1>1, <2>2 DEF Subs
    <3>2. \A s : Past(w, s)' /\ Past(w, s)
      BY <2>2, <3>1 DEF Past
    <3> QED BY <3>2 DEF Names
  <2> QED BY <1>2, <2>1, <2>2 DEF Subs
<1> HIDE DEF All
<1>19. MembersRight'
  <2>1. ASSUME NEW w \in Subs
        PROVE  /\ DOMAIN sub'[w] = Names(w)'
               /\ \A m \in Names(w)' : sub'[w][m] = Expected(w)'[m]
    <3>1. CASE w = which
      BY <1>6, <1>14, <1>17, <3>1
    <3>2. CASE w # which
      BY <1>1, <1>5, <1>6, <1>18, <3>2 DEF BInv, MembersRight
    <3> QED BY <3>1, <3>2
  <2> QED BY <2>1 DEF MembersRight
<1>20. ChecksPassed'
  <2>1. ASSUME NEW w \in Subs
        PROVE  (Past(w, "sides")' => Divides(w)) /\ (Past(w, "eoSides")' => Halves(w))
    BY <1>1, <1>12, <1>18 DEF BInv, ChecksPassed
  <2> QED BY <1>7, <2>1 DEF ChecksPassed
<1>21. FinishedRight'
  <2>1. ASSUME NEW w \in Subs, "filler" \in DOMAIN sub'[w]
        PROVE  /\ Divides(w) /\ Halves(w)
               /\ \A m \in DOMAIN Expected(w) : sub'[w][m] = Expected(w)[m]
    <3>1. CASE w = which
      BY <1>12, <1>14, <1>15, <3>1
    <3>2. CASE w # which
      BY <1>5, <2>1, <3>2 DEF BInv, FinishedRight
    <3> QED BY <3>1, <3>2
  <2> QED BY <1>6, <1>7, <2>1 DEF FinishedRight
<1> QED BY <1>8, <1>19, <1>20, <1>21 DEF BInv

------------------------------------------------------------------------------
(* The theorems.                                                           *)

\* Every member set so far is what the grid of its sublattice says, and what has
\* passed the checks on the arguments is divided evenly.
THEOREM InitInductive == Spec => []BInv
<1>1. Init => BInv
  <2> SUFFICES ASSUME Init PROVE BInv
    OBVIOUS
  <2>1. Built
    BY DEF Init, Built, Steps, Subs
  <2>2. \A w \in Subs : DOMAIN sub[w] = {}
    BY DEF Init, Subs
  <2>3. \A w \in Subs, s \in Steps : ~Past(w, s)
    BY DEF Init, Past, Subs, Steps, StepNo
  <2>4. \A w \in Subs : Names(w) = {}
    BY <2>3 DEF Names
  <2>5. "sides" \in Steps /\ "eoSides" \in Steps
    BY DEF Steps
  <2> QED BY <2>1, <2>2, <2>3, <2>4, <2>5 DEF BInv, ChecksPassed, MembersRight, FinishedRight
<1>2. BInv /\ [Next]_vars => BInv'
  <2> SUFFICES ASSUME BInv, [Next]_vars PROVE BInv'
    OBVIOUS
  <2>1. CASE SetSimdRanks
    <3>1. /\ pc = "simdRanks" /\ pc' = "sides" /\ which' = which /\ sub' = sub
          /\ lat' = lat /\ rank' = rank /\ refused = "no" /\ refused' \in {"no", "input"}
      BY <2>1 DEF SetSimdRanks, Running, CrashIf
    <3>2. which = "loc" /\ Built'
      BY <3>1 DEF BInv, Built, Steps
    <3>3. \A w : GridOf(w)' = GridOf(w) /\ Expected(w)' = Expected(w)
      BY <3>1 DEF GridOf, Expected
    <3>4. \A w \in Subs, s \in Steps : /\ ~Past(w, s)
                                       /\ Past(w, s)' => s = "simdRanks"
      BY <3>1, <3>2 DEF Past, Subs, Steps, StepNo
    <3>5. MembersOf("simdRanks") = {}
      BY DEF MembersOf
    <3>6. \A w \in Subs : Names(w) = {} /\ Names(w)' = {}
      BY <3>4, <3>5 DEF Names
    <3>7. MembersRight'
      BY <3>1, <3>6 DEF BInv, MembersRight
    <3>8. ChecksPassed'
      BY <3>4 DEF ChecksPassed, Steps
    <3>9. FinishedRight'
      BY <3>1, <3>3 DEF BInv, FinishedRight, Divides, Halves
    <3> QED BY <3>2, <3>7, <3>8, <3>9 DEF BInv
  <2>2. CASE UNCHANGED vars
    <3>1. \A w : GridOf(w)' = GridOf(w) /\ Expected(w)' = Expected(w) /\ Names(w)' = Names(w)
      BY <2>2 DEF vars, GridOf, Expected, Names, Past
    <3> QED BY <2>2, <3>1
            DEF vars, BInv, Built, ChecksPassed, MembersRight, FinishedRight, Divides, Halves, Past
  <2> QED BY <2>1, <2>2, SidesStep, BulkStep, SurfacesStep, HaloStep, EoSidesStep,
             EoSurfacesStep, EoHaloStep, EoNeighboursStep, FillerStep DEF Next
<1> QED BY <1>1, <1>2, PTL DEF Spec

\* A finished lattice, as its two grids say.
LEMMA FinishedGrids ==
  ASSUME BInv, Finished, NEW w \in Subs
  PROVE  LET g == GridOf(w)
             s == sub[w]
         IN  /\ GoodGrid(g) /\ Divides(w) /\ Halves(w)
             /\ s.haloPerDir = HaloPerDir(g)
             /\ s.eoVol = EoVol(g) /\ 0..(s.eoVol - 1) = EoSites(g)
             /\ s.eoHalo = EoHalo(g)
             /\ \A p \in Parity : s.filler[p] = HaloFiller(g, p)
             /\ DOMAIN s.eoNeighbours = Parity \X EoSites(g) \X Ori \X Dir
             /\ \A p \in Parity, o \in Ori, d \in Dir :
                  /\ s.eoSurfPerDir[<<p, o, d>>] = EoSurfPerDir(g, p, o, d)
                  /\ s.eoHaloPerDir[<<p, o, d>>] = EoHaloPerDir(g, p, o, d)
                  /\ s.eoHaloOffsets[<<p, o, d>>] = EoHaloOffset(g, p, o, d)
                  /\ \A x \in EoSites(g) :
                       s.eoNeighbours[<<p, x, o, d>>] = EoNeighbour(g, p, x, o, d)
<1>1. which = "simdLoc" /\ pc = "done" /\ refused = "no"
  BY DEF Finished, BInv, Built
<1>2. \A s \in Steps \ {"done"} : Past(w, s)
  BY <1>1 DEF Past, Subs, Steps, StepNo
<1>3. "filler" \in DOMAIN sub[w]
  <2>1. "filler" \in Steps \ {"done"} /\ "filler" \in MembersOf("filler")
    BY DEF Steps, MembersOf
  <2> QED BY <1>1, <1>2, <2>1, MemberSet
<1>4. /\ Divides(w) /\ Halves(w)
      /\ \A m \in DOMAIN Expected(w) : sub[w][m] = Expected(w)[m]
  BY <1>3 DEF BInv, FinishedRight
<1>5. GoodGrid(GridOf(w))
  BY <1>4, GridAccepted DEF BInv
<1> DEFINE g == GridOf(w)
           s == sub[w]
<1>6. /\ s.haloPerDir = HaloPerDir(g)
      /\ s.eoVol = EoVol(g) /\ 0..(s.eoVol - 1) = EoSites(g)
      /\ s.eoHalo = EoHalo(g)
      /\ s.filler = [p \in Parity |-> HaloFiller(g, p)]
  BY <1>4 DEF Expected, EoSites
<1>7. /\ s.eoSurfPerDir
           = [f \in Parity \X Ori \X Dir |-> EoSurfPerDir(g, f[1], f[2], f[3])]
      /\ s.eoHaloPerDir
           = [f \in Parity \X Ori \X Dir |-> EoHaloPerDir(g, f[1], f[2], f[3])]
      /\ s.eoHaloOffsets
           = [f \in Parity \X Ori \X Dir |-> EoHaloOffset(g, f[1], f[2], f[3])]
      /\ s.eoNeighbours = [f \in Parity \X EoSites(g) \X Ori \X Dir |->
                             EoNeighbour(g, f[1], f[2], f[3], f[4])]
  BY <1>4 DEF Expected
<1> HIDE DEF g, s
<1>8. \A p \in Parity : s.filler[p] = HaloFiller(g, p)
  BY <1>6
<1>9. DOMAIN s.eoNeighbours = Parity \X EoSites(g) \X Ori \X Dir
  BY <1>7
<1>10. ASSUME NEW p \in Parity, NEW o \in Ori, NEW d \in Dir
       PROVE  /\ s.eoSurfPerDir[<<p, o, d>>] = EoSurfPerDir(g, p, o, d)
              /\ s.eoHaloPerDir[<<p, o, d>>] = EoHaloPerDir(g, p, o, d)
              /\ s.eoHaloOffsets[<<p, o, d>>] = EoHaloOffset(g, p, o, d)
              /\ \A x \in EoSites(g) :
                   s.eoNeighbours[<<p, x, o, d>>] = EoNeighbour(g, p, x, o, d)
  BY <1>7
<1> QED BY <1>4, <1>5, <1>6, <1>8, <1>9, <1>10 DEF g, s

\* Ranks and lanes divide a lattice that init accepts, and parity halves their sides.
LEMMA FinishedDivided ==
  ASSUME BInv, Finished
  PROVE  Divided(lat)
<1> DEFINE g == GridOf("simdLoc")
           Parts == Times(lat.nRanks, lat.nSimdRanks)
<1>1. g = SimdLocGrid(lat, rank) /\ "simdLoc" \in Subs
  BY DEF GridOf, Subs
<1>2. GoodGrid(g) /\ Divides("simdLoc")
  BY <1>1, FinishedGrids
<1>3. /\ {lat.glbSides, lat.nRanks, lat.nSimdRanks} \subseteq SidesOf
      /\ lat.parityDir \in Dir
  BY LatticesAssumption DEF BInv, Built, SidesOf
<1>4. g.n = Parts /\ g.pdir = lat.parityDir
      /\ g.sides = [d \in Dir |-> lat.glbSides[d] \div Parts[d]]
  BY <1>1 DEF SimdLocGrid, Grid
<1>5. (lat.glbSides[lat.parityDir] \div Parts[lat.parityDir]) % 2 = 0
  BY <1>2, <1>3, <1>4 DEF GoodGrid
<1> QED BY <1>1, <1>2, <1>3, <1>4, <1>5 DEF Divided, Divides

\* Lanes that begin on odd sites are refused by the first step.
LanesAccepted == refused = "no" /\ pc # "simdRanks" => LanesEven(lat)

\* What init accepts is what the conversions of sites and the exchange of halos start
\* from: the checks on sides and lanes hold of every lattice whose tables are finished.
THEOREM AcceptedLattices == Spec => [](Finished => Divided(lat) /\ LanesEven(lat))
<1>1. Init => LanesAccepted
  BY DEF Init, LanesAccepted
<1>2. LanesAccepted /\ [Next]_vars => LanesAccepted'
  <2> SUFFICES ASSUME LanesAccepted, [Next]_vars PROVE LanesAccepted'
    OBVIOUS
  <2>1. lat' = lat => (LanesEven(lat)' <=> LanesEven(lat))
    OBVIOUS
  <2>2. CASE SetSimdRanks
    BY <2>1, <2>2 DEF SetSimdRanks, CrashIf, LanesAccepted
  <2>3. ASSUME NEW step, step # "simdRanks", Running(step), lat' = lat PROVE LanesAccepted'
    BY <2>1, <2>3 DEF Running, LanesAccepted
  <2>4. CASE SetSidesAndVol \/ SetBulk \/ SetSurfaces \/ SetHalo
    BY <2>3, <2>4 DEF SetSidesAndVol, SetBulk, SetSurfaces, SetHalo, Set
  <2>5. CASE SetEoSidesAndVol \/ SetEoSurfaces \/ SetEoHalo \/ SetEoNeighbours
    BY <2>3, <2>5 DEF SetEoSidesAndVol, SetEoSurfaces, SetEoHalo, SetEoNeighbours, Set
  <2>6. CASE PrecomputeHaloFiller
    BY <2>3, <2>6 DEF PrecomputeHaloFiller
  <2>7. CASE UNCHANGED vars
    BY <2>1, <2>7 DEF vars, LanesAccepted
  <2> QED BY <2>2, <2>4, <2>5, <2>6, <2>7 DEF Next
<1>3. BInv /\ LanesAccepted => (Finished => Divided(lat) /\ LanesEven(lat))
  BY FinishedDivided DEF LanesAccepted, Finished
<1> QED BY <1>1, <1>2, <1>3, InitInductive, PTL DEF Spec

\* A finished sublattice has as many sites and slots for one parity as for the other,
\* and the volume of its halved sides.
THEOREM LatticeTyped == Spec => []LatticeTypeOK
<1>1. BInv => LatticeTypeOK
  <2> SUFFICES ASSUME BInv PROVE LatticeTypeOK
    OBVIOUS
  <2>1. ASSUME NEW w \in Subs, "filler" \in DOMAIN sub[w]
        PROVE  /\ sub[w].vol = 2 * sub[w].eoVol
               /\ sub[w].eoVol = Volume(sub[w].eoSides)
               /\ sub[w].halo = 2 * sub[w].eoHalo
    <3> DEFINE g == GridOf(w)
    <3>1. /\ Divides(w) /\ Halves(w)
          /\ \A m \in DOMAIN Expected(w) : sub[w][m] = Expected(w)[m]
      BY <2>1 DEF BInv, FinishedRight
    <3>2. GoodGrid(g)
      BY <3>1, GridAccepted DEF BInv
    <3>3. /\ sub[w].vol = Volume(g.sides) /\ sub[w].eoVol = EoVol(g)
          /\ sub[w].eoSides = EoSides(g) /\ sub[w].halo = Halo(g) /\ sub[w].eoHalo = EoHalo(g)
      BY <3>1 DEF Expected
    <3>4. Volume(g.sides) = 2 * EoVol(g) /\ EoVol(g) = Volume(EoSides(g))
      BY <3>2, GridHalved
    <3>5. 0 \in Parity
      BY DEF Parity
    <3>6. Halo(g) = 2 * EoHalo(g)
      BY <3>2, <3>5, EoHaloAddsUp
    <3> QED BY <3>3, <3>4, <3>6
  <2> QED BY <2>1 DEF LatticeTypeOK, BInv, Built, Subs
<1> QED BY <1>1, InitInductive, PTL

\* TablesNeverRefused: arguments that pass the checks on them never fail the checks of
\* the code on its own tables, for any number of directions, sides, parts and origins.
THEOREM TablesAccepted == Spec => []TablesNeverRefused
<1>1. BInv => TablesNeverRefused
  BY DEF BInv, Built, TablesNeverRefused
<1> QED BY <1>1, InitInductive, PTL

\* EvenNeighboursRight: with even global sides, a local neighbour in the tables is the
\* site of the other parity one step away.
THEOREM NeighboursOneStepAway == Spec => []EvenNeighboursRight
<1>1. BInv => EvenNeighboursRight
  <2> SUFFICES ASSUME BInv, Finished, \A d \in Dir : lat.glbSides[d] % 2 = 0,
                      NEW w \in Subs, NEW p \in Parity, NEW x \in EoSites(GridOf(w)),
                      NEW o \in Ori, NEW d \in Dir,
                      sub[w].eoNeighbours[<<p, x, o, d>>] < sub[w].eoVol
               PROVE  CoordsOfEoSite(GridOf(w), OppositeParity(p),
                                     sub[w].eoNeighbours[<<p, x, o, d>>])
                        = TriviallyShifted(GridOf(w), p, x, o, d)
    <3>1. ASSUME BInv, Finished, NEW w \in Subs
          PROVE  DOMAIN sub[w].eoNeighbours = Parity \X EoSites(GridOf(w)) \X Ori \X Dir
      BY <3>1, FinishedGrids
    <3> QED BY <3>1 DEF EvenNeighboursRight, LocalNeighboursRight, Subs
  <2> DEFINE g == GridOf(w)
             n == EoNeighbour(g, p, x, o, d)
  <2>1. GoodGrid(g) /\ Divides(w) /\ sub[w].eoVol = EoVol(g)
        /\ sub[w].eoNeighbours[<<p, x, o, d>>] = n
    BY FinishedGrids
  <2>2. Alternates(g, d)
    <3>1. lat.glbSides[d] = g.sides[d] * g.n[d] /\ g.sides[d] \in Nat /\ g.n[d] \in Nat \ {0}
      BY <2>1, GridAccepted DEF BInv, GoodGrid, SidesOf
    <3>2. CASE g.n[d] = 1
      BY <3>1, <3>2 DEF Alternates
    <3> QED BY <3>1, <3>2 DEF Alternates
  <2>3. EoVol(g) \in Nat /\ n \in Nat /\ (n >= EoVol(g) <=> OnFace(g, p, x, o, d))
    BY <2>1, NeighbourPlace
  <2>4. ~OnFace(g, p, x, o, d) =>
          n \in EoSites(g)
          /\ CoordsOfEoSite(g, OppositeParity(p), n) = TriviallyShifted(g, p, x, o, d)
    BY <2>1, <2>2, NeighbourPlace
  <2>5. n < EoVol(g)
    BY <2>1
  <2> HIDE DEF g, n
  <2>6. ~OnFace(g, p, x, o, d)
    BY <2>3, <2>5
  <2> QED BY <2>1, <2>4, <2>6 DEF g, n
<1> QED BY <1>1, InitInductive, PTL

\* HaloSlotsExact: behind each cut face the halo of either parity has as many slots as
\* sites that look there, each looked at by one site, odd faces and the one site more
\* that one of the parities has on them included.
THEOREM HaloFilledExactly == Spec => []HaloSlotsExact
<1>1. BInv => HaloSlotsExact
  <2> SUFFICES ASSUME BInv, Finished, NEW w \in Subs,
                      NEW p \in Parity, NEW o \in Ori, NEW d \in Dir
               PROVE  LET s == sub[w]
                          lookers == {x \in 0..(s.eoVol - 1) :
                                        s.eoNeighbours[<<p, x, o, d>>] >= s.eoVol}
                          f == <<OppositeParity(p), o, d>>
                      IN  /\ {s.eoNeighbours[<<p, x, o, d>>] : x \in lookers}
                               = {s.eoVol + s.eoHaloOffsets[f] + i :
                                    i \in 0..(s.eoHaloPerDir[f] - 1)}
                          /\ Cardinality(lookers) = s.eoHaloPerDir[f]
                          /\ Cardinality(lookers) = s.eoSurfPerDir[<<p, o, d>>]
    BY DEF HaloSlotsExact, Subs
  <2> DEFINE g == GridOf(w)
             s == sub[w]
             q == OppositeParity(p)
             n(x) == EoNeighbour(g, p, x, o, d)
             lookers == {x \in EoSites(g) : n(x) >= EoVol(g)}
  <2>1. GoodGrid(g)
    BY FinishedGrids
  <2>2. s.eoVol = EoVol(g) /\ 0..(s.eoVol - 1) = EoSites(g)
    BY FinishedGrids
  <2>3. q \in Parity
    BY DEF OppositeParity, Parity
  <2>4. /\ \A x \in EoSites(g) : s.eoNeighbours[<<p, x, o, d>>] = n(x)
        /\ s.eoHaloOffsets[<<q, o, d>>] = EoHaloOffset(g, q, o, d)
        /\ s.eoHaloPerDir[<<q, o, d>>] = EoHaloPerDir(g, q, o, d)
        /\ s.eoSurfPerDir[<<p, o, d>>] = EoSurfPerDir(g, p, o, d)
    BY <2>3, FinishedGrids
  <2>5. {x \in 0..(s.eoVol - 1) : s.eoNeighbours[<<p, x, o, d>>] >= s.eoVol} = lookers
    BY <2>2, <2>4
  <2>6. {s.eoNeighbours[<<p, x, o, d>>] : x \in lookers} = {n(x) : x \in lookers}
    BY <2>4
  <2>7. /\ {n(x) : x \in lookers}
             = {(EoVol(g) + EoHaloOffset(g, q, o, d)) + i :
                  i \in 0..(EoHaloPerDir(g, q, o, d) - 1)}
        /\ Cardinality(lookers) = EoHaloPerDir(g, q, o, d)
        /\ Cardinality(lookers) = EoSurfPerDir(g, p, o, d)
    BY <2>1, SlotsExact
  <2> HIDE DEF lookers, g, s, n
  <2> QED BY <2>2, <2>4, <2>5, <2>6, <2>7 DEF s, q
<1> QED BY <1>1, InitInductive, PTL

\* EvenFillerRight: where the faces have even sizes, the filler sends each leaving
\* site to a slot of its own in the halo section of the opposite face.
THEOREM FillerFitsSections == Spec => []EvenFillerRight
<1>1. BInv => EvenFillerRight
  <2> SUFFICES ASSUME BInv, Finished, NEW w \in Subs, EvenHalo(w), NEW p \in Parity
               PROVE  LET s == sub[w] IN
                      /\ {x[2] : x \in s.filler[p]} = 0..(s.eoHalo - 1)
                      /\ \A x \in s.filler[p] :
                           LET f == <<p, OppositeOri(x[3]), x[4]>>
                           IN  x[2] \in s.eoHaloOffsets[f]
                                        ..(s.eoHaloOffsets[f] + s.eoHaloPerDir[f] - 1)
    BY DEF EvenFillerRight, FillerRight, Subs
  <2> DEFINE g == GridOf(w)
             s == sub[w]
  <2>1. /\ GoodGrid(g) /\ s.filler[p] = HaloFiller(g, p) /\ s.eoHalo = EoHalo(g)
        /\ \A d \in Dir : HaloPerDir(g)[d] % 2 = 0
    BY FinishedGrids DEF EvenHalo
  <2>2. \A o \in Ori, d \in Dir :
           /\ s.eoHaloOffsets[<<p, o, d>>] = EoHaloOffset(g, p, o, d)
           /\ s.eoHaloPerDir[<<p, o, d>>] = EoHaloPerDir(g, p, o, d)
    BY FinishedGrids
  <2> HIDE DEF g, s
  <2>3. /\ {z[2] : z \in HaloFiller(g, p)} = 0..(EoHalo(g) - 1)
        /\ \A z \in HaloFiller(g, p) :
             LET o == OppositeOri(z[3])
             IN  /\ o \in Ori /\ z[4] \in Dir
                 /\ z[2] \in EoHaloOffset(g, p, o, z[4])
                             ..(EoHaloOffset(g, p, o, z[4]) + EoHaloPerDir(g, p, o, z[4]) - 1)
    BY <2>1, FillerRightThere
  <2> QED BY <2>1, <2>2, <2>3 DEF s
<1> QED BY <1>1, InitInductive, PTL

\* SimdSiteRoundTrip: global coordinates and (rank, parity, SIMD e/o site, SIMD rank)
\* are one to one on every rank and lane of every lattice that init accepts, for any
\* number of directions, odd sides of the directions that parity does not halve included.
THEOREM SitesFoundAgain == Spec => []SimdSiteRoundTrip
<1>1. BInv => SimdSiteRoundTrip
  <2> SUFFICES ASSUME BInv, Finished,
                      NEW p \in Parity, NEW s \in 0..(sub["simdLoc"].eoVol - 1),
                      NEW r \in RanksOf(lat.nSimdRanks)
               PROVE  SimdEoSiteOfGlbCoords(lat, GlbCoordsOfSimdEoSite(lat, rank, p, s, r))
                        = <<rank, p, s, r>>
    BY DEF SimdSiteRoundTrip
  <2>1. GridOf("simdLoc") = SimdLocGrid(lat, rank) /\ "simdLoc" \in Subs
    BY DEF GridOf, Subs
  <2>2. sub["simdLoc"].eoVol = EoVol(SimdLocGrid(lat, rank))
    BY <2>1, FinishedGrids
  <2>3. rank \in RanksOf(lat.nRanks)
    BY DEF BInv, Built
  <2>4. s \in EoSites(SimdLocGrid(lat, rank))
    BY <2>2 DEF EoSites
  <2> QED BY <2>3, <2>4, FinishedDivided, SimdSitesInverse
<1> QED BY <1>1, InitInductive, PTL

\* SimdSectionsMatch: for any ranks and lanes, where the lane-wise faces have even
\* sizes, the lanes that face another rank, as many as nonLocSimdRanks lists, times the
\* slots of each make the section of the messages.
THEOREM SectionsOfLanesMatch == Spec => []SimdSectionsMatch
<1>1. BInv => SimdSectionsMatch
  <2> SUFFICES ASSUME BInv, Finished, NEW p \in Parity, NEW o \in Ori, NEW d \in Dir,
                      lat.nRanks[d] > 1, EvenHalo("simdLoc")
               PROVE  sub["simdLoc"].eoHaloPerDir[<<p, o, d>>] * Len(NonLocSimdRanks(lat, o, d))
                        = sub["loc"].eoHaloPerDir[<<p, o, d>>]
    BY DEF SimdSectionsMatch
  <2> DEFINE g == GridOf("simdLoc")
             h == GridOf("loc")
             R == lat.nRanks
             S == lat.nSimdRanks
             F == [e \in Dir |-> IF e = d THEN 1 ELSE S[e]]
             m == HaloPerDir(g)[d]
             k == Volume(F)
  <2>1. "simdLoc" \in Subs /\ "loc" \in Subs
    BY DEF Subs
  <2>2. /\ GoodGrid(g) /\ Divides("simdLoc") /\ GoodGrid(h) /\ Divides("loc")
        /\ sub["simdLoc"].haloPerDir = HaloPerDir(g)
        /\ sub["simdLoc"].eoHaloPerDir[<<p, o, d>>] = EoHaloPerDir(g, p, o, d)
        /\ sub["loc"].eoHaloPerDir[<<p, o, d>>] = EoHaloPerDir(h, p, o, d)
    BY <2>1, FinishedGrids
  <2>3. R \in SidesOf /\ S \in SidesOf
    BY LatticesAssumption DEF BInv, Built, SidesOf
  <2>4. g.n = Times(R, S) /\ h.n = R
    BY DEF GridOf, SimdLocGrid, LocGrid, Grid
  <2>5. ASSUME NEW e \in Dir PROVE h.sides[e] = g.sides[e] * S[e]
    <3> DEFINE a == g.sides[e]
               b == h.sides[e]
               r == R[e]
               s == S[e]
    <3>1. /\ lat.glbSides[e] = a * g.n[e] /\ lat.glbSides[e] = b * h.n[e]
      BY <2>1, <2>2, GridAccepted DEF BInv
    <3>2. g.n[e] = r * s /\ h.n[e] = r
      BY <2>4 DEF Times
    <3>3. a \in Nat \ {0} /\ b \in Nat \ {0} /\ r \in Nat \ {0} /\ s \in Nat \ {0}
      BY <2>2, <2>3 DEF GoodGrid, SidesOf
    <3> HIDE DEF a, b, r, s
    <3>4. b * r = a * (r * s)
      BY <3>1, <3>2
    <3>5. a * (r * s) = (a * s) * r /\ a * s \in Nat
      BY <3>3
    <3>6. (b * r) \div r = b /\ ((a * s) * r) \div r = a * s
      BY <3>3, <3>5, Exact
    <3>7. b = a * s
      BY <3>4, <3>5, <3>6
    <3> QED BY <3>7 DEF a, b, s
  <2>6. F \in SidesOf
    BY <2>3 DEF SidesOf
  <2>7. Len(NonLocSimdRanks(lat, o, d)) = k
    <3>1. \A e \in Dir : F[e] = IF e = d THEN 1 ELSE S[e]
      OBVIOUS
    <3> HIDE DEF F
    <3> QED BY <2>3, <2>6, <3>1, EdgeRanks
  <2>8. Volume(FaceSides(h, d)) = Volume(FaceSides(g, d)) * k /\ k \in Nat \ {0}
        /\ Volume(FaceSides(g, d)) \in Nat \ {0}
    <3>1. FaceSides(h, d) \in SidesOf /\ FaceSides(g, d) \in SidesOf
      BY <2>2, FaceVolume
    <3>2. \A e \in Dir : FaceSides(h, d)[e] = FaceSides(g, d)[e] * F[e]
      <4> TAKE e \in Dir
      <4>1. g.sides \in SidesOf /\ h.sides \in SidesOf
        BY <2>2 DEF GoodGrid
      <4>2. /\ FaceSides(h, d)[e] = IF e = d THEN 1 ELSE h.sides[e]
            /\ FaceSides(g, d)[e] = IF e = d THEN 1 ELSE g.sides[e]
            /\ F[e] = IF e = d THEN 1 ELSE S[e]
        BY <4>1 DEF FaceSides, SidesOf
      <4> HIDE DEF F, g, h
      <4> QED BY <2>5, <4>2
    <3> HIDE DEF F, g, h
    <3> QED BY <2>6, <3>1, <3>2, ProductVolume
  <2>9. m = Volume(FaceSides(g, d)) /\ HaloPerDir(h)[d] = Volume(FaceSides(h, d))
    <3>1. R[d] \in Nat \ {0} /\ S[d] \in Nat \ {0} /\ R[d] > 1
      BY <2>3 DEF SidesOf
    <3>2. \A x, y \in Nat \ {0} : x > 1 => x * y > 1
      OBVIOUS
    <3>3. g.n[d] > 1 /\ h.n[d] > 1
      BY <2>4, <3>1, <3>2 DEF Times
    <3> HIDE DEF g, h
    <3> QED BY <2>2, <3>3, FaceSizes
  <2>10. m \in Nat /\ m % 2 = 0 /\ HaloPerDir(h)[d] = m * k
    BY <2>2, <2>8, <2>9 DEF EvenHalo
  <2> HIDE DEF m, k
  <2>11. m = 2 * (m \div 2) /\ m \div 2 \in Nat
    BY <2>10
  <2>12. m * k = ((m \div 2) * k) * 2 /\ (m \div 2) * k \in Nat
    <3> DEFINE x == m \div 2
    <3>1. x \in Nat /\ k \in Nat /\ m = 2 * x
      BY <2>8, <2>11
    <3> HIDE DEF x
    <3> QED BY <3>1 DEF x
  <2>13. (m * k) \div 2 = (m \div 2) * k /\ (m * k) % 2 = 0
    BY <2>12, Exact
  <2>14. /\ EoHaloPerDir(g, p, o, d) = m \div 2
         /\ EoHaloPerDir(h, p, o, d) = (m \div 2) * k
    <3>1. HaloPerDir(g)[d] = m /\ HaloPerDir(h)[d] = m * k
      BY <2>10 DEF m
    <3>2. /\ EoHaloPerDir(g, p, o, d) = m \div 2 + 0
          /\ EoHaloPerDir(h, p, o, d) = (m * k) \div 2 + 0
      <4> HIDE DEF g, h
      <4> QED BY <2>10, <2>13, <3>1 DEF EoHaloPerDir
    <3> QED BY <2>11, <2>12, <2>13, <3>2
  <2> QED BY <2>2, <2>7, <2>14
<1> QED BY <1>1, InitInductive, PTL

==============================================================================
