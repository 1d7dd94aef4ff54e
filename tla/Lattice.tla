-------------------------------- MODULE Lattice --------------------------------
(***************************************************************************)
(* include/lattice/lattice.hpp: Lattice::init on one rank, step by step,   *)
(* with every check that may refuse the arguments ("input") and every check *)
(* of the code on its own tables ("internal"). The local sublattice is     *)
(* built first, the SIMD one then, by the same steps of SubLattice::init.  *)
(***************************************************************************)
EXTENDS EoGeometry

CONSTANTS
  Lattices,       \* arguments init may be called with
  NSimdRanks      \* maxAvailableSimdSize

\* Every direction has a side, and is in one part at least.
ASSUME LatticesAssumption ==
  \A l \in Lattices :
    /\ {l.glbSides, l.nRanks, l.nSimdRanks} \subseteq [Dir -> Nat \ {0}]
    /\ l.parityDir \in Dir

VARIABLES
  lat,      \* the arguments: glbSides, nRanks, nSimdRanks, parityDir
  rank,     \* this rank
  sub,      \* the members of the two sublattices set so far
  which,    \* the sublattice under construction
  pc,       \* the next step
  refused   \* the check that ended the program, if any

vars == <<lat, rank, sub, which, pc, refused>>

Init == /\ lat \in Lattices
        /\ rank \in RanksOf(lat.nRanks)
        /\ sub = [w \in {"loc", "simdLoc"} |-> << >>]
        /\ which = "loc"
        /\ pc = "simdRanks"
        /\ refused = "no"

Running(step) == pc = step /\ refused = "no"

CrashIf(condition, kind) == refused' = IF condition THEN kind ELSE "no"

With(old, members) ==
  [m \in DOMAIN old \cup DOMAIN members |-> IF m \in DOMAIN members THEN members[m] ELSE old[m]]

\* Members set by a step, when its checks let it go on to the next one.
Set(members, next) == /\ sub' = [sub EXCEPT ![which] = With(@, members)]
                      /\ pc' = next
                      /\ UNCHANGED <<lat, rank, which>>

\* Parts of each direction, and parity of the origin, for this sublattice.
NPerDir == IF which = "loc" THEN lat.nRanks ELSE Times(lat.nRanks, lat.nSimdRanks)

G == [sides |-> sub[which].sides, n |-> NPerDir,
      origin |-> CoordsParity(Origin(rank, lat.nRanks, lat.glbSides)),
      pdir |-> lat.parityDir]

\* The SIMD ranks are as many as the lanes and begin on even sites.
SetSimdRanks ==
  /\ Running("simdRanks")
  /\ CrashIf(\/ Volume(lat.nSimdRanks) # NSimdRanks
             \/ ~LanesEven(lat), "input")
  /\ pc' = "sides"
  /\ UNCHANGED <<lat, rank, sub, which>>

SetSidesAndVol ==
  /\ Running("sides")
  /\ CrashIf(~IsPartitionable(lat.glbSides, NPerDir), "input")
  /\ LET s == [d \in Dir |-> lat.glbSides[d] \div NPerDir[d]]
     IN  Set([sides |-> s, vol |-> Volume(s)], "bulk")

SetBulk ==
  /\ Running("bulk")
  /\ CrashIf(FALSE, "no")
  /\ Set([bulkSides |-> BulkSides(G), bulkVol |-> Volume(BulkSides(G))], "surfaces")

SetSurfaces ==
  /\ Running("surfaces")
  /\ CrashIf(FALSE, "no")
  /\ Set([surf |-> sub[which].vol - sub[which].bulkVol,
          surfPerDir |-> SurfPerDir(G)], "halo")

SetHalo ==
  /\ Running("halo")
  /\ LET offsets == [f \in Ori \X Dir |-> HaloOffset(G, f[1], f[2])]
     IN  /\ CrashIf(offsets[<<FW, NDims - 1>>] + HaloPerDir(G)[NDims - 1] # Halo(G),
                    "internal")
         /\ Set([haloPerDir |-> HaloPerDir(G), halo |-> Halo(G),
                 haloOffsets |-> offsets], "eoSides")

\* A slip: sides that parity does not halve are accepted.
SetEoSidesAndVolUnchecked ==
  /\ Running("eoSides")
  /\ CrashIf(FALSE, "input")
  /\ Set([eoSides |-> EoSides(G), eoVol |-> EoVol(G)], "eoSurfaces")

SetEoSidesAndVol ==
  /\ Running("eoSides")
  /\ CrashIf(~IsPartitionable(sub[which].sides, ParitySides(G)), "input")
  /\ Set([eoSides |-> EoSides(G), eoVol |-> EoVol(G)], "eoSurfaces")

SetEoSurfaces ==
  /\ Running("eoSurfaces")
  /\ CrashIf(FALSE, "no")
  /\ Set([eoSurf |-> sub[which].surf \div 2,
          eoSurfPerDir |-> [f \in Parity \X Ori \X Dir |->
                              EoSurfPerDir(G, f[1], f[2], f[3])]], "eoHalo")

SetEoHalo ==
  /\ Running("eoHalo")
  /\ LET offsets == [f \in Parity \X Ori \X Dir |-> EoHaloOffset(G, f[1], f[2], f[3])]
     IN  /\ CrashIf(\E p \in Parity : offsets[<<p, FW, NDims - 1>>]
                                      + EoHaloPerDir(G, p, FW, NDims - 1) # EoHalo(G),
                    "internal")
         /\ Set([eoHalo |-> EoHalo(G),
                 eoHaloPerDir |-> [f \in Parity \X Ori \X Dir |->
                                     EoHaloPerDir(G, f[1], f[2], f[3])],
                 eoHaloOffsets |-> offsets], "eoNeighbours")

SetEoNeighbours ==
  /\ Running("eoNeighbours")
  /\ CrashIf(\E p \in Parity, s \in EoSites(G), o \in Ori, d \in Dir :
                NeighbourRefused(G, p, s, o, d), "internal")
  /\ Set([eoNeighbours |-> [f \in Parity \X EoSites(G) \X Ori \X Dir |->
                              EoNeighbour(G, f[1], f[2], f[3], f[4])]], "filler")

PrecomputeHaloFiller ==
  /\ Running("filler")
  /\ LET filler == [p \in Parity |-> HaloFiller(G, p)]
     IN  /\ CrashIf(\E p \in Parity : Cardinality(filler[p]) # EoHalo(G), "internal")
         /\ sub' = [sub EXCEPT ![which] = With(@, [filler |-> filler])]
  /\ IF which = "loc" THEN which' = "simdLoc" /\ pc' = "sides"
                      ELSE which' = which /\ pc' = "done"
  /\ UNCHANGED <<lat, rank>>

Next == \/ SetSimdRanks \/ SetSidesAndVol \/ SetBulk \/ SetSurfaces \/ SetHalo
        \/ SetEoSidesAndVol \/ SetEoSurfaces \/ SetEoHalo \/ SetEoNeighbours
        \/ PrecomputeHaloFiller

Spec == Init /\ [][Next]_vars

------------------------------------------------------------------------------

\* Places and refusals are the known ones, and the two parities share a finished
\* sublattice and its halo in equal parts.
LatticeTypeOK ==
  /\ lat \in Lattices
  /\ rank \in RanksOf(lat.nRanks)
  /\ which \in {"loc", "simdLoc"}
  /\ refused \in {"no", "input", "internal"}
  /\ \A w \in {"loc", "simdLoc"} :
       "filler" \in DOMAIN sub[w] =>
         /\ sub[w].vol = 2 * sub[w].eoVol
         /\ sub[w].eoVol = Volume(sub[w].eoSides)
         /\ sub[w].halo = 2 * sub[w].eoHalo

\* The grid of a finished sublattice.
Finished == refused = "no" /\ pc = "done"

GridOf(w) == IF w = "loc" THEN LocGrid(lat, rank) ELSE SimdLocGrid(lat, rank)

\* Arguments that pass the checks on them never fail the checks of the code on
\* its own tables: whatever the parities of sides and origins, the e/o halos
\* add up, every outer neighbour has a slot, the filler has the halo's size.
TablesNeverRefused == refused # "internal"

\* A local neighbour in the tables is the site of the other parity whose
\* coordinates are one step away, the periodic wrap included.
LocalNeighboursRight(w) ==
  LET g == GridOf(w) IN
  \A f \in DOMAIN sub[w].eoNeighbours :
    LET n == sub[w].eoNeighbours[f]
        there == CoordsOfEoSite(g, OppositeParity(f[1]), n)
    IN  n < sub[w].eoVol => there = TriviallyShifted(g, f[1], f[2], f[3], f[4])

EvenNeighboursRight ==
  Finished /\ (\A d \in Dir : lat.glbSides[d] % 2 = 0)
    => \A w \in {"loc", "simdLoc"} : LocalNeighboursRight(w)

\* Behind each cut face the halo of either parity is filled exactly: as many
\* slots as sites that look there, each looked at by one site.
HaloSlotsExact ==
  Finished => \A w \in {"loc", "simdLoc"}, p \in Parity, o \in Ori, d \in Dir :
    LET s == sub[w]
        lookers == {x \in 0..(s.eoVol - 1) : s.eoNeighbours[<<p, x, o, d>>] >= s.eoVol}
        f == <<OppositeParity(p), o, d>>
    IN  /\ {s.eoNeighbours[<<p, x, o, d>>] : x \in lookers}
             = {s.eoVol + s.eoHaloOffsets[f] + i : i \in 0..(s.eoHaloPerDir[f] - 1)}
        /\ Cardinality(lookers) = s.eoHaloPerDir[f]
        /\ Cardinality(lookers) = s.eoSurfPerDir[<<p, o, d>>]

\* A site is found again: global coordinates and (rank, parity, SIMD e/o site,
\* SIMD rank) are one to one on every rank and lane.
SimdSiteRoundTrip ==
  Finished =>
    \A p \in Parity, s \in 0..(sub["simdLoc"].eoVol - 1), r \in RanksOf(lat.nSimdRanks) :
       SimdEoSiteOfGlbCoords(lat, GlbCoordsOfSimdEoSite(lat, rank, p, s, r))
         = <<rank, p, s, r>>

EvenHalo(w) == \A d \in Dir : sub[w].haloPerDir[d] % 2 = 0

\* The filler sends each leaving site to a slot of its own in the halo section
\* of the opposite face.
FillerRight(w) ==
  \A p \in Parity :
    LET s == sub[w] IN
    /\ {x[2] : x \in s.filler[p]} = 0..(s.eoHalo - 1)
    /\ \A x \in s.filler[p] :
         LET f == <<p, OppositeOri(x[3]), x[4]>>
         IN  x[2] \in s.eoHaloOffsets[f]..(s.eoHaloOffsets[f] + s.eoHaloPerDir[f] - 1)

EvenFillerRight == Finished => \A w \in {"loc", "simdLoc"} :
                                  EvenHalo(w) => FillerRight(w)

\* A lane-wise section and the section of the messages have the same size: the
\* buffers of the SIMD exchange are indexed by the former and sent by the latter.
SimdSectionsMatch ==
  Finished => \A p \in Parity, o \in Ori, d \in Dir :
     lat.nRanks[d] > 1 /\ EvenHalo("simdLoc") =>
       sub["simdLoc"].eoHaloPerDir[<<p, o, d>>] * Len(NonLocSimdRanks(lat, o, d))
         = sub["loc"].eoHaloPerDir[<<p, o, d>>]

==============================================================================
