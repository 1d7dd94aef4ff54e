SPECIFICATION Spec
CONSTANTS
  NDims = 3
  NSimdRanks = 2
  Lattices <- MCLattices
INVARIANTS
  TablesNeverRefused
  EvenNeighboursRight
  HaloSlotsExact
  SimdSiteRoundTrip
  EvenFillerRight
  SimdSectionsMatch
CHECK_DEADLOCK FALSE
