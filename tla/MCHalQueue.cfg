\* Two units per element, 3-bit sequences: capacities 1..3 are accepted, 4 is not;
\* the sequences wrap after eight pushes, and capacity 3 does not divide 8.
CONSTANTS
  MaxCapacity = 4
  SeqMod = 8
  u1 = u1
  u2 = u2
  v1 = v1
  v2 = v2
  Unit <- TwoUnits
  UnitValue <- Values
  Payload <- PlainElements
SPECIFICATION Spec
INVARIANTS TypeOK ValidationPasses SlotExclusion RingConsistent QueriesAreConservative
PROPERTY ImplementsFifo
SYMMETRY ValueSymmetry
