SPECIFICATION Spec
CONSTANTS
  Families = {f}
  Pins = {p1, p2}
  Workers = {w1, w2}
  Resolvers = {r1, r2}
  MaxGen = 2
  MaxKept = 1
  Rot = {1}
  Nobody = Nobody
SYMMETRY Symmetry
INVARIANTS TypeOK LiveIsKept ActiveIsComplete StagingIsOwned OneGenerationPerPin ReportIsExact
PROPERTY ActivatesRequestedPin
