SPECIFICATION Spec
CONSTANTS
  Clients = {c1, c2}
  Names = {f, g}
  zipBoot = zipBoot
  zipPlain = zipPlain
  Blobs <- MCBlobs
  Bootstrap <- MCBootstrap
  NoFunction = NoFunction
  MaxRevisions = 2
  MaxFaults = 1
SYMMETRY Symmetry
INVARIANTS
  ReferentialIntegrity
  NoLostUpdate
  OrphanBound
PROPERTIES
  ConditionalUpdateValidated
  DetailsFailsOnlyWhenStale
  Refinement
