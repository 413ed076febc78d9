SPECIFICATION ServingSpec
CONSTANTS
  Clients = {a1}
  Callers = {c1}
  Names = {f}
  Handles = {h1, h2}
  Nobody = Nobody
  zipBoot = zipBoot
  zipPlain = zipPlain
  Blobs <- MCBlobs
  Bootstrap <- MCBootstrap
  NoFunction = NoFunction
  MaxRevisions = 2
  MaxFaults = 1
INVARIANTS ServingTypeOK RunsResolvedCode
PROPERTIES ImplementsService EveryoneReturns
