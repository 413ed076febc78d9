SPECIFICATION Spec
CONSTANTS
  Requests = {r1, r2}
  NoRequest = NoRequest
INVARIANTS
  TypeOK
  NoContamination
  NoAbandonedHandler
  ReusableIsClean
PROPERTY InvokeReturns
