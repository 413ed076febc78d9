SPECIFICATION Spec
CONSTANTS
  Callers = {c1, c2}
  Admins = {a1}
  Names = {f}
  Handles = {h1, h2, h3}
  Nobody = Nobody
  MaxRevision = 2
  Faulty = FALSE
SYMMETRY Symmetry
INVARIANT TaskRootStaysAlive
