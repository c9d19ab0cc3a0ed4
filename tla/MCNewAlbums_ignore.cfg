SPECIFICATION Spec
CONSTANTS
  r1 = r1
  r2 = r2
  a1 = a1
  a2 = a2
  Call = {c1, c2}
  Album = {a1, a2}
  Recon = {r1, r2}
  Released <- MCReleased
  MaxCached = 1
  NoRecon = NoRecon
  NullRecon = NullRecon
  NoArg = NoArg
SYMMETRY Symmetry
INVARIANT IgnoreIsForever
CHECK_DEADLOCK FALSE
