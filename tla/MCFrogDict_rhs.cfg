SPECIFICATION Spec
CONSTANTS
  pz = pz
  nz = nz
  other = other
  nan = nan
  d1 = d1
  d2 = d2
  Ref = {d1, d2}
  Key <- FloatKeys
  Value = {0, 1}
  Zero = 0
  NoDict = NoDict
  NoKey = NoKey
  Same <- FloatSame
  HashVal = {0, 1}
  HashOf <- Colliding
  MaxCap = 4
  LiteralCaps = {1}
  MaxLen = 3
  MaxTotal = 4
  MaxPending = 1
  MaxHostLen = 1
  RhsTouchesDict = TRUE
  MovesHostDict = FALSE
SYMMETRY RefSymmetry
PROPERTY AssignReachesKey
