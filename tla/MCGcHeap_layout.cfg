SPECIFICATION Spec
CONSTANTS
  a1 = a1
  a2 = a2
  Addr = {a1, a2}
  Free = Free
  Zero = Zero
  Tags <- LayoutTags
  Shapes <- LayoutShapes
  HeaderWords = 2
  MinThreshold = 12
  SpanLen = 0
  MaxLen = 2
  MaxRoots = 1
  Stress = FALSE
INVARIANTS BytesExact
PROPERTIES CollectorInvisible CollectionEnds
