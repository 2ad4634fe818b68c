SPECIFICATION Spec
CONSTANTS
  a1 = a1
  a2 = a2
  a3 = a3
  Addr = {a1, a2, a3}
  Free = Free
  Zero = Zero
  Tags <- GraphTags
  Shapes <- GraphShapes
  HeaderWords = 2
  MinThreshold = 6
  SpanLen = 1
  MaxLen = 1
  MaxRoots = 1
  Stress = FALSE
SYMMETRY BlockSymmetry
INVARIANTS TypeOK NoDangling ListExact
PROPERTIES CollectExact ImplementsHeapSpec
