SPECIFICATION Spec
CONSTANTS
  Structs <- MCStructs
  Unions <- MCUnions
  NameRank <- MCNameRank
  MaxInline = 3
  FieldNames <- MCFieldNames
  MaxInt = 3
  ShortName <- MCShortName
  VariantName <- MCVariantName
  Infinite <- MCInfinite
  Types <- MCTypes
  Values <- MCValues
  Leaves <- MCLeaves
  OtherNames <- MCOther
  MaxEdits = 1
  Bases = {1, 2}
  Recycles = FALSE
INVARIANT ReadIsExact
