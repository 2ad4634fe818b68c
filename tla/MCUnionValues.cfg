SPECIFICATION Spec
CONSTANTS
  Vars = {x, y}
  Structs <- MCStructs
  Unions <- MCUnions
  NameRank <- MCNameRank
  MaxInline = 3
  Spellings <- MCSpellings
  ErrorTypes <- MCErrors
  MaxObjects = 4
  Members <- MCMembers
  ArmLists <- MCArmLists
INVARIANTS OneFormPerUnion ReadingsAgree PrintAndEqualityAgree CollectorFollowsObjects
CHECK_DEADLOCK FALSE
