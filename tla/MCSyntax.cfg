SPECIFICATION Spec
CONSTANT Sources <- MCSources
INVARIANTS NothingElseLost BindsByRank StatementPerLine StatementsStartAfresh
PROPERTIES AlwaysEnds
