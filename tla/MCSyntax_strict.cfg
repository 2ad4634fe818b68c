SPECIFICATION Spec
CONSTANT Sources <- MCSources
INVARIANTS NothingLost NeverPanics
