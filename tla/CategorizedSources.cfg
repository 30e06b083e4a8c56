\* Every list of up to five sources in three categories.
CONSTANTS
  Ids = {"a", "b"}
  Categories = {"", "business", "sports"}
  MaxSources = 5

SPECIFICATION Spec
INVARIANTS Grouped FlatIsComplete ArchiveIsFaithful
CHECK_DEADLOCK FALSE
