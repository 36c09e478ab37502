SPECIFICATION Spec
CONSTANTS
  Tasks = {t1, t2, t3, t4}
  Validated = TRUE
SYMMETRY Symmetry
CHECK_DEADLOCK FALSE
INVARIANTS Mirror CachesFresh ValidatedIsAcyclic SearchesExact
