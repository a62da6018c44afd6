SPECIFICATION Spec
INVARIANTS BusUsedAlone
CHECK_DEADLOCK FALSE
