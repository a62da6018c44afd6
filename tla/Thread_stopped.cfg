CONSTANTS
    MaxStarts = 2
    Discipline = "state"
SPECIFICATION Spec
INVARIANTS
    FreedAfterLastAccess
CHECK_DEADLOCK FALSE
