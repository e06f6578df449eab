\* A stored group whose leader may leave one process behind.
SPECIFICATION Spec
CONSTANTS
    Kids = {k1}
INVARIANTS
    StrangerSpared
CHECK_DEADLOCK FALSE
