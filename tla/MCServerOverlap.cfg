CONSTANTS
    c1 = c1
    c2 = c2
    c3 = c3
    NoChild = NoChild
    Children <- MCChildren
    MaxToken = 3
    Signals = FALSE
SPECIFICATION Spec

INVARIANTS
    NeverOverlap
CHECK_DEADLOCK FALSE
