SPECIFICATION Spec
CHECK_DEADLOCK FALSE
CONSTANTS
    r1 = r1  r2 = r2  r3 = r3
    Req = {r1, r2, r3}
INVARIANT CleanupTracked
PROPERTY OneReport
PROPERTY RequestEnds
PROPERTY ImplementsTeardown
