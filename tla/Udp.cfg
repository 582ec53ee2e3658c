SPECIFICATION Spec
CHECK_DEADLOCK FALSE
CONSTANTS
    r1 = r1  r2 = r2
    Req = {r1, r2}
INVARIANT CleanupTracked
INVARIANT AnswerIsForRequest
PROPERTY OneReport
PROPERTY RequestEnds
PROPERTY ImplementsTeardown
