SPECIFICATION Spec
CONSTANTS
    c1 = c1
    c2 = c2
    Close = {c1, c2}
    MaxOpen = 2
INVARIANTS
    ListeningTrue
    DoneIsClosed
PROPERTIES
    StartSettles
    CloseCallsBack
CHECK_DEADLOCK FALSE
