SPECIFICATION Spec
CHECK_DEADLOCK FALSE
CONSTANTS
    t1 = t1  t2 = t2  t3 = t3  k1 = k1  k2 = k2  k3 = k3
    Tracker = {t1, t2}
    Sock = {k1, k2}
    NoSock = NoSock
INVARIANT ReconnectsOnOpen
