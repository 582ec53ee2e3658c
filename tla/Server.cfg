SPECIFICATION Spec
CHECK_DEADLOCK FALSE
CONSTANTS
    P1 = P1  P2 = P2  P3 = P3  a1 = a1
    s1 = s1  s2 = s2  h1 = h1  h2 = h2
    PeerId = {P1, P2, P3}
    Addr = {a1}
    Socket = {s1}
    NoSocket = NoSocket
    NoPeer = NoPeer
    NoId = NoId
    MaxPeers = 4
    Hash = {h1, h2}
    MaxBatch = 2
    MaxRequests = 3
    Request <- MCMixed
INVARIANT TypeOK
INVARIANT LastWord
INVARIANT GhostsCameLate
PROPERTY OrphansTakeTwo
PROPERTY AllSettled
