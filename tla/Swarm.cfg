SPECIFICATION Spec
CONSTANTS
    P1 = P1  P2 = P2  P3 = P3
    a1 = a1
    s1 = s1  s2 = s2  s3 = s3
    PeerId = {P1, P2, P3}
    Addr = {a1}
    Socket = {s1, s2, s3}
    NoSocket = NoSocket
    NoPeer = NoPeer
    NoId = NoId
    MaxPeers = 2
    NumWant = {0, 1, 2}
    Endpoint <- MCMixed
INVARIANT TypeOK
INVARIANT CacheOrdered
INVARIANT CountsMatch
INVARIANT NoGhost
INVARIANT MemberListed
INVARIANT PickedAreUsable
INVARIANT ReplyComplete
PROPERTY SeederStays
PROPERTY RemovedForCause
PROPERTY ImplementsRegistry
