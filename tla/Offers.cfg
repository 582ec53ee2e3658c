SPECIFICATION Spec
CONSTANTS
    alice = alice
    bob = bob
    carol = carol
    home = home
    cafe = cafe
    None = None
    Client = {alice, bob, carol}
    Page = {home, cafe}
    PageOf <- MCPageOf
    Socket = {s1, s2, s3}
    NumWant = 2
    MaxOffers = 2
    MaxCalls = 2
    MaxBreaks = 1
INVARIANTS
    OtherPartners
PROPERTIES
    Settled
    OffersEnd
CHECK_DEADLOCK FALSE
