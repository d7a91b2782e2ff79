SPECIFICATION FairSpec
CONSTANTS
    s1 = s1
    s2 = s2
    None = None
    Sessions = {s1, s2}
    Peers = {p1, p2}
    Worlds <- MCWorlds
    MaxOffers = 2
    MaxAsking = 2
CHECK_DEADLOCK FALSE
INVARIANTS
    ConsentFirst
    HelperFollowsScreens
PROPERTY
    OfferSettles
