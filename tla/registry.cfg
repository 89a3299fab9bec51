CONSTANTS
    s1 = s1
    s2 = s2
    a1 = a1
    a2 = a2
    o1 = o1
    add1 = add1
    add2 = add2
    add3 = add3
    del1 = del1
    del2 = del2
    Services = {s1, s2}
    Wallets = {a1, a2}
    Orders = {o1}
    Requests = {add1, add2, add3, del1, del2}
    Kind <- MCKind
    Service <- MCService
    Addresses <- MCAddresses
    Order <- MCOrder
    NoUrl = NoUrl
    RedisFails = TRUE
    MaxStops = 1
    MaxCrashes = 1
SPECIFICATION LiveSpec
INVARIANT ServerTypeOK
INVARIANT WatchedHasUrl
INVARIANT AddedIsWatched
INVARIANT DeletedWasWatched
INVARIANT StopCutsNothing
PROPERTY StopEnds
PROPERTY KeepsContract
