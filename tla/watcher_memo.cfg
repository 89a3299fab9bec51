CONSTANTS
    s1 = s1
    s2 = s2
    a1 = a1
    a2 = a2
    o1 = o1
    add1 = add1
    add2 = add2
    del1 = del1
    Services = {s1}
    Wallets = {a1, a2}
    Orders = {o1}
    Requests = {add1, del1}
    Kind <- MCKind
    Service <- MCService
    Addresses <- MCAddresses
    Order <- MCOrder
    NoUrl = NoUrl
    RedisFails = FALSE
    Transactions <- SomeMemos
    MaxLedger = 3
    Limit = 2
    MaxFailures = 1
SPECIFICATION LiveSpec
PROPERTY CursorCatchesUp
