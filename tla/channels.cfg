CONSTANTS
    c1 = c1
    c2 = c2
    c3 = c3
    hot = hot
    root = root
    p1 = p1
    k1 = k1
    Processes = {p1}
    Seeds = {k1}
    Calls = {c1, c2, c3}
    Account <- MCAccount
    NoProcess = NoProcess
    NoSeed = NoSeed
    MaxFee = 2
    MaxCrashes = 1
SPECIFICATION LiveSpec
INVARIANT ChannelsTypeOK
INVARIANT CollidesOnlyOutside
INVARIANT FeeWasMinimum
PROPERTY CallsEnd
PROPERTY KeepsSubmission
