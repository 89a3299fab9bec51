CONSTANTS
    j1 = j1
    j2 = j2
    j3 = j3
    a1 = a1
    w1 = w1
    w2 = w2
    NoJob = NoJob
    NoWorker = NoWorker
    Jobs = {j1, j2}
    Workers = {w1, w2}
    MaxStalled = 1
    Addresses = {a1}
    Address <- OneAddress
    KnownApp = {j1, j2}
    Faults = {"crash", "redis", "replyLost"}
SPECIFICATION LiveSpec
INVARIANT WalletsTypeOK
INVARIANT CompletedIsAnswered
INVARIANT SuccessIsOwn
PROPERTY AcceptedIsAnswered
PROPERTY KeepsContract
