CONSTANTS
    j1 = j1
    j2 = j2
    j3 = j3
    i1 = i1
    w1 = w1
    w2 = w2
    NoJob = NoJob
    NoWorker = NoWorker
    Free = Free
    Jobs = {j1, j2}
    Workers = {w1, w2}
    MaxStalled = 1
    Ids = {i1}
    PaymentId <- OneId
    External = {j1, j2}
    KnownApp = {j1, j2}
    Faults = {"crash", "redis", "lockExpiry"}
SPECIFICATION Spec
INVARIANT IInv
INVARIANT DeliveryPaysOnce
INVARIANT FailedIsFound
PROPERTY KeepsContract
