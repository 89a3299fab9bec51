CONSTANTS
    j1 = j1
    j2 = j2
    j3 = j3
    i1 = i1
    w1 = w1
    w2 = w2
    NoJob = NoJob
    NoWorker = NoWorker
    Free = Free
    Jobs = {j1, j2, j3}
    Workers = {w1, w2}
    MaxStalled = 1
    Ids = {i1}
    PaymentId <- OneId
    External = {j1, j3}
    KnownApp = {j1, j2}
    Faults = {"stall", "lockExpiry", "recordExpiry", "noLock"}
SYMMETRY WorkerSymmetry
SPECIFICATION Spec
INVARIANT NoDoubleSpend
INVARIANT PaidIsReported
INVARIANT ReportedIsFound
