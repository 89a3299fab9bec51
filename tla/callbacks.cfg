CONSTANTS
    j1 = j1
    j2 = j2
    w1 = w1
    w2 = w2
    NoJob = NoJob
    NoWorker = NoWorker
    Jobs = {j1, j2}
    Workers = {w1, w2}
    MaxStalled = 1
    Retries = 1
    Faults = {"crash", "stall"}
SPECIFICATION LiveSpec
INVARIANT HeardIsBounded
INVARIANT UnheardWasTried
PROPERTY CallsEnd
