SPECIFICATION FairSpec
CONSTANTS
    w1 = w1  w2 = w2  m = m  c1 = c1  c2 = c2  c3 = c3  c4 = c4
    Workers <- MCWorkers
    Master = m
    Checks <- MCChecks4
    Passes <- MCPasses4
    nBatchSize = 2
INVARIANTS Bookkeeping AssertIdle
PROPERTIES ImplementsControl WaitReturns
