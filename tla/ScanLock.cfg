\* Two processes, resumed while they scan; the lock expires,
\* processes die, requests to redis throw.
SPECIFICATION LockFairSpec
CONSTANTS
    a1 = a1  a2 = a2  a3 = a3  p1 = p1  p2 = p2
    NoScan = NoScan
    Scans <- ThreeScans
    Processes <- TwoProcesses
    ProcessOf <- TwoAndOne
    LockEvents = {"clear", "expire", "crash", "redis"}
INVARIANTS OverlapNeedsLoss OneScanPerProcess FlagHasScan
PROPERTIES LockIsFreed
