\* Two scans of one symbol, with two signals of one direction and one of the
\* other, while signals are executed automatically and by the dashboard, the bot
\* is paused and resumed, the lock expires, redis fails, the backend dies.
SPECIFICATION Spec
CONSTANTS
    a1 = a1  a2 = a2  p1 = p1  c1 = c1  c2 = c2  s1 = s1  s2 = s2  s3 = s3
    BTC = BTC  ETH = ETH
    None = None  NoScan = NoScan
    Scans <- TwoScans
    Processes <- OneProcess
    ProcessOf <- BothInOne
    LockEvents = {"clear", "expire", "crash", "redis"}
    Signals <- ThreeSignals
    Calls <- OneCall
    Imports = {}
    Symbols <- OneSymbol
    SymbolOf <- AllBtc
    DirectionOf <- TwoLongsOneShort
    Lots <- Singles
    Faults = {"balance", "stop", "market"}
    Requests = {"pause", "resume", "approve"}
    Actors = {"manual", "system"}
    AutoExecute = TRUE
    ScanConcurrency = 1
    MaxOpenTrades = 1
SYMMETRY ScanSymmetry
INVARIANTS TypeOK OneSignalPerSide
