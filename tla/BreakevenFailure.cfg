\* TP1 is reached and Binance refuses orders.
SPECIFICATION FairSpec
CONSTANTS
    c1 = c1  c2 = c2  i1 = i1  i2 = i2  s1 = s1  s2 = s2  BTC = BTC  ETH = ETH
    None = None
    Signals <- OneSignal
    Calls <- OneCall
    Imports <- NoImport
    Symbols <- OneSymbol
    SymbolOf <- OnlyBtc
    Lots <- SingleOnly
    Faults = {"stop"}
    Moves = {"tp1"}
    Requests = {"approve"}
    Actors = {"system"}
    AutoExecute = FALSE
    CrashAllowed = FALSE
PROPERTY BreakevenKeepsStop
