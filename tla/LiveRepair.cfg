\* Requests fail now and then, no fill is reported, the process may die while it
\* executes a signal or lose the answer to its entry.
SPECIFICATION FairSpec
CONSTANTS
    c1 = c1  c2 = c2  i1 = i1  i2 = i2  s1 = s1  s2 = s2  BTC = BTC  ETH = ETH
    None = None
    Signals <- OneSignal
    Calls <- OneCall
    Imports <- OneImport
    Symbols <- OneSymbol
    SymbolOf <- OnlyBtc
    Lots <- SingleOnly
    Faults = {"close", "stop", "positions", "cancel", "markPrice", "entryTimeout"}
    Moves = {"closeOutside", "holdingLimit"}
    Requests = {"approve", "expiry"}
    Actors = {"system"}
    AutoExecute = TRUE
    CrashAllowed = TRUE
PROPERTIES ClosedIsNoticed HoldingLimitIsKept EntryIsResolved OrphanIsAdopted ApprovedIsTransient TickEnds
