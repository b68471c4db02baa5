\* One trade with two take-profits: its stop is moved to breakeven, the operator
\* closes and reconciles; the new stop and the close may lose their answers.
SPECIFICATION Spec
CONSTANTS
    c1 = c1  c2 = c2  i1 = i1  i2 = i2  s1 = s1  s2 = s2  BTC = BTC  ETH = ETH
    None = None
    Signals <- OneSignal
    Calls <- OneCall
    Imports <- NoImport
    Symbols <- OneSymbol
    SymbolOf <- OnlyBtc
    Lots <- SplitOnly
    Faults = {"breakevenTimeout", "closeTimeout"}
    Moves = {"stop", "takeProfit", "tp1"}
    Requests = {"approve", "closeLive", "reconcile"}
    Actors = {"manual"}
    AutoExecute = FALSE
    CrashAllowed = FALSE
INVARIANT NeverUnprotected
