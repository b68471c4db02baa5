\* A trade with two take-profits, opened by the dashboard or the refill, or
\* imported while its call is still at work; orders trigger, the holding limit
\* passes, stops are moved to breakeven, the stream reports fills or loses them;
\* stops, cancels, closes and prices fail, or are carried out without an answer.
SPECIFICATION Spec
CONSTANTS
    c1 = c1  c2 = c2  i1 = i1  i2 = i2  s1 = s1  s2 = s2  BTC = BTC  ETH = ETH
    None = None
    Signals <- OneSignal
    Calls <- OneCall
    Imports <- OneImport
    Symbols <- OneSymbol
    SymbolOf <- OnlyBtc
    Lots <- SplitOnly
    Faults = {"cancel", "markPrice", "stop", "stream", "cancelTimeout", "closeTimeout",
              "breakevenTimeout"}
    Moves = {"stop", "takeProfit", "holdingLimit", "tp1"}
    Requests = {"approve"}
    Actors = {"system"}
    AutoExecute = TRUE
    CrashAllowed = FALSE
INVARIANT TypeOK
PROPERTIES ImplementsLedger FirstVerdictStands
