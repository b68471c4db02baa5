\* Two calls race over two signals of one symbol: stops are refused or lose
\* their answers, so do the entry, the targets and the emergency close; the
\* operator stops, resumes, skips and cleans up, and the process may die.
SPECIFICATION Spec
CONSTANTS
    c1 = c1  c2 = c2  c3 = c3  s1 = s1  s2 = s2  BTC = BTC  ETH = ETH
    None = None
    Signals <- TwoSignals
    Calls <- TwoCalls
    Imports = {}
    Symbols <- OneSymbol
    SymbolOf <- SameSymbol
    Lots <- SplitAndSingle
    Faults = {"entry", "entryTimeout", "markPrice", "stop", "stopTimeout",
              "takeProfitTimeout", "close", "takeProfit"}
    Requests = {"stop", "resume", "skip", "cleanup"}
    Actors = {"manual"}
    CrashAllowed = TRUE
SYMMETRY CallSymmetry
INVARIANTS TypeOK OneLiveTradePerSymbol ExecutedHasStop FailedHasNoKnownOrder StopHoldsTheRest
PROPERTY ImplementsLedger
