\* Two automatic calls for two symbols; every request may fail, or lose its
\* answer, except that the entry's is not lost and the emergency close is
\* carried out.
SPECIFICATION Spec
CONSTANTS
    c1 = c1  c2 = c2  c3 = c3  s1 = s1  s2 = s2  BTC = BTC  ETH = ETH
    None = None
    Signals <- TwoSignals
    Calls <- TwoCalls
    Imports = {}
    Symbols <- TwoSymbols
    SymbolOf <- OwnSymbol
    Lots <- SplitAndSingle
    Faults = {"balance", "stalePrice", "markPrice", "leverage", "entry",
              "stop", "stopTimeout", "takeProfitTimeout", "takeProfit"}
    Requests = {"cancel", "patch", "pause"}
    Actors = {"system"}
    CrashAllowed = FALSE
SYMMETRY CallSymmetry
INVARIANTS NeverUnprotected PositionIsBooked
