\* Three calls for one signal; the balance request of one of them fails.
SPECIFICATION Spec
CONSTANTS
    c1 = c1  c2 = c2  c3 = c3  s1 = s1  s2 = s2  BTC = BTC  ETH = ETH
    None = None
    Signals <- OneSignal
    Calls <- ThreeCalls
    Imports = {}
    Symbols <- OneSymbol
    SymbolOf <- OnlyBtc
    Lots <- SingleOnly
    Faults = {"balance"}
    Requests = {}
    Actors = {"manual", "system"}
    CrashAllowed = FALSE
SYMMETRY CallSymmetry
INVARIANT NoDoubleExecution
