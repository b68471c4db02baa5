CONSTANTS
    Lookbacks = {12, 24}
    FeeBps = 4
    Tick = 1
    MinNotional = 50000
    Readings <- MCReadings
    Standing <- MCStanding
    Patches <- MCPatches
    MaxPatches = 1
    Accounts <- MCAccounts
    Results <- MCResults
SPECIFICATION Spec
INVARIANTS TypeOK TargetsAhead LossIsBudgeted ConfidenceIsFinal
PROPERTIES SizeFits
