\* Two trading days of one engine process, with the maintenance scheduler,
\* close event ids and a known starting equity.
SPECIFICATION FairSpec
CHECK_DEADLOCK FALSE
CONSTANTS
    MaxDailyLossPercent = 3
    MaxDailyLossCount = 3
    MaxConsecutiveLosses = 2
    RecoveryMaxTrades = 1
    RecoveryExitAfterWins = 1
    RecoverySize = 50
    PnLs <- MixedPnLs
    EquityKnown = TRUE
    CloseIds = TRUE
    Calls = {"RESET"}
    Faults = {"DUPLICATE", "STORE_FAILS", "SAVE_FAILS"}
    NoRec = NoRec
    MaxOpen = 2
    MaxTrades = 5
    MaxDups = 1
    MaxSaves = 1
    MaxDay = 1
    MaxRestarts = 0
INVARIANTS
    LossBudget
    

    
    
