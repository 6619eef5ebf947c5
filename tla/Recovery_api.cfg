\* Every operation of the package and every failure, with an engine restart.
SPECIFICATION Spec
CHECK_DEADLOCK FALSE
CONSTANTS
    MaxDailyLossPercent = 3
    MaxDailyLossCount = 3
    MaxConsecutiveLosses = 2
    RecoveryMaxTrades = 1
    RecoveryExitAfterWins = 1
    RecoverySize = 50
    PnLs <- MixedPnLs
    EquityKnown = TRUE
    CloseIds = FALSE
    Calls = {"INCREMENT", "COOLDOWN", "CLEAR", "RESET"}
    Faults = {"DUPLICATE", "SAVE_FAILS", "LOAD_FAILS"}
    NoRec = NoRec
    MaxOpen = 2
    MaxTrades = 3
    MaxDups = 1
    MaxSaves = 1
    MaxDay = 1
    MaxRestarts = 1
INVARIANTS
    TypeOK
PROPERTIES
    NoEscalation
