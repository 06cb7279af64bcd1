CONSTANTS
    Attempts = {1, 2, 3}
    Ledgers <- MCLedgers
    Kind <- MCKind
    Mode <- MCMode
    Limit <- MCLimit
    Draws <- MCDraws
    Ids = {1, 2}
    Id <- MCId
    MaxUnits = 2
    Top = 4
SPECIFICATION Spec
INVARIANTS ReservedAccounted WithinLimit SummaryTrue
