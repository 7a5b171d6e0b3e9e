\* One pool, listed from the start or added later; up to four days with a swap or without.
CONSTANTS
    MaxDay = 4
    MaxBlock = 4
SPECIFICATION Spec
INVARIANTS
    TypeOK
    DailyIsDifference
    StaleIsFetched
    NoSwapCountedTwice
PROPERTY
    TotalsGrow
