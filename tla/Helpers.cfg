SPECIFICATION Spec
CONSTANTS
    a = a
    b = b
    Comma = Comma
    Space = Space
    None = None
    Items <- SomeItems
    Values <- TwoValues
    Batches <- SmallBatches
    From <- FirstDay
    To <- LastDay
    Forward <- InMarch
    Back <- InOctober
    MaxNodes = 6
    MaxLen = 6
    Bound = 300
INVARIANTS BatchesCover  SplitStable PeriodsCover RemainDaysLead LastMonthPrecedes 
PROPERTIES QueueRefinesFifo StackRefinesLifo DateIntIncreases
CHECK_DEADLOCK FALSE
