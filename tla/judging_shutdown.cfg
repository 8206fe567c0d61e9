SPECIFICATION Spec
CONSTANTS
    Problems <- TwoTests
    Limit = 2
    Amounts = {2, 3}
    Deliveries = 2
    MaxFaults = 0
INVARIANTS SystemErrorExplained
CHECK_DEADLOCK FALSE
