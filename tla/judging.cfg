SPECIFICATION Spec
CONSTANTS
    Problems <- SomeProblems
    Limit = 2
    Amounts = {2, 3}
    Deliveries = 2
    MaxFaults = 1
INVARIANTS TypeOK VerdictIsFirstFailure ScoreAddsUp
CHECK_DEADLOCK FALSE
